------------------------ MODULE SummaryStreamProofs ------------------------
(***************************************************************************)
(* Safety of SummaryStream for any number of requests and chunks: what the *)
(* row holds, what a client was told about it, and who may generate.       *)
(***************************************************************************)
EXTENDS SummaryStream, TLAPS, FiniteSetTheorems

\* A chunk more of a request's own text is a text of the request.
LEMMA OwnChunk ==
  ASSUME NEW r, NEW t \in TextsOf(r), Len(t) < MaxChunks
  PROVE  Append(t, <<r, Len(t) + 1>>) \in TextsOf(r)
<1>1. PICK n \in 0..MaxChunks : t = [i \in 1..n |-> <<r, i>>]
      BY DEF TextsOf
<1>2. Len(t) = n
      BY <1>1
<1>3. Append(t, <<r, Len(t) + 1>>) = [i \in 1..(n + 1) |-> <<r, i>>]
      BY <1>1, <1>2
<1>4. n + 1 \in 0..MaxChunks
      BY <1>2, StreamAssumption
<1> QED
      BY <1>3, <1>4 DEF TextsOf

\* A text is no request's before it has a chunk, and then that of one.
LEMMA EmptyText == \A r : <<>> \in TextsOf(r)
<1> SUFFICES ASSUME NEW r PROVE <<>> \in TextsOf(r)
    OBVIOUS
<1>1. [i \in 1..0 |-> <<r, i>>] \in TextsOf(r)
      BY StreamAssumption DEF TextsOf
<1>2. [i \in 1..0 |-> <<r, i>>] = <<>>
      OBVIOUS
<1> QED
      BY <1>1, <1>2

\* A request that moves on keeps its text, and so do the others.
LEMMA Moves ==
  ASSUME TypeOK, NEW r \in Requests, NEW at \in Places, Goto(r, at),
         lock' \in BOOLEAN, lapsed' \in BOOLEAN, draft' \in Seq(Requests \X Nat)
  PROVE  /\ TypeOK'
         /\ req'[r].at = at
         /\ \A q \in Requests : req'[q].text = req[q].text
         /\ \A q \in Requests \ {r} : req'[q] = req[q]
<1>1. req' = [req EXCEPT ![r] = [req[r] EXCEPT !.at = at]]
      BY DEF Goto, TypeOK
<1>2. [req[r] EXCEPT !.at = at] \in [at : Places, text : Texts]
      BY DEF TypeOK
<1>3. [req[r] EXCEPT !.at = at].at = at /\ [req[r] EXCEPT !.at = at].text = req[r].text
      BY DEF TypeOK
<1> QED
      BY <1>1, <1>2, <1>3 DEF TypeOK

-----------------------------------------------------------------------------
\* What is saved is a text, and whoever counts on a row finds one.
SaveInv ==
  /\ row \subseteq Texts
  /\ \A r \in Requests : req[r].at \in {"update", "releaseDone", "done"} => row # {}

\* Without an excuse, the one request that generates holds the lock.
LockInv ==
  ~lapsed => /\ \A r, s \in Busy : r = s
             /\ Busy # {} => lock

IInv == TypeOK /\ SaveInv /\ LockInv

\* Nobody runs at first.
LEMMA InitIInv == Init => IInv
<1> SUFFICES ASSUME Init PROVE IInv
    OBVIOUS
<1>1. TypeOK
  <2>1. \A r \in Requests : <<>> \in Texts
        BY EmptyText DEF Texts
  <2>2. \A r \in Requests : Fresh \in [at : Places, text : Texts]
        BY <2>1 DEF Fresh, Places
  <2>3. req \in [Requests -> [at : Places, text : Texts]]
        BY <2>2 DEF Init
  <2>4. \A r \in Requests : req[r].text \in TextsOf(r)
        BY EmptyText DEF Init, Fresh
  <2>5. draft \in Seq(Requests \X Nat)
        BY DEF Init
  <2> QED
        BY <2>3, <2>4, <2>5 DEF Init, TypeOK
<1>2. SaveInv /\ LockInv
      BY DEF Init, Fresh, SaveInv, LockInv, Busy
<1> QED
      BY <1>1, <1>2 DEF IInv

\* A request that goes on without touching the row or the lock keeps the
\* invariant, unless it enters where a row is counted on.
LEMMA Quiet ==
  ASSUME IInv, NEW r \in Requests, NEW at \in Places, Goto(r, at),
         UNCHANGED <<lock, row, lapsed>>, draft' \in Seq(Requests \X Nat),
         at \in {"update", "releaseDone", "done"} => row # {},
         r \in Busy \/ at \in {"done", "failed", "refused", "lost"}
  PROVE  IInv'
<1>1. /\ TypeOK' /\ req'[r].at = at
      /\ \A q \in Requests \ {r} : req'[q] = req[q]
      BY Moves DEF IInv, TypeOK
<1>2. SaveInv'
      BY <1>1 DEF IInv, SaveInv
<1>3. Busy' \subseteq Busy
      BY <1>1 DEF Busy
<1> QED
      BY <1>1, <1>2, <1>3 DEF IInv, LockInv

\* Every step keeps the invariant.
LEMMA NextIInv == IInv /\ [Next]_vars => IInv'
<1> SUFFICES ASSUME IInv, [Next]_vars PROVE IInv'
    OBVIOUS
<1>1. CASE UNCHANGED vars
      BY <1>1 DEF vars, IInv, TypeOK, SaveInv, LockInv, Busy
<1>2. CASE Expire
      BY <1>2 DEF Expire, IInv, TypeOK, SaveInv, LockInv, Busy
<1>3. ASSUME NEW r \in Requests, Acquire(r) PROVE IInv'
  <2>1. /\ TypeOK' /\ req'[r].at = "start"
        /\ \A q \in Requests \ {r} : req'[q] = req[q]
        BY <1>3, Moves DEF Acquire, IInv, TypeOK, Places
  <2>2. SaveInv'
        BY <1>3, <2>1 DEF Acquire, IInv, SaveInv
  <2>3. lapsed \/ Busy' = {r}
        BY <1>3, <2>1 DEF Acquire, IInv, LockInv, Busy
  <2> QED
        BY <1>3, <2>1, <2>2, <2>3 DEF Acquire, IInv, LockInv
<1>4. ASSUME NEW r \in Requests, Refused(r) PROVE IInv'
      BY <1>4, Quiet DEF Refused, Places, IInv, TypeOK
<1>5. ASSUME NEW r \in Requests, AcquireErrs(r) PROVE IInv'
  <2>1. /\ TypeOK' /\ req'[r].at = "start"
        /\ \A q \in Requests \ {r} : req'[q] = req[q]
        BY <1>5, Moves DEF AcquireErrs, IInv, TypeOK, Places
  <2> QED
        BY <1>5, <2>1 DEF AcquireErrs, IInv, SaveInv, LockInv
<1>6. ASSUME NEW r \in Requests, Start(r) PROVE IInv'
      BY <1>6, Quiet DEF Start, Places, Busy
<1>7. ASSUME NEW r \in Requests, StartFails(r) PROVE IInv'
      BY <1>7, Quiet DEF StartFails, Places, Busy, IInv, TypeOK
<1>8. ASSUME NEW r \in Requests, Chunk(r) PROVE IInv'
  <2> DEFINE t == req[r].text
             more == Append(t, <<r, Len(t) + 1>>)
  <2>1. t \in TextsOf(r) /\ Len(t) < MaxChunks /\ req[r].at = "stream"
        BY <1>8 DEF Chunk, IInv, TypeOK
  <2>2. more \in TextsOf(r) /\ more \in Texts
        BY <2>1, OwnChunk DEF Texts
  <2>3. Len(t) + 1 \in Nat
        BY <2>1 DEF TextsOf
  <2>4. /\ req' = [req EXCEPT ![r] = [req[r] EXCEPT !.text = more]]
        /\ draft' = Append(draft, <<r, Len(t) + 1>>)
        /\ UNCHANGED <<lock, row, lapsed>>
        BY <1>8 DEF Chunk, IInv, TypeOK
  <2> HIDE DEF more, t
  <2>5. [req[r] EXCEPT !.text = more] \in [at : Places, text : Texts]
        BY <2>2 DEF IInv, TypeOK
  <2>6. /\ req' \in [Requests -> [at : Places, text : Texts]]
        /\ \A q \in Requests : req'[q].at = req[q].at
        /\ \A q \in Requests : req'[q].text \in TextsOf(q)
        BY <2>2, <2>4, <2>5 DEF IInv, TypeOK
  <2>7. TypeOK'
        BY <2>3, <2>4, <2>6 DEF IInv, TypeOK
  <2> QED
        BY <2>4, <2>6, <2>7 DEF IInv, SaveInv, LockInv, Busy
<1>9. ASSUME NEW r \in Requests, ClientGone(r) PROVE IInv'
      BY <1>9, Quiet DEF ClientGone, Places, Busy, IInv, TypeOK
<1>10. ASSUME NEW r \in Requests, StreamEnds(r) PROVE IInv'
      BY <1>10, Quiet DEF StreamEnds, Places, Busy, IInv, TypeOK
<1>11. ASSUME NEW r \in Requests, Find(r) PROVE IInv'
  <2>1. CASE row = {}
        BY <1>11, <2>1, Quiet DEF Find, Places, Busy, IInv, TypeOK
  <2>2. CASE row # {}
        BY <1>11, <2>2, Quiet DEF Find, Places, Busy, IInv, TypeOK
  <2> QED
        BY <2>1, <2>2
<1>12. ASSUME NEW r \in Requests, Save(r) PROVE IInv'
  <2>1. /\ TypeOK' /\ req'[r].at = "releaseDone"
        /\ \A q \in Requests \ {r} : req'[q] = req[q]
        BY <1>12, Moves DEF Save, IInv, TypeOK, Places
  <2>2. row' = {req[r].text} /\ req[r].text \in Texts
        BY <1>12 DEF Save, IInv, TypeOK
  <2>3. Busy' = Busy
        BY <1>12, <2>1 DEF Save, Busy
  <2> QED
        BY <1>12, <2>1, <2>2, <2>3 DEF Save, IInv, SaveInv, LockInv
<1>13. ASSUME NEW r \in Requests, SaveFails(r) PROVE IInv'
      BY <1>13, Quiet DEF SaveFails, Places, Busy, IInv, TypeOK
<1>14. ASSUME NEW r \in Requests, Release(r) PROVE IInv'
  <2>1. Ended(req[r].at) \in Places /\ Ended(req[r].at) \in {"done", "failed"}
        BY DEF Ended, Places
  <2>2. Ended(req[r].at) = "done" => row # {}
        BY <1>14 DEF Ended, Release, IInv, SaveInv
  <2>3. /\ TypeOK' /\ req'[r].at = Ended(req[r].at)
        /\ \A q \in Requests \ {r} : req'[q] = req[q]
        BY <1>14, <2>1, Moves DEF Release, IInv, TypeOK
  <2>4. Busy' = Busy \ {r} /\ r \in Busy
        BY <1>14, <2>1, <2>3 DEF Release, Busy
  <2>5. SaveInv'
        BY <1>14, <2>1, <2>2, <2>3 DEF Release, IInv, SaveInv
  <2> QED
        BY <1>14, <2>3, <2>4, <2>5 DEF Release, IInv, LockInv
<1>15. ASSUME NEW r \in Requests, Lost(r) PROVE IInv'
  <2>1. /\ TypeOK' /\ req'[r].at = "lost"
        /\ \A q \in Requests \ {r} : req'[q] = req[q]
        BY <1>15, Moves DEF Lost, IInv, TypeOK, Places
  <2>2. Busy' = Busy \ {r} /\ r \in Busy
        BY <1>15, <2>1 DEF Lost, Busy
  <2> QED
        BY <1>15, <2>1, <2>2 DEF Lost, IInv, SaveInv, LockInv
<1> QED
    BY <1>1, <1>2, <1>3, <1>4, <1>5, <1>6, <1>7, <1>8, <1>9, <1>10, <1>11, <1>12, <1>13,
       <1>14, <1>15 DEF Next, Step

\* The strengthened invariant holds throughout.
LEMMA Invariance == Spec => []IInv
BY InitIInv, NextIInv, PTL DEF Spec

-----------------------------------------------------------------------------
\* The steps a request has before it at most.
Left(r) ==
  CASE req[r].at = "new" -> MaxChunks + 6
    [] req[r].at = "start" -> MaxChunks + 5
    [] req[r].at = "stream" -> 4 + MaxChunks - Len(req[r].text)
    [] req[r].at = "find" -> 3
    [] req[r].at \in {"insert", "update"} -> 2
    [] req[r].at \in {"release", "releaseDone"} -> 1
    [] OTHER -> 0
\* A step brings its request nearer to its end, and no other request.
RequestsAdvance ==
  \A r \in Requests : Step(r) => /\ Left(r)' < Left(r)
                                 /\ \A q \in Requests \ {r} : UNCHANGED req[q]

\* The length of a request's text.
LEMMA TextLength ==
  ASSUME TypeOK, NEW r \in Requests
  PROVE  Len(req[r].text) \in 0..MaxChunks /\ req[r].text \in Seq({r} \X Nat)
<1>1. PICK n \in 0..MaxChunks : req[r].text = [i \in 1..n |-> <<r, i>>]
      BY DEF TypeOK, TextsOf
<1>2. n \in Nat
      BY StreamAssumption
<1>3. [i \in 1..n |-> <<r, i>>] \in Seq({r} \X Nat) /\ Len([i \in 1..n |-> <<r, i>>]) = n
      BY <1>2
<1> QED
      BY <1>1, <1>3

\* Every step of a request takes it on.
LEMMA StepLowers == ASSUME TypeOK, [Next]_vars PROVE RequestsAdvance
<1> SUFFICES ASSUME NEW r \in Requests, Step(r)
             PROVE  /\ Left(r)' < Left(r)
                    /\ \A q \in Requests \ {r} : UNCHANGED req[q]
    BY DEF RequestsAdvance
<1>1. /\ Len(req[r].text) \in 0..MaxChunks /\ MaxChunks \in Nat /\ DOMAIN req = Requests
      /\ req[r] \in [at : Places, text : Texts] /\ req[r].text \in Seq({r} \X Nat)
      BY TextLength, StreamAssumption DEF TypeOK
<1>2. ASSUME NEW at, Goto(r, at)
      PROVE  /\ req'[r].at = at /\ req'[r].text = req[r].text
             /\ \A q \in Requests \ {r} : UNCHANGED req[q]
      BY <1>1, <1>2 DEF Goto
<1> DEFINE n == Len(req[r].text)
<1>3. CASE Chunk(r)
  <2> DEFINE c == <<r, n + 1>>
  <2>1. /\ req' = [req EXCEPT ![r].text = Append(@, c)] /\ req[r].at = "stream"
        BY <1>3 DEF Chunk
  <2>2. /\ req'[r].at = "stream" /\ req'[r].text = Append(req[r].text, c)
        /\ \A q \in Requests \ {r} : UNCHANGED req[q]
        BY <1>1, <2>1
  <2>3. Len(req'[r].text) = n + 1
        BY <1>1, <2>2
  <2> QED
        BY <1>1, <2>1, <2>2, <2>3 DEF Left
<1>4. CASE Acquire(r) \/ Refused(r) \/ AcquireErrs(r)
  <2>1. PICK at \in {"start", "refused"} : req[r].at = "new" /\ Goto(r, at)
        BY <1>4 DEF Acquire, Refused, AcquireErrs
  <2>2. req'[r].at = at /\ \A q \in Requests \ {r} : UNCHANGED req[q]
        BY <1>2, <2>1
  <2>3. Left(r)' \in {0, MaxChunks + 5} /\ Left(r) = MaxChunks + 6
        BY <2>1, <2>2 DEF Left
  <2> QED
        BY <1>1, <2>2, <2>3
<1>5. CASE Start(r) \/ StartFails(r)
      BY <1>1, <1>2, <1>5 DEF Start, StartFails, Left
<1>6. CASE ClientGone(r) \/ StreamEnds(r)
      BY <1>1, <1>2, <1>6 DEF ClientGone, StreamEnds, Left
<1>7. CASE Find(r) \/ Save(r) \/ SaveFails(r)
  <2>1. CASE Find(r)
    <3>1. PICK at \in {"insert", "update"} : Goto(r, at)
          BY <2>1 DEF Find
    <3> QED
          BY <1>2, <2>1, <3>1 DEF Find, Left
  <2>2. CASE Save(r)
        BY <1>2, <2>2 DEF Save, Left
  <2>3. CASE SaveFails(r)
        BY <1>2, <2>3 DEF SaveFails, Left
  <2> QED
        BY <1>7, <2>1, <2>2, <2>3
<1>8. CASE Release(r)
  <2>1. Ended(req[r].at) \in {"failed", "done"}
        BY DEF Ended
  <2> QED
        BY <1>2, <1>8, <2>1 DEF Release, Left
<1>9. CASE Lost(r)
      BY <1>1, <1>2, <1>9 DEF Lost, Busy, Places, Left
<1> QED
      BY <1>3, <1>4, <1>5, <1>6, <1>7, <1>8, <1>9 DEF Step

\* The part of LockComesBack that needs no fairness: a request has at most
\* MaxChunks + 6 steps from the lock to its release, each leaves fewer, and no
\* other step, the lapse of the lock included, gives it more.
THEOREM RequestsEnd ==
  Spec => /\ [](\A r \in Requests : Left(r) \in 0..(MaxChunks + 6))
          /\ [][RequestsAdvance]_vars
          /\ [][\E r \in Requests : Step(r)]_req
<1>1. IInv /\ [Next]_vars => [RequestsAdvance]_vars
      BY StepLowers DEF IInv
<1>2. IInv => \A r \in Requests : Left(r) \in 0..(MaxChunks + 6)
  <2> SUFFICES ASSUME IInv, NEW r \in Requests PROVE Left(r) \in 0..(MaxChunks + 6)
      OBVIOUS
  <2>1. Len(req[r].text) \in 0..MaxChunks /\ MaxChunks \in Nat
        BY TextLength, StreamAssumption DEF IInv
  <2>2. 4 + MaxChunks - Len(req[r].text) \in 0..(MaxChunks + 6)
    <3>1. \A m \in Nat : \A n \in 0..m : 4 + m - n \in 0..(m + 6)
          OBVIOUS
    <3> QED
          BY <2>1, <3>1, Zenon
  <2>3. {0, 1, 2, 3, MaxChunks + 5, MaxChunks + 6} \subseteq 0..(MaxChunks + 6)
        BY <2>1
  <2>4. Left(r) \in {0, 1, 2, 3, MaxChunks + 5, MaxChunks + 6, 4 + MaxChunks - Len(req[r].text)}
        BY DEF Left
  <2> QED
        BY <2>2, <2>3, <2>4
<1>3. [Next]_vars => [\E r \in Requests : Step(r)]_req
      BY DEF Next, Expire, vars
<1> QED
      BY <1>1, <1>2, <1>3, Invariance, PTL DEF Spec

\* Every variable keeps its type, through crashes and lapses of the lock.
THEOREM TypeCorrect == Spec => []TypeOK
<1>1. IInv => TypeOK
      BY DEF IInv
<1> QED
      BY <1>1, Invariance, PTL

\* saveToDB, however two of them interleave with the streams and with each
\* other, leaves the text of one generation in the row.
THEOREM RowHoldsOneText == Spec => []RowIsOnePrefix
<1>1. IInv => RowIsOnePrefix
      BY DEF IInv, SaveInv, RowIsOnePrefix
<1> QED
      BY <1>1, Invariance, PTL

\* A client of the endpoint that was sent "done" finds a row.
THEOREM DoneHasARow == Spec => []DoneIsSaved
<1>1. IInv => DoneIsSaved
      BY DEF IInv, SaveInv, DoneIsSaved
<1> QED
      BY <1>1, Invariance, PTL

\* AcquireSummaryLock lets one request generate, for as long as the lock lives
\* and Redis answers.
THEOREM OneGenerates == Spec => []ExclusiveUnlessLapsed
<1>1. IInv => ExclusiveUnlessLapsed
  <2> SUFFICES ASSUME IInv, ~lapsed PROVE Cardinality(Busy) <= 1
      BY DEF ExclusiveUnlessLapsed
  <2>1. CASE Busy = {}
        BY <2>1, FS_EmptySet
  <2>2. ASSUME NEW r \in Busy PROVE Cardinality(Busy) <= 1
    <3>1. Busy = {r}
          BY DEF IInv, LockInv
    <3> QED
          BY <3>1, FS_Singleton
  <2> QED
        BY <2>1, <2>2
<1> QED
      BY <1>1, Invariance, PTL
=============================================================================
