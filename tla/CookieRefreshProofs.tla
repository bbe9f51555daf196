------------------------- MODULE CookieRefreshProofs ------------------------
(***************************************************************************)
(* Safety of CookieRefresh for any number of workers and pairs: the rows   *)
(* keep up with bilibili, and what is reported as refreshed is saved.      *)
(***************************************************************************)
EXTENDS CookieRefresh, TLAPS

\* A worker holds no value newer than p.  A token it has to try is one of a row;
\* without a new pair it saves just that token.
Fits(t, p) ==
  /\ t.at \in {"ask", "post"} => t.token # None /\ t.token <= p
  /\ t.at \in {"saveSess", "saveToken"} =>
       /\ t.tried <= p /\ t.newToken <= p
       /\ t.got = None \/ t.got <= p
       /\ t.got = None => t.at = "saveToken" /\ t.newToken = t.tried
  /\ t.at = "saveSess" => t.newSess # None /\ t.newSess <= p
  /\ t.at \in {"mark", "markToken"} => t.got = None \/ t.got <= p

Bounded ==
  /\ \A n \in Names : row[n].value <= pair
  /\ \A w \in Workers : Fits(work[w], pair)

\* Nothing is newer than the pair the site accepts now.
LEMMA Newer ==
  ASSUME NEW t \in Tasks, NEW p \in Pairs, NEW q \in Pairs, p <= q, Fits(t, p)
  PROVE  Fits(t, q)
BY CookieAssumption DEF Fits, Tasks, Choosing, Trying, Saving, Marking, Idle, Pairs

\* The harm there can be; one more leaves it such.
Harms == {{"mixed"}} \cup SUBSET {"lost", "reverted"}
LEMMA HarmedIs ==
  ASSUME harm \in Harms, NEW by \in {"lost", "reverted", "mixed"}
  PROVE  Harmed(by) \in Harms
BY DEF Harmed, Harms

\* What a worker's step has to establish: its next task, and the new row.
LEMMA WorkStep ==
  ASSUME TypeOK, Bounded, NEW w \in Workers, NEW t \in Tasks,
         work' = [work EXCEPT ![w] = t],
         row' \in [Names -> [value : Pairs, need : BOOLEAN]],
         pair' \in Pairs,
         harm' \in Harms,
         \A n \in Names : row'[n].value <= pair',
         pair <= pair',
         Fits(t, pair')
  PROVE  TypeOK' /\ Bounded'
<1>1. work' \in [Workers -> Tasks]
      BY DEF TypeOK
<1>2. ASSUME NEW v \in Workers PROVE Fits(work'[v], pair')
  <2>1. CASE v = w
        BY <2>1 DEF TypeOK
  <2>2. CASE v # w
    <3>1. work'[v] = work[v] /\ work[v] \in Tasks /\ Fits(work[v], pair)
          BY <2>2 DEF TypeOK, Bounded
    <3>2. pair \in Pairs /\ pair' \in Pairs
          BY DEF TypeOK
    <3> QED
        BY <3>1, <3>2, Newer
  <2> QED
      BY <2>1, <2>2
<1> QED
    BY <1>1, <1>2 DEF TypeOK, Bounded, Harms

\* A task in progress can be left for the next cookie.
LEMMA NextTask ==
  ASSUME NEW w \in Workers, work[w] \in Choosing \cup Trying \cup Saving \cup Marking, NEW p \in Pairs
  PROVE  /\ [at |-> "next", todo |-> work[w].todo] \in Tasks
         /\ Fits([at |-> "next", todo |-> work[w].todo], p)
BY DEF Choosing, Trying, Saving, Marking, Tasks, Fits

\* A worker that is neither idle nor between two cookies works on one.
LEMMA Busy ==
  ASSUME TypeOK, NEW w \in Workers, work[w].at \notin {"idle", "next"}
  PROVE  /\ work[w] \in Trying \cup Saving \cup Marking
         /\ work[w].at \in {"find", "ask", "post"} => work[w] \in Trying
         /\ work[w].at \in {"saveSess", "saveToken"} => work[w] \in Saving
         /\ work[w].at \in {"mark", "markToken"} => work[w] \in Marking
BY DEF TypeOK, Tasks, Idle, Choosing, Trying, Saving, Marking

\* MarkRefreshed writes the flag alone.
LEMMA MarkKeeps ==
  ASSUME row \in [Names -> [value : Pairs, need : BOOLEAN]], NEW n \in Names, MarkRefreshed(n)
  PROVE  /\ row' \in [Names -> [value : Pairs, need : BOOLEAN]]
         /\ \A m \in Names : row'[m].value = row[m].value
<1>1. CASE row' = row
      BY <1>1
<1>2. CASE row' = [row EXCEPT ![n].need = FALSE]
      BY <1>2
<1> QED
    BY <1>1, <1>2 DEF MarkRefreshed

\* Types are kept, with the bounds of the values they need.
LEMMA NextTypeOK == TypeOK /\ Bounded /\ [Next]_vars => TypeOK' /\ Bounded'
<1> SUFFICES ASSUME TypeOK, Bounded, [Next]_vars
             PROVE  TypeOK' /\ Bounded'
    OBVIOUS
<1> USE CookieAssumption
<1>a. /\ row \in [Names -> [value : Pairs, need : BOOLEAN]]
      /\ pair \in Pairs /\ pair <= pair /\ harm \in Harms
      /\ \A n \in Names : row[n].value <= pair
      BY DEF TypeOK, Bounded, Pairs, Harms
<1>1. CASE UNCHANGED vars
      BY <1>1 DEF vars, TypeOK, Bounded
<1>2. ASSUME NEW w \in Workers, RefreshAll(w) PROVE TypeOK' /\ Bounded'
  <2>1. [at |-> "next", todo |-> {n \in Names : row[n].need}] \in Tasks
        BY DEF Tasks, Choosing
  <2>2. Fits([at |-> "next", todo |-> {n \in Names : row[n].need}], pair)
        BY DEF Fits
  <2> QED
      BY <1>a, <1>2, <2>1, <2>2, WorkStep DEF RefreshAll, Become
<1>3. ASSUME NEW w \in Workers, RefreshOne(w) PROVE TypeOK' /\ Bounded'
  <2>1. PICK n \in Names : Become(w, [at |-> "next", todo |-> {n}])
        BY <1>3 DEF RefreshOne
  <2>2. [at |-> "next", todo |-> {n}] \in Tasks
        BY DEF Tasks, Choosing
  <2>3. Fits([at |-> "next", todo |-> {n}], pair)
        BY DEF Fits
  <2> QED
      BY <1>a, <1>3, <2>1, <2>2, <2>3, WorkStep DEF RefreshOne, Become
<1>4. ASSUME NEW w \in Workers, RoundDone(w) PROVE TypeOK' /\ Bounded'
  <2>1. Idle \in Tasks /\ Fits(Idle, pair)
        BY DEF Tasks, Idle, Fits
  <2> QED
      BY <1>a, <1>4, <2>1, WorkStep DEF RoundDone, Become
<1>5. ASSUME NEW w \in Workers, RefreshByID(w) PROVE TypeOK' /\ Bounded'
  <2>1. work[w] \in Choosing
        BY <1>5 DEF RefreshByID, TypeOK, Tasks, Trying, Saving, Marking, Idle
  <2>2. PICK n \in work[w].todo :
            \/ Become(w, Found(w, n))
            \/ Become(w, [at |-> "next", todo |-> work[w].todo \ {n}])
        BY <1>5 DEF RefreshByID
  <2>3. Found(w, n) \in Tasks
        BY <1>a, <2>1 DEF Found, Tasks, Trying, Choosing
  <2>4. Fits(Found(w, n), pair)
        BY <1>a, <2>1 DEF Found, Fits, Choosing, Pairs
  <2>5. [at |-> "next", todo |-> work[w].todo \ {n}] \in Tasks
        BY <2>1 DEF Tasks, Choosing
  <2>6. Fits([at |-> "next", todo |-> work[w].todo \ {n}], pair)
        BY DEF Fits
  <2>7. UNCHANGED <<row, pair, harm>>
        BY <1>5 DEF RefreshByID
  <2>8. CASE Become(w, Found(w, n))
        BY <1>a, <2>3, <2>4, <2>7, <2>8, WorkStep DEF Become
  <2>9. CASE Become(w, [at |-> "next", todo |-> work[w].todo \ {n}])
        BY <1>a, <2>5, <2>6, <2>7, <2>9, WorkStep DEF Become
  <2> QED
      BY <2>2, <2>8, <2>9
<1>6. ASSUME NEW w \in Workers, FindToken(w) PROVE TypeOK' /\ Bounded'
  <2> DEFINE A == [work[w] EXCEPT !.at = "ask", !.token = row["RefreshToken"].value]
  <2>1. work[w] \in Trying /\ Fits(work[w], pair)
        BY <1>6, Busy DEF FindToken, Bounded
  <2>2. UNCHANGED <<row, pair, harm>>
        BY <1>6 DEF FindToken
  <2>3. A \in Tasks /\ Fits(A, pair)
    <3>1. /\ row["RefreshToken"].value \in Pairs /\ row["RefreshToken"].value <= pair
          /\ row["RefreshToken"].value # None
          BY <1>a DEF Names, Pairs
    <3>2. A \in Trying /\ A.at = "ask" /\ A.token = row["RefreshToken"].value
          BY <2>1, <3>1 DEF Trying
    <3> QED
        BY <3>1, <3>2 DEF Fits, Tasks
  <2>4. CASE Become(w, A)
        BY <1>a, <2>2, <2>3, <2>4, WorkStep DEF Become
  <2>5. CASE NextCookie(w)
        BY <1>a, <2>1, <2>2, <2>5, NextTask, WorkStep DEF Become, NextCookie
  <2> QED
      BY <1>6, <2>4, <2>5 DEF FindToken
<1>7. ASSUME NEW w \in Workers, ShouldRefresh(w) PROVE TypeOK' /\ Bounded'
  <2> DEFINE A == [work[w] EXCEPT !.at = "post"]
  <2>1. work[w] \in Trying /\ Fits(work[w], pair)
        BY <1>7, Busy DEF ShouldRefresh, Bounded
  <2>2. UNCHANGED <<row, pair, harm>>
        BY <1>7 DEF ShouldRefresh
  <2>3. A \in Tasks /\ Fits(A, pair)
        BY <1>7, <2>1 DEF ShouldRefresh, Fits, Tasks, Trying
  <2>4. CASE GoTo(w, "post")
        BY <1>a, <2>2, <2>3, <2>4, WorkStep DEF GoTo
  <2>5. ASSUME NEW due \in BOOLEAN, ToMark(w, None, due) PROVE TypeOK' /\ Bounded'
    <3> DEFINE B == [at |-> "mark", todo |-> work[w].todo, id |-> work[w].id,
                     got |-> None, due |-> due]
    <3>1. B \in Tasks /\ Fits(B, pair)
          BY <2>1 DEF Fits, Tasks, Trying, Marking
    <3> QED
        BY <1>a, <2>2, <2>5, <3>1, WorkStep DEF ToMark, Become
  <2>6. CASE NextCookie(w)
        BY <1>a, <2>1, <2>2, <2>6, NextTask, WorkStep DEF Become, NextCookie
  <2> QED
      BY <1>7, <2>4, <2>5, <2>6 DEF ShouldRefresh
<1>8. ASSUME NEW w \in Workers, Refresh(w) PROVE TypeOK' /\ Bounded'
  <2>1. work[w] \in Trying /\ work[w].at = "post" /\ Fits(work[w], pair) /\ UNCHANGED row
        BY <1>8, Busy DEF Refresh, Bounded
  <2>2. CASE Refused(w)
    <3> DEFINE A == [at |-> "saveToken", todo |-> work[w].todo, id |-> work[w].id,
                     tried |-> work[w].token, got |-> None,
                     newSess |-> None, newToken |-> work[w].token]
    <3>1. A \in Tasks /\ Fits(A, pair)
          BY <2>1 DEF Fits, Tasks, Trying, Saving
    <3>2. CASE NextCookie(w)
          BY <1>a, <2>1, <2>2, <3>2, NextTask, WorkStep DEF Become, NextCookie, Refused
    <3>3. CASE Success(w, None, None, work[w].token)
          BY <1>a, <2>1, <2>2, <3>1, <3>3, WorkStep DEF Become, Success, Refused
    <3> QED
        BY <2>2, <3>2, <3>3 DEF Refused
  <2>3. CASE Accepted(w)
    <3>1. /\ pair' = pair + 1 /\ pair < MaxPairs /\ work[w].token = pair
          /\ pair' \in Pairs /\ pair <= pair' /\ pair' # None
          BY <1>a, <2>3 DEF Accepted, Pairs
    <3>2. ASSUME NEW n \in Names PROVE row'[n].value <= pair'
      <4>1. row[n].value \in 0..MaxPairs /\ row[n].value <= pair /\ pair \in 0..MaxPairs
            BY <1>a DEF Pairs
      <4> QED
          BY <4>1, <3>1, <2>1
    <3>3. harm' \in Harms
          BY <1>a, <2>3, HarmedIs DEF Accepted
    <3>4. CASE NextCookie(w)
          BY <1>a, <2>1, <3>1, <3>2, <3>3, <3>4, NextTask, WorkStep DEF Become, NextCookie
    <3>5. ASSUME NEW sess \in {pair', None}, NEW token \in {pair', work[w].token},
                 Success(w, pair', sess, token)
          PROVE  TypeOK' /\ Bounded'
      <4> DEFINE A == [at |-> IF sess = None THEN "saveToken" ELSE "saveSess",
                       todo |-> work[w].todo, id |-> work[w].id, tried |-> work[w].token,
                       got |-> pair', newSess |-> sess, newToken |-> token]
      <4>1. A \in Saving
            BY <1>a, <2>1, <3>1 DEF Trying, Saving
      <4>2. Fits(A, pair')
            BY <1>a, <3>1 DEF Fits, Pairs
      <4> QED
          BY <1>a, <2>1, <3>1, <3>2, <3>3, <3>5, <4>1, <4>2, WorkStep DEF Tasks, Become, Success
    <3> QED
        BY <2>3, <3>1, <3>4, <3>5 DEF Accepted
  <2> QED
      BY <1>8, <2>2, <2>3 DEF Refresh
<1>9. ASSUME NEW w \in Workers, SaveSess(w) PROVE TypeOK' /\ Bounded'
  <2> DEFINE A == [work[w] EXCEPT !.at = "saveToken"]
  <2>1. work[w] \in Saving /\ Fits(work[w], pair) /\ work[w].at = "saveSess"
        BY <1>9, Busy DEF SaveSess, Bounded
  <2>2. /\ row' = [row EXCEPT !["SESSDATA"].value = work[w].newSess]
        /\ UNCHANGED <<pair, harm>> /\ work' = [work EXCEPT ![w] = A]
        BY <1>9 DEF SaveSess, GoTo
  <2>3. work[w].newSess \in Pairs /\ work[w].newSess <= pair
        BY <2>1 DEF Fits, Saving
  <2>4. /\ row' \in [Names -> [value : Pairs, need : BOOLEAN]]
        /\ \A n \in Names : row'[n].value <= pair
        BY <1>a, <2>2, <2>3
  <2>5. A \in Tasks /\ Fits(A, pair)
        BY <2>1 DEF Fits, Tasks, Saving
  <2> QED
      BY <1>a, <2>2, <2>4, <2>5, WorkStep
<1>10. ASSUME NEW w \in Workers, SaveToken(w) PROVE TypeOK' /\ Bounded'
  <2> DEFINE A == [at |-> "mark", todo |-> work[w].todo, id |-> work[w].id,
                   got |-> work[w].got, due |-> TRUE]
  <2>1. work[w] \in Saving /\ Fits(work[w], pair) /\ work[w].at = "saveToken"
        BY <1>10, Busy DEF SaveToken, Bounded
  <2>2. /\ row' = [row EXCEPT !["RefreshToken"].value = work[w].newToken]
        /\ UNCHANGED pair /\ work' = [work EXCEPT ![w] = A]
        BY <1>10 DEF SaveToken, ToMark, Become
  <2>3. harm' \in Harms
        BY <1>a, <1>10, HarmedIs DEF SaveToken
  <2>4. work[w].newToken \in Pairs /\ work[w].newToken <= pair
        BY <2>1 DEF Fits, Saving
  <2>5. /\ row' \in [Names -> [value : Pairs, need : BOOLEAN]]
        /\ \A n \in Names : row'[n].value <= pair
        BY <1>a, <2>2, <2>4
  <2>6. A \in Tasks /\ Fits(A, pair)
        BY <2>1 DEF Fits, Tasks, Saving, Marking
  <2> QED
      BY <1>a, <2>2, <2>3, <2>5, <2>6, WorkStep
<1>11. ASSUME NEW w \in Workers, SaveFails(w) PROVE TypeOK' /\ Bounded'
  <2>1. work[w] \in Saving /\ harm' \in Harms
        BY <1>a, <1>11, Busy, HarmedIs DEF SaveFails, Unsaved
  <2> QED
      BY <1>a, <1>11, <2>1, NextTask, WorkStep DEF SaveFails, NextCookie, Become
<1>12. ASSUME NEW w \in Workers, MarkCookie(w) PROVE TypeOK' /\ Bounded'
  <2> DEFINE A == [work[w] EXCEPT !.at = "markToken"]
  <2>1. work[w] \in Marking /\ Fits(work[w], pair)
        BY <1>12, Busy DEF MarkCookie, Bounded
  <2>2. UNCHANGED <<pair, harm>> /\ MarkRefreshed(work[w].id)
        BY <1>12 DEF MarkCookie
  <2>3. /\ row' \in [Names -> [value : Pairs, need : BOOLEAN]]
        /\ \A n \in Names : row'[n].value <= pair
        BY <1>a, <2>1, <2>2, MarkKeeps DEF Marking
  <2>4. A \in Tasks /\ Fits(A, pair)
        BY <1>12, <2>1 DEF MarkCookie, Fits, Tasks, Marking
  <2>5. CASE GoTo(w, "markToken")
        BY <1>a, <2>2, <2>3, <2>4, <2>5, WorkStep DEF GoTo
  <2>6. CASE NextCookie(w)
        BY <1>a, <2>1, <2>2, <2>3, <2>6, NextTask, WorkStep DEF NextCookie, Become
  <2> QED
      BY <1>12, <2>5, <2>6 DEF MarkCookie
<1>13. ASSUME NEW w \in Workers, MarkToken(w) PROVE TypeOK' /\ Bounded'
  <2>1. work[w] \in Marking
        BY <1>13, Busy DEF MarkToken
  <2>2. UNCHANGED <<pair, harm>> /\ MarkRefreshed("RefreshToken") /\ NextCookie(w)
        BY <1>13 DEF MarkToken
  <2>3. /\ row' \in [Names -> [value : Pairs, need : BOOLEAN]]
        /\ \A n \in Names : row'[n].value <= pair
        BY <1>a, <2>2, MarkKeeps DEF Names
  <2> QED
      BY <1>a, <2>1, <2>2, <2>3, NextTask, WorkStep DEF NextCookie, Become
<1>14. ASSUME NEW n \in Names, Update(n) PROVE TypeOK' /\ Bounded'
  <2>1. harm' \in Harms
        BY <1>a, <1>14, HarmedIs DEF Update, Harms
  <2> QED
      BY <1>14, <2>1 DEF Update, TypeOK, Bounded, Pairs, Harms
<1>15. CASE Restart
  <2>1. harm' \in Harms
        BY <1>a, <1>15, HarmedIs DEF Restart
  <2> QED
      BY <1>15, <2>1 DEF Restart, TypeOK, Bounded, Tasks, Idle, Fits, Harms
<1> QED
    BY <1>1, <1>2, <1>3, <1>4, <1>5, <1>6, <1>7, <1>8, <1>9, <1>10, <1>11, <1>12, <1>13, <1>14, <1>15 DEF Next, Step

\* The first state has its types.
LEMMA InitTypeOK == Init => TypeOK /\ Bounded
BY CookieAssumption DEF Init, TypeOK, Bounded, Fits, Tasks, Idle, Names, Pairs

-----------------------------------------------------------------------------
(* One saver at a time.                                                    *)

\* While a pair is being saved its refresh token is nowhere but with its saver,
\* so nobody can have it exchanged, and nobody can write it back.
Alone(w) ==
  /\ work[w].got = pair /\ work[w].newToken = pair
  /\ \A v \in Carrying(Workers) : v = w
  /\ row["RefreshToken"].value # pair
  /\ work[w].at = "saveSess" => work[w].newSess = pair
  /\ work[w].at = "saveToken" => row["SESSDATA"].value = pair
  /\ \A v \in Workers : work[v].at \in {"ask", "post"} => work[v].token # pair
  /\ \A v \in Workers \ {w} : work[v].at = "saveToken" => work[v].tried # pair

Saver == "mixed" \notin harm => \A w \in Carrying(Workers) : Alone(w)
SessKept == harm \subseteq {"reverted"} /\ Carrying(Workers) = {} => row["SESSDATA"].value = pair
TokenKept == harm = {} /\ Carrying(Workers) = {} => row["RefreshToken"].value = pair
SaveInv == Saver /\ SessKept /\ TokenKept /\ SuccessIsSaved

\* Steps that neither touch a value nor bring a worker a new pair to save or to
\* mark.
Aside(w) ==
  /\ work'[w].at \in {"idle", "next", "find", "ask", "post", "saveToken", "mark", "markToken"}
  /\ work'[w].at \in {"mark", "markToken"} =>
       work'[w].got = None \/ (work[w].at = "mark" /\ work'[w].got = work[w].got)
  /\ work'[w].at \in {"ask", "post"} =>
       \/ work'[w].token = row["RefreshToken"].value
       \/ work[w].at \in {"ask", "post"} /\ work'[w].token = work[w].token
  /\ work'[w].at = "saveToken" =>
       work'[w].got = None /\ work[w].at \in {"ask", "post"} /\ work'[w].tried = work[w].token
  /\ work[w].at \in {"saveSess", "saveToken"} => work[w].got = None
Calm ==
  /\ UNCHANGED <<pair, harm>>
  /\ \A n \in Names : row'[n].value = row[n].value
  /\ \A w \in Workers : UNCHANGED work[w] \/ Aside(w)
\* Such a step keeps the invariant.
LEMMA CalmKeeps == ASSUME SaveInv, Calm PROVE SaveInv'
<1>1. Carrying(Workers)' = Carrying(Workers)
      BY DEF Calm, Aside, Carrying
<1>2. ASSUME NEW w \in Carrying(Workers), Alone(w) PROVE Alone(w)'
  <2>1. UNCHANGED work[w] /\ w \in Workers
        BY <1>2 DEF Calm, Aside, Carrying
  <2> QED
      BY <1>1, <1>2, <2>1 DEF Alone, Calm, Aside, Names
<1>3. Saver'
      BY <1>1, <1>2 DEF Saver, SaveInv, Calm
<1>4. SessKept' /\ TokenKept'
      BY <1>1 DEF SessKept, TokenKept, SaveInv, Calm, Names
<1>5. SuccessIsSaved'
  <2> SUFFICES ASSUME harm \subseteq {"lost"}, NEW w \in Workers,
                      work'[w].at \in {"mark", "markToken"}, work'[w].got # None, NEW n \in Names
               PROVE  row'[n].value >= work'[w].got
      BY DEF SuccessIsSaved, Calm
  <2>1. work[w].at \in {"mark", "markToken"} /\ work'[w].got = work[w].got
        BY DEF Calm, Aside
  <2> QED
      BY <2>1 DEF SaveInv, SuccessIsSaved, Calm
<1> QED
    BY <1>3, <1>4, <1>5 DEF SaveInv

\* A new pair is issued to a worker while none is being saved.
LEMMA AcceptedKeeps ==
  ASSUME TypeOK, Bounded, SaveInv, NEW w \in Workers, Accepted(w), work[w].at = "post", UNCHANGED row
  PROVE  SaveInv'
<1> USE CookieAssumption
<1>1. /\ pair \in Nat /\ pair' = pair + 1 /\ pair' # pair /\ pair' # None
      /\ work[w].token = pair /\ work[w] \in Trying
      /\ \A n \in Names : row[n].value \in Nat /\ row[n].value <= pair
      BY Busy DEF Accepted, TypeOK, Bounded, Pairs
<1>2. \A v \in Workers : v # w => UNCHANGED work[v]
      BY DEF Accepted, NextCookie, Success, Become, TypeOK
<1>3. "mixed" \notin harm => Carrying(Workers) = {}
      BY DEF SaveInv, Saver, Alone, Accepted
<1>4. \/ work'[w].at = "next" /\ harm' = Harmed("lost")
      \/ /\ work'[w].at \in {"saveSess", "saveToken"}
         /\ \/ harm' = Harmed("mixed")
            \/ /\ work'[w].at = "saveSess" /\ work'[w].got = pair' /\ UNCHANGED harm
               /\ work'[w].newSess = pair' /\ work'[w].newToken = pair'
  <2>1. CASE NextCookie(w) /\ harm' = Harmed("lost")
        BY <2>1 DEF NextCookie, Become, TypeOK
  <2>2. ASSUME NEW sess \in {pair', None}, NEW token, Success(w, pair', sess, token),
               harm' = IF sess = pair' /\ token = pair' THEN harm ELSE Harmed("mixed")
        PROVE  /\ work'[w].at \in {"saveSess", "saveToken"}
               /\ \/ harm' = Harmed("mixed")
                  \/ /\ work'[w].at = "saveSess" /\ work'[w].got = pair' /\ UNCHANGED harm
                     /\ work'[w].newSess = pair' /\ work'[w].newToken = pair'
        BY <1>1, <2>2 DEF Success, Become, TypeOK
  <2> QED
      BY <1>1, <2>1, <2>2 DEF Accepted
<1>5. ASSUME NEW v \in Workers PROVE /\ work[v].at \in {"ask", "post"} => work[v].token # pair'
                                     /\ work[v].at = "saveToken" => work[v].tried # pair'
  <2>1. Fits(work[v], pair) /\ (work[v].at \in {"ask", "post"} => work[v] \in Trying)
        /\ (work[v].at = "saveToken" => work[v] \in Saving)
        BY Busy DEF Bounded
  <2> QED
      BY <1>1, <2>1 DEF Fits, Trying, Saving, Pairs
<1>6. Saver'
  <2> SUFFICES ASSUME "mixed" \notin harm', NEW v \in Workers,
                      work'[v].at \in {"saveSess", "saveToken"}, work'[v].got # None
               PROVE  Alone(v)'
      BY DEF Saver, Carrying
  <2>1. "mixed" \notin harm /\ Carrying(Workers) = {}
        BY <1>3, <1>4 DEF Harmed
  <2>2. v = w
        BY <1>2, <2>1 DEF Carrying
  <2>3. \A u \in Carrying(Workers)' : u = w
        BY <1>2, <2>1 DEF Carrying
  <2>4. /\ work'[w].at = "saveSess" /\ work'[w].got = pair'
        /\ work'[w].newSess = pair' /\ work'[w].newToken = pair'
        BY <1>4, <2>1, <2>2 DEF Harmed
  <2>5. row'["RefreshToken"].value # pair'
        BY <1>1 DEF Names
  <2> QED
      BY <1>2, <1>5, <2>2, <2>3, <2>4, <2>5 DEF Alone
<1>7. SessKept' /\ TokenKept'
  <2>1. CASE harm' \in {Harmed("lost"), Harmed("mixed")}
        BY <2>1 DEF SessKept, TokenKept, Harmed
  <2>2. CASE work'[w].at = "saveSess" /\ work'[w].got = pair'
    <3>1. Carrying(Workers)' # {}
          BY <1>1, <2>2 DEF Carrying
    <3> QED
        BY <3>1 DEF SessKept, TokenKept
  <2> QED
      BY <1>4, <2>1, <2>2
<1>8. SuccessIsSaved'
  <2> SUFFICES ASSUME harm' \subseteq {"lost"}, NEW v \in Workers,
                      work'[v].at \in {"mark", "markToken"}, work'[v].got # None, NEW n \in Names
               PROVE  row'[n].value >= work'[v].got
      BY DEF SuccessIsSaved
  <2>1. harm \subseteq {"lost"}
        BY <1>4 DEF Harmed
  <2>2. v # w
        BY <1>4
  <2> QED
      BY <1>2, <2>1, <2>2 DEF SaveInv, SuccessIsSaved
<1> QED
    BY <1>6, <1>7, <1>8 DEF SaveInv

\* A worker with a new pair: the only one, unless values are mixed.
LEMMA TheSaver ==
  ASSUME SaveInv, NEW w \in Workers, work[w].at \in {"saveSess", "saveToken"}, work[w].got # None,
         "mixed" \notin harm
  PROVE  Alone(w) /\ Carrying(Workers) = {w}
BY DEF SaveInv, Saver, Alone, Carrying

\* What a worker holds to be marked is not newer than bilibili's pair.
LEMMA MarkedBound ==
  ASSUME TypeOK, Bounded, NEW w \in Workers, work[w].at \in {"mark", "markToken"}, work[w].got # None
  PROVE  work[w].got \in Nat /\ pair >= work[w].got
<1>1. work[w] \in Marking /\ Fits(work[w], pair) /\ pair \in Nat
      BY Busy DEF Bounded, TypeOK, Pairs
<1> QED
    BY <1>1 DEF Fits, Marking, Pairs

\* The first save.
LEMMA SaveSessKeeps ==
  ASSUME TypeOK, Bounded, SaveInv, NEW w \in Workers, SaveSess(w)
  PROVE  SaveInv'
<1>1. CASE "mixed" \in harm
      BY <1>1 DEF SaveSess, SaveInv, Saver, SessKept, TokenKept, SuccessIsSaved
<1>2. CASE "mixed" \notin harm
  <2>1. /\ work[w].at = "saveSess" /\ work[w] \in Saving /\ work[w].got # None
        /\ UNCHANGED <<pair, harm>>
        BY Busy DEF SaveSess, Bounded, Fits
  <2>2. Alone(w) /\ Carrying(Workers) = {w}
        BY <1>2, <2>1, TheSaver
  <2>3. /\ \A v \in Workers : v # w => UNCHANGED work[v]
        /\ work'[w].at = "saveToken" /\ work'[w].got = pair /\ work'[w].newToken = pair
        BY <2>1, <2>2 DEF SaveSess, GoTo, TypeOK, Saving, Alone
  <2>4. Carrying(Workers)' = {w}
        BY <2>1, <2>2, <2>3 DEF Carrying, Alone
  <2>5. row'["SESSDATA"].value = pair /\ UNCHANGED row["RefreshToken"]
        BY <2>2, <2>1 DEF SaveSess, TypeOK, Names, Alone
  <2>6. Alone(w)'
        BY <2>1, <2>2, <2>3, <2>4, <2>5 DEF Alone
  <2>7. SuccessIsSaved'
    <3> SUFFICES ASSUME harm \subseteq {"lost"}, NEW v \in Workers,
                        work'[v].at \in {"mark", "markToken"}, work'[v].got # None, NEW n \in Names
                 PROVE  row'[n].value >= work'[v].got
        BY <2>1 DEF SuccessIsSaved
    <3>1. UNCHANGED work[v] /\ pair >= work[v].got
          BY <2>3, MarkedBound
    <3> QED
        BY <2>5, <3>1 DEF SaveInv, SuccessIsSaved, Names
  <2> QED
      BY <2>4, <2>6, <2>7 DEF SaveInv, Saver, SessKept, TokenKept
<1> QED
    BY <1>1, <1>2

\* The second save: of a new pair, or of the token that was refused.
LEMMA SaveTokenKeeps ==
  ASSUME TypeOK, Bounded, SaveInv, NEW w \in Workers, SaveToken(w)
  PROVE  SaveInv'
<1>1. /\ work[w].at = "saveToken" /\ work[w] \in Saving /\ Fits(work[w], pair) /\ UNCHANGED pair
      /\ row'["RefreshToken"].value = work[w].newToken /\ UNCHANGED row["SESSDATA"]
      /\ \A v \in Workers : v # w => UNCHANGED work[v]
      /\ work'[w].at = "mark" /\ work'[w].got = work[w].got
      BY Busy DEF SaveToken, ToMark, Become, Bounded, TypeOK, Names
<1>2. CASE "mixed" \in harm
      BY <1>2 DEF SaveToken, Harmed, SaveInv, Saver, SessKept, TokenKept, SuccessIsSaved
<1>3. CASE "mixed" \notin harm /\ work[w].got # None
  <2>1. Alone(w) /\ Carrying(Workers) = {w}
        BY <1>1, <1>3, TheSaver
  <2>2. Carrying(Workers)' = {}
        BY <1>1, <2>1 DEF Carrying
  <2>3. \A n \in Names : row'[n].value = pair
        BY <1>1, <2>1 DEF Alone, Names
  <2>4. ASSUME NEW v \in Workers, work'[v].at \in {"mark", "markToken"}, work'[v].got # None
        PROVE  pair >= work'[v].got
    <3>1. CASE v = w
          BY <1>1, <1>3, <2>1, <3>1 DEF Alone, TypeOK, Pairs
    <3>2. CASE v # w
          BY <1>1, <2>4, <3>2, MarkedBound
    <3> QED
        BY <3>1, <3>2
  <2> QED
      BY <1>1, <2>2, <2>3, <2>4 DEF SaveInv, Saver, SessKept, TokenKept, SuccessIsSaved, Names
<1>4. CASE work[w].got = None /\ work[w].tried = row["RefreshToken"].value
  <2>1. UNCHANGED <<pair, harm>>
        BY <1>4 DEF SaveToken
  <2>2. \A n \in Names : row'[n].value = row[n].value
        BY <1>1, <1>4 DEF Fits, Names
  <2> QED
      BY <1>1, <1>4, <2>1, <2>2, CalmKeeps DEF Calm, Aside
<1>5. CASE "mixed" \notin harm /\ work[w].got = None /\ work[w].tried # row["RefreshToken"].value
  <2>1. harm' = harm \cup {"reverted"} /\ work[w].newToken = work[w].tried
        BY <1>1, <1>5 DEF SaveToken, Fits, Harmed
  <2>2. Carrying(Workers)' = Carrying(Workers) /\ w \notin Carrying(Workers)
        BY <1>1, <1>5 DEF Carrying
  <2>3. ASSUME NEW v \in Carrying(Workers) PROVE Alone(v)'
    <3>1. Alone(v) /\ v # w /\ v \in Workers
          BY <1>5, <2>2 DEF SaveInv, Saver, Carrying
    <3>2. row'["RefreshToken"].value # pair
          BY <1>1, <2>1, <3>1 DEF Alone
    <3> QED
        BY <1>1, <2>2, <3>1, <3>2 DEF Alone
  <2> QED
      BY <1>1, <1>5, <2>1, <2>2, <2>3 DEF SaveInv, Saver, SessKept, TokenKept, SuccessIsSaved
<1> QED
    BY <1>2, <1>3, <1>4, <1>5

\* A save that fails, of a new pair or of the token that was refused.
LEMMA SaveFailsKeeps ==
  ASSUME TypeOK, Bounded, SaveInv, NEW w \in Workers, SaveFails(w)
  PROVE  SaveInv'
<1>1. /\ work[w].at \in {"saveSess", "saveToken"} /\ UNCHANGED <<row, pair>>
      /\ \A v \in Workers : v # w => UNCHANGED work[v]
      /\ work'[w].at = "next" /\ harm' = Unsaved(w)
      BY DEF SaveFails, NextCookie, Become, TypeOK
<1>2. CASE work[w].got = None
  <2>1. UNCHANGED harm
        BY <1>1, <1>2 DEF Unsaved
  <2> QED
      BY <1>1, <1>2, <2>1, CalmKeeps DEF Calm, Aside
<1>3. CASE work[w].got # None
  <2>1. harm' = Harmed("lost")
        BY <1>1, <1>3 DEF Unsaved
  <2>2. "mixed" \notin harm' => Carrying(Workers)' = {}
        BY <1>1, <1>3, <2>1, TheSaver DEF Carrying, Harmed
  <2> QED
      BY <1>1, <2>1, <2>2 DEF SaveInv, Saver, SessKept, TokenKept, SuccessIsSaved, Harmed
<1> QED
    BY <1>2, <1>3

\* An edit.
LEMMA UpdateKeeps ==
  ASSUME TypeOK, Bounded, SaveInv, NEW n \in Names, Update(n)
  PROVE  SaveInv'
<1>1. UNCHANGED <<pair, work>> /\ Carrying(Workers)' = Carrying(Workers)
      BY DEF Update, Carrying
<1>2. PICK value \in 0..pair, need \in BOOLEAN :
        /\ row' = [row EXCEPT ![n] = [value |-> value, need |-> need]]
        /\ harm' = IF value # pair \/ Carrying(Workers) # {} THEN Harmed("mixed")
                   ELSE IF \A o \in Names \ {n} : row[o].value = pair THEN {}
                   ELSE harm
      BY DEF Update
<1>3. CASE value # pair \/ Carrying(Workers) # {}
      BY <1>2, <1>3 DEF Harmed, SaveInv, Saver, SessKept, TokenKept, SuccessIsSaved
<1>4. CASE value = pair /\ Carrying(Workers) = {}
  <2>1. row'[n].value = pair /\ \A o \in Names \ {n} : row'[o] = row[o]
        BY <1>2, <1>4 DEF TypeOK
  <2>2. harm' = harm \/ \A o \in Names : row'[o].value = pair
        BY <1>2, <1>4, <2>1
  <2>3. SessKept' /\ TokenKept'
        BY <1>1, <1>4, <2>1, <2>2 DEF SaveInv, SessKept, TokenKept, Names
  <2>4. SuccessIsSaved'
    <3> SUFFICES ASSUME harm' \subseteq {"lost"}, NEW v \in Workers,
                        work[v].at \in {"mark", "markToken"}, work[v].got # None, NEW o \in Names
                 PROVE  row'[o].value >= work[v].got
        BY <1>1 DEF SuccessIsSaved
    <3>1. pair >= work[v].got
          BY MarkedBound
    <3>2. CASE row'[o].value = pair
          BY <3>1, <3>2
    <3>3. CASE row'[o].value # pair
          BY <2>1, <2>2, <3>3 DEF SaveInv, SuccessIsSaved
    <3> QED
        BY <3>2, <3>3
  <2> QED
      BY <1>1, <1>4, <2>3, <2>4 DEF SaveInv, Saver
<1> QED
    BY <1>3, <1>4

\* The process dies.
LEMMA RestartKeeps == ASSUME SaveInv, Restart PROVE SaveInv'
<1>1. UNCHANGED <<row, pair>> /\ \A w \in Workers : work'[w] = Idle
      BY DEF Restart
<1>2. Carrying(Workers)' = {}
      BY <1>1 DEF Carrying, Idle
<1>3. SuccessIsSaved' /\ Saver'
      BY <1>1, <1>2 DEF SuccessIsSaved, Saver, Idle
<1>4. SessKept' /\ TokenKept'
      BY <1>1, <1>2 DEF Restart, Harmed, SessKept, TokenKept, SaveInv
<1> QED
    BY <1>3, <1>4 DEF SaveInv

\* Only the pair in both rows can be exchanged, and both rows hold it only when
\* its saver is done.
LEMMA NextSaveInv == TypeOK /\ Bounded /\ SaveInv /\ [Next]_vars => SaveInv'
<1> SUFFICES ASSUME TypeOK, Bounded, SaveInv, [Next]_vars
             PROVE  SaveInv'
    OBVIOUS
<1>1. CASE UNCHANGED vars
      BY <1>1, CalmKeeps DEF vars, Calm
<1>2. ASSUME NEW w \in Workers, NEW t, Become(w, t) \/ work' = [work EXCEPT ![w] = t],
             UNCHANGED <<pair, harm>>, \A n \in Names : row'[n].value = row[n].value,
             work[w].at \notin {"saveSess", "saveToken"},
             \/ t.at \in {"idle", "next", "find"}
             \/ t.at \in {"mark", "markToken"} /\ (t.got = None \/ (work[w].at = "mark" /\ t.got = work[w].got))
             \/ /\ t.at \in {"ask", "post"}
                /\ \/ t.token = row["RefreshToken"].value
                   \/ work[w].at \in {"ask", "post"} /\ t.token = work[w].token
             \/ t.at = "saveToken" /\ t.got = None /\ work[w].at \in {"ask", "post"} /\ t.tried = work[w].token
      PROVE  SaveInv'
  <2>1. work'[w] = t /\ \A v \in Workers : v # w => UNCHANGED work[v]
        BY <1>2 DEF Become, TypeOK
  <2>2. /\ t.at \in {"idle", "next", "find", "ask", "post", "saveToken", "mark", "markToken"}
        /\ t.at \in {"mark", "markToken"} =>
             t.got = None \/ (work[w].at = "mark" /\ t.got = work[w].got)
        /\ t.at \in {"ask", "post"} =>
             \/ t.token = row["RefreshToken"].value
             \/ work[w].at \in {"ask", "post"} /\ t.token = work[w].token
        /\ t.at = "saveToken" =>
             t.got = None /\ work[w].at \in {"ask", "post"} /\ t.tried = work[w].token
      BY <1>2
  <2>3. Aside(w)
        BY <1>2, <2>1, <2>2 DEF Aside
  <2>4. Calm
        BY <1>2, <2>1, <2>3 DEF Calm
  <2> QED
      BY <2>4, CalmKeeps
<1>3. ASSUME NEW w \in Workers, RefreshAll(w) \/ RefreshOne(w) \/ RoundDone(w) PROVE SaveInv'
  <2>1. UNCHANGED <<row, pair, harm>> /\ work[w].at \in {"idle", "next"}
        BY <1>3 DEF RefreshAll, RefreshOne, RoundDone, Idle
  <2>2. ASSUME NEW todo, Become(w, [at |-> "next", todo |-> todo]) PROVE SaveInv'
        BY <1>2, <2>1, <2>2
  <2>3. CASE Become(w, Idle)
        BY <1>2, <2>1, <2>3 DEF Idle
  <2> QED
      BY <1>3, <2>2, <2>3 DEF RefreshAll, RefreshOne, RoundDone
<1>4. ASSUME NEW w \in Workers, NextCookie(w), UNCHANGED <<pair, harm>>,
             \A n \in Names : row'[n].value = row[n].value,
             work[w].at \notin {"saveSess", "saveToken"}
      PROVE  SaveInv'
      BY <1>2, <1>4 DEF NextCookie
<1>5. ASSUME NEW w \in Workers, RefreshByID(w) PROVE SaveInv'
  <2>1. PICK n \in work[w].todo :
            \/ Become(w, Found(w, n))
            \/ Become(w, [at |-> "next", todo |-> work[w].todo \ {n}])
        BY <1>5 DEF RefreshByID
  <2>2. UNCHANGED <<row, pair, harm>> /\ work[w].at = "next"
        BY <1>5 DEF RefreshByID
  <2>3. Found(w, n).at = "find" \/ (Found(w, n).at = "ask" /\ Found(w, n).token = row["RefreshToken"].value)
        BY DEF Found
  <2> QED
      BY <1>2, <2>1, <2>2, <2>3
<1>6. ASSUME NEW w \in Workers, FindToken(w) PROVE SaveInv'
  <2> DEFINE t == [work[w] EXCEPT !.at = "ask", !.token = row["RefreshToken"].value]
  <2>1. UNCHANGED <<row, pair, harm>> /\ work[w].at = "find" /\ (Become(w, t) \/ NextCookie(w))
        BY <1>6 DEF FindToken
  <2>2. t.at = "ask" /\ t.token = row["RefreshToken"].value
        BY <2>1, Busy DEF Trying
  <2> HIDE DEF t
  <2> QED
      BY <1>2, <1>4, <2>1, <2>2
<1>7. ASSUME NEW w \in Workers, ShouldRefresh(w) PROVE SaveInv'
  <2> DEFINE t == [work[w] EXCEPT !.at = "post"]
  <2>1. UNCHANGED <<row, pair, harm>> /\ work[w].at = "ask"
        BY <1>7 DEF ShouldRefresh
  <2>2. PICK due \in BOOLEAN : work' = [work EXCEPT ![w] = t] \/ ToMark(w, None, due) \/ NextCookie(w)
        BY <1>7 DEF ShouldRefresh, GoTo
  <2>3. t.at = "post" /\ t.token = work[w].token
        BY <2>1, Busy DEF Trying
  <2>4. CASE ToMark(w, None, due)
        BY <1>2, <2>1, <2>4 DEF ToMark
  <2> HIDE DEF t
  <2> QED
      BY <1>2, <1>4, <2>1, <2>2, <2>3, <2>4
<1>8. ASSUME NEW w \in Workers, Refresh(w) PROVE SaveInv'
  <2>1. work[w].at = "post" /\ UNCHANGED row /\ (Accepted(w) \/ Refused(w))
        BY <1>8 DEF Refresh
  <2>2. CASE Refused(w) /\ Success(w, None, None, work[w].token)
    <3> DEFINE t == [at |-> "saveToken", todo |-> work[w].todo, id |-> work[w].id,
                     tried |-> work[w].token, got |-> None,
                     newSess |-> None, newToken |-> work[w].token]
    <3>1. Become(w, t) /\ t.at = "saveToken" /\ t.got = None /\ t.tried = work[w].token
          BY <2>2 DEF Success
    <3> HIDE DEF t
    <3> QED
        BY <1>2, <2>1, <2>2, <3>1 DEF Refused
  <2> QED
      BY <1>4, <2>1, <2>2, AcceptedKeeps DEF Refused
<1>9. ASSUME NEW w \in Workers, MarkCookie(w) \/ MarkToken(w) PROVE SaveInv'
  <2> DEFINE t == [work[w] EXCEPT !.at = "markToken"]
  <2>1. UNCHANGED <<pair, harm>> /\ work[w] \in Marking
        BY <1>9, Busy DEF MarkCookie, MarkToken
  <2>2. \A n \in Names : row'[n].value = row[n].value
        BY <1>9, <2>1, MarkKeeps DEF MarkCookie, MarkToken, Marking, TypeOK, Names
  <2>3. NextCookie(w) \/ (work[w].at = "mark" /\ work' = [work EXCEPT ![w] = t])
        BY <1>9 DEF MarkCookie, MarkToken, GoTo
  <2>4. t.at = "markToken" /\ t.got = work[w].got /\ work[w].at \notin {"saveSess", "saveToken"}
        BY <2>1 DEF Marking
  <2> HIDE DEF t
  <2> QED
      BY <1>2, <1>4, <2>1, <2>2, <2>3, <2>4
<1> QED
    BY <1>1, <1>3, <1>5, <1>6, <1>7, <1>8, <1>9, SaveSessKeeps, SaveTokenKeeps, SaveFailsKeeps,
       UpdateKeeps, RestartKeeps DEF Next, Step

\* The first state: both rows hold the first pair.
LEMMA InitSaveInv == Init => SaveInv
BY DEF Init, SaveInv, Saver, SessKept, TokenKept, SuccessIsSaved, Carrying, Idle, Names

\* The rows, the tasks and the pairs keep their types.
THEOREM TypeCorrect == Spec => []TypeOK
BY InitTypeOK, NextTypeOK, PTL DEF Spec

\* SaveInv holds throughout.
LEMMA Invariance == Spec => [](Bounded /\ TypeOK /\ SaveInv)
BY InitTypeOK, InitSaveInv, NextTypeOK, NextSaveInv, PTL DEF Spec

\* The rows hold the pair bilibili accepts, or one worker alone is saving it; a
\* refused token that is written back parts the token's row alone.
THEOREM RowsKeepUp == Spec => []PairKept
<1>1. ASSUME SaveInv, NEW n \in Names, harm \subseteq {"reverted"},
             Carrying(Workers) = {} => row[n].value = pair
      PROVE  Kept(n)
  <2>1. ASSUME NEW w \in Carrying(Workers)
        PROVE  Carrying(Workers) = {w} /\ work[w].got = pair
        BY <1>1, <2>1 DEF SaveInv, Saver, Alone
  <2> QED
      BY <1>1, <2>1 DEF Kept
<1>2. SaveInv => PairKept
      BY <1>1 DEF SaveInv, SessKept, TokenKept, PairKept, Names
<1> QED
    BY <1>2, Invariance, PTL

\* A refresh that got a new pair and is about to be reported as successful is in
\* both rows, unless its answer was cut, or an edit or an old token that was
\* written back undid it.
THEOREM ReportedIsSaved == Spec => []SuccessIsSaved
<1>1. SaveInv => SuccessIsSaved
      BY DEF SaveInv
<1> QED
    BY <1>1, Invariance, PTL

-----------------------------------------------------------------------------
\* The steps a round has before it at most: those of the cookie under way, and
\* nine for one that waits.
Stage(at) ==
  CASE at = "find" -> 8 [] at = "ask" -> 7 [] at = "post" -> 6 [] at = "saveSess" -> 5
    [] at = "saveToken" -> 4 [] at = "mark" -> 3 [] at = "markToken" -> 2 [] OTHER -> 1
Waits(n, todo) == IF n \in todo THEN 9 ELSE 0
Ahead(todo) == Waits("SESSDATA", todo) + Waits("RefreshToken", todo)
Left(t) == IF t.at = "idle" THEN 0 ELSE Stage(t.at) + Ahead(t.todo)
\* A step brings its round nearer to the end, and no other one.
RoundsAdvance ==
  \A w \in Workers : Step(w) => /\ Left(work'[w]) < Left(work[w])
                                /\ \A v \in Workers \ {w} : UNCHANGED work[v]

\* A cookie taken up no longer waits.
LEMMA TakenUp ==
  ASSUME NEW todo \in SUBSET Names, NEW n \in todo
  PROVE  Ahead(todo \ {n}) \in Nat /\ Ahead(todo) = Ahead(todo \ {n}) + 9
BY DEF Ahead, Waits, Names

\* The worker goes on with the same cookie, or to the next.
LEMMA GoesOn ==
  ASSUME TypeOK, NEW w \in Workers, work[w] \in Trying \cup Saving \cup Marking,
         NEW t, Become(w, t),
         t.at \in {"ask", "post", "saveSess", "saveToken", "mark", "markToken", "next"},
         Stage(t.at) < Stage(work[w].at), t.todo = work[w].todo
  PROVE  /\ Left(work'[w]) < Left(work[w])
         /\ \A v \in Workers \ {w} : UNCHANGED work[v]
<1>1. work' = [work EXCEPT ![w] = t] /\ work \in [Workers -> Tasks]
      BY DEF Become, TypeOK
<1>2. work'[w] = t /\ \A v \in Workers \ {w} : UNCHANGED work[v]
      BY <1>1
<1>3. Ahead(t.todo) \in Nat
      BY DEF Ahead, Waits
<1>4. Stage(t.at) \in Nat /\ Stage(work[w].at) \in Nat
      BY DEF Stage
<1>5. Left(t) = Stage(t.at) + Ahead(t.todo) /\ Left(work[w]) = Stage(work[w].at) + Ahead(t.todo)
      BY DEF Left, Trying, Saving, Marking
<1> QED
      BY <1>2, <1>3, <1>4, <1>5

\* Every step of a worker takes its round on.
LEMMA StepLowers == ASSUME TypeOK PROVE RoundsAdvance
<1> SUFFICES ASSUME NEW w \in Workers, Step(w)
             PROVE  /\ Left(work'[w]) < Left(work[w])
                    /\ \A v \in Workers \ {w} : UNCHANGED work[v]
    BY DEF RoundsAdvance
<1>1. work \in [Workers -> Tasks]
      BY DEF TypeOK
<1>2. CASE RoundDone(w)
  <2>1. work' = [work EXCEPT ![w] = Idle] /\ work[w].at = "next" /\ work[w].todo = {}
        BY <1>2 DEF RoundDone, Become
  <2>2. Left(Idle) = 0 /\ Left(work[w]) = 1
        BY <2>1 DEF Left, Idle, Stage, Ahead, Waits
  <2> QED
        BY <1>1, <2>1, <2>2
<1>3. CASE RefreshByID(w)
  <2>1. work[w] \in Choosing
        BY <1>1, <1>3 DEF RefreshByID, Tasks, Trying, Saving, Marking, Idle
  <2>2. PICK n \in work[w].todo :
            \/ Become(w, Found(w, n))
            \/ Become(w, [at |-> "next", todo |-> work[w].todo \ {n}])
        BY <1>3 DEF RefreshByID
  <2> DEFINE rest == work[w].todo \ {n}
  <2>3. Ahead(rest) \in Nat /\ Left(work[w]) = 10 + Ahead(rest)
    <3>1. work[w].todo \in SUBSET Names /\ Left(work[w]) = 1 + Ahead(work[w].todo)
          BY <2>1 DEF Choosing, Left, Stage
    <3> QED
          BY <3>1, TakenUp
  <2>4. PICK t : /\ work' = [work EXCEPT ![w] = t] /\ t.todo = rest
                 /\ t.at \in {"next", "find", "ask"}
    <3>1. /\ Found(w, n).todo = rest /\ Found(w, n).at \in {"find", "ask"}
          BY DEF Found
    <3> QED
          BY <2>2, <3>1 DEF Become
  <2>5. Left(t) <= 8 + Ahead(rest)
        BY <2>3, <2>4 DEF Left, Stage
  <2>6. Left(t) \in Nat
        BY <2>3, <2>4 DEF Left, Stage
  <2> HIDE DEF rest
  <2> QED
        BY <1>1, <2>3, <2>4, <2>5, <2>6
<1>4. ASSUME work[w].at \notin {"idle", "next"}
      PROVE  work[w] \in Trying \cup Saving \cup Marking /\ DOMAIN work = Workers
      BY <1>1, <1>4, Busy DEF TypeOK
<1>5. ASSUME NextCookie(w), work[w].at \notin {"idle", "next"}
      PROVE  /\ Left(work'[w]) < Left(work[w])
             /\ \A v \in Workers \ {w} : UNCHANGED work[v]
  <2> DEFINE t == [at |-> "next", todo |-> work[w].todo]
  <2>1. Become(w, t) /\ t.at = "next" /\ t.todo = work[w].todo
        BY <1>5 DEF NextCookie
  <2>2. Stage(t.at) < Stage(work[w].at)
    <3>1. work[w].at \in {"find", "ask", "post", "saveSess", "saveToken", "mark", "markToken"}
          BY <1>4, <1>5 DEF Trying, Saving, Marking
    <3> QED
          BY <2>1, <3>1 DEF Stage
  <2> HIDE DEF t
  <2> QED
        BY <1>4, <1>5, <2>1, <2>2, GoesOn
<1>6. ASSUME NEW at \in {"ask", "post", "saveSess", "saveToken", "mark", "markToken"},
             work[w].at \notin {"idle", "next"}, Stage(at) < Stage(work[w].at),
             NEW t, Become(w, t), t.at = at, t.todo = work[w].todo
      PROVE  /\ Left(work'[w]) < Left(work[w])
             /\ \A v \in Workers \ {w} : UNCHANGED work[v]
      BY <1>4, <1>6, GoesOn
<1>7. CASE FindToken(w)
  <2> DEFINE t == [work[w] EXCEPT !.at = "ask", !.token = row["RefreshToken"].value]
  <2>1. work[w].at = "find" /\ (Become(w, t) \/ NextCookie(w))
        BY <1>7 DEF FindToken
  <2>2. t.at = "ask" /\ t.todo = work[w].todo /\ Stage("ask") < Stage("find")
        BY <2>1, Busy DEF Trying, Stage
  <2> HIDE DEF t
  <2> QED
        BY <1>5, <1>6, <2>1, <2>2
<1>8. ASSUME NEW at \in {"post", "saveToken", "markToken"}, GoTo(w, at),
             work[w].at \notin {"idle", "next"}, Stage(at) < Stage(work[w].at)
      PROVE  /\ Left(work'[w]) < Left(work[w])
             /\ \A v \in Workers \ {w} : UNCHANGED work[v]
  <2> DEFINE t == [work[w] EXCEPT !.at = at]
  <2>1. Become(w, t) /\ t.at = at /\ t.todo = work[w].todo
        BY <1>4, <1>8 DEF GoTo, Become, Trying, Saving, Marking
  <2> HIDE DEF t
  <2> QED
        BY <1>6, <1>8, <2>1
<1>9. ASSUME NEW got, NEW due, ToMark(w, got, due), work[w].at \in {"ask", "saveToken"}
      PROVE  /\ Left(work'[w]) < Left(work[w])
             /\ \A v \in Workers \ {w} : UNCHANGED work[v]
  <2> DEFINE t == [at |-> "mark", todo |-> work[w].todo, id |-> work[w].id,
                   got |-> got, due |-> due]
  <2>1. Become(w, t) /\ t.at = "mark" /\ t.todo = work[w].todo
        BY <1>9 DEF ToMark
  <2>2. Stage("mark") < Stage(work[w].at) /\ work[w].at \notin {"idle", "next"}
        BY <1>9 DEF Stage
  <2> HIDE DEF t
  <2> QED
        BY <1>6, <2>1, <2>2
<1>10. CASE ShouldRefresh(w)
  <2>1. work[w].at = "ask" /\ Stage("post") < Stage("ask")
        BY <1>10 DEF ShouldRefresh, Stage
  <2>2. PICK due \in BOOLEAN : GoTo(w, "post") \/ ToMark(w, None, due) \/ NextCookie(w)
        BY <1>10 DEF ShouldRefresh
  <2> QED
        BY <1>5, <1>8, <1>9, <2>1, <2>2
<1>11. ASSUME NEW got, NEW sess, NEW token, Success(w, got, sess, token), work[w].at = "post"
       PROVE  /\ Left(work'[w]) < Left(work[w])
              /\ \A v \in Workers \ {w} : UNCHANGED work[v]
  <2> DEFINE t == [at |-> IF sess = None THEN "saveToken" ELSE "saveSess",
                   todo |-> work[w].todo, id |-> work[w].id, tried |-> work[w].token,
                   got |-> got, newSess |-> sess, newToken |-> token]
  <2>1. Become(w, t) /\ t.at \in {"saveSess", "saveToken"} /\ t.todo = work[w].todo
        BY <1>11 DEF Success
  <2>2. Stage("saveSess") < Stage("post") /\ Stage("saveToken") < Stage("post")
        BY DEF Stage
  <2> HIDE DEF t
  <2> QED
        BY <1>6, <1>11, <2>1, <2>2
<1>12. CASE Refresh(w)
  <2>1. work[w].at = "post" /\ (NextCookie(w) \/ \E got, sess, token : Success(w, got, sess, token))
        BY <1>12 DEF Refresh, Accepted, Refused
  <2> QED
        BY <1>5, <1>11, <2>1
<1>13. CASE SaveSess(w) \/ SaveToken(w) \/ SaveFails(w)
  <2>1. Stage("saveToken") < Stage("saveSess")
        BY DEF Stage
  <2> QED
        BY <1>5, <1>8, <1>9, <1>13, <2>1 DEF SaveSess, SaveToken, SaveFails
<1>14. CASE MarkCookie(w) \/ MarkToken(w)
  <2>1. Stage("markToken") < Stage("mark")
        BY DEF Stage
  <2> QED
        BY <1>5, <1>8, <1>14, <2>1 DEF MarkCookie, MarkToken
<1> QED
      BY <1>2, <1>3, <1>7, <1>10, <1>12, <1>13, <1>14 DEF Step

\* Nineteen steps are enough for a round: two cookies wait, and it looks for the
\* first.
StepsLeft == \A w \in Workers : Left(work[w]) \in 0..19
\* It is the start of a round that leaves most.
LEMMA RoundBegins ==
  ASSUME TypeOK, StepsLeft, NEW w \in Workers, RefreshAll(w) \/ RefreshOne(w)
  PROVE  StepsLeft'
<1>1. PICK todo \in SUBSET Names : work' = [work EXCEPT ![w] = [at |-> "next", todo |-> todo]]
      BY DEF RefreshAll, RefreshOne, Become
<1>2. Left([at |-> "next", todo |-> todo]) = 1 + Ahead(todo)
      BY DEF Left, Stage
<1>3. Ahead(todo) \in 0..18
      BY DEF Ahead, Waits
<1>4. Left(work'[w]) \in 0..19
      BY <1>1, <1>2, <1>3 DEF TypeOK
<1> QED
      BY <1>1, <1>4 DEF StepsLeft, TypeOK
\* A task always has a number of steps before it.
LEMMA LeftIs == ASSUME NEW t PROVE Left(t) \in Nat
BY DEF Left, Stage, Ahead, Waits
\* A step only lowers it.
LEMMA StepsLeftStep == TypeOK /\ StepsLeft /\ [Next]_vars => StepsLeft'
<1> SUFFICES ASSUME TypeOK, StepsLeft, [Next]_vars PROVE StepsLeft'
    OBVIOUS
<1>1. CASE UNCHANGED work
      BY <1>1 DEF StepsLeft
<1>2. ASSUME NEW w \in Workers, Step(w) PROVE StepsLeft'
  <2>1. Left(work'[w]) < Left(work[w]) /\ \A v \in Workers \ {w} : UNCHANGED work[v]
        BY <1>2, StepLowers DEF RoundsAdvance
  <2>2. Left(work'[w]) \in Nat /\ Left(work[w]) \in 0..19
        BY LeftIs DEF StepsLeft
  <2>3. Left(work'[w]) \in 0..19
        BY <2>1, <2>2
  <2> QED
        BY <2>1, <2>3 DEF StepsLeft
<1>3. CASE Restart
  <2>1. \A w \in Workers : work'[w] = Idle
        BY <1>3 DEF Restart
  <2>2. Left(Idle) = 0
        BY DEF Left, Idle
  <2> QED
        BY <2>1, <2>2 DEF StepsLeft
<1> QED
      BY <1>1, <1>2, <1>3, RoundBegins DEF Next, Update, vars

\* The part of RoundEnds that needs no fairness: a round has at most nineteen
\* steps before it, each of its own leaves fewer, since no failure makes it try a
\* cookie again, and what others do leaves it alone or, as the end of the process
\* does, ends it.
THEOREM RoundsEnd ==
  Spec => /\ []StepsLeft
          /\ [][RoundsAdvance]_vars
          /\ [][\A w \in Workers : work[w] # Idle /\ ~Step(w) => work'[w] \in {work[w], Idle}]_vars
<1>1. TypeOK /\ [Next]_vars => [RoundsAdvance]_vars
      BY StepLowers
<1>2. Init => StepsLeft
  <2>1. Left(Idle) = 0
        BY DEF Left, Idle
  <2>2. Init => \A w \in Workers : work[w] = Idle
        BY DEF Init
  <2>3. 0 \in 0..19
        OBVIOUS
  <2> QED
        BY <2>1, <2>2, <2>3 DEF StepsLeft
<1>3. TypeOK /\ [Next]_vars =>
        [\A w \in Workers : work[w] # Idle /\ ~Step(w) => work'[w] \in {work[w], Idle}]_vars
  <2> SUFFICES ASSUME TypeOK, Next, NEW w \in Workers, work[w] # Idle, ~Step(w)
               PROVE  work'[w] \in {work[w], Idle}
      BY DEF vars
  <2>1. ASSUME NEW v \in Workers, Step(v) PROVE work'[w] = work[w]
        BY <2>1, StepLowers DEF RoundsAdvance
  <2>2. ASSUME NEW v \in Workers, RefreshAll(v) \/ RefreshOne(v) PROVE work'[w] = work[w]
        BY <2>2 DEF RefreshAll, RefreshOne, Become, TypeOK
  <2> QED
        BY <2>1, <2>2 DEF Next, Update, Restart
<1> QED
      BY <1>1, <1>2, <1>3, StepsLeftStep, TypeCorrect, PTL DEF Spec
=============================================================================
