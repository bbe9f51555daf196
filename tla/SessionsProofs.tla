--------------------------- MODULE SessionsProofs ---------------------------
(***************************************************************************)
(* Safety of Sessions for any number of requests, token pairs, logouts and *)
(* password changes: a session that had to end does not go on, and a       *)
(* refresh token that was exchanged stays dead, and a session has one pair.*)
(***************************************************************************)
EXTENDS Sessions, TLAPS

\* The first state has its types.
LEMMA InitTypeOK == Init => TypeOK
  BY SessionAssumption DEF Init, TypeOK, Ids, Idle, Steps

\* Types are kept, numbers of pairs and eras within their bounds.
LEMMA NextTypeOK == TypeOK /\ [Next]_vars => TypeOK'
<1> USE DEF Idle, Working, Kinds, Ids, Steps, Become
<1> SUFFICES ASSUME TypeOK, [Next]_vars
             PROVE  TypeOK'
    OBVIOUS
<1> USE SessionAssumption DEF TypeOK
<1>1. CASE UNCHANGED vars
      BY <1>1 DEF vars
<1>2. ASSUME NEW t \in keys, Expire(t) PROVE TypeOK'
      BY <1>2 DEF Expire, ghosts
<1>3. ASSUME NEW p \in Requests, Login(p) PROVE TypeOK'
      BY <1>3 DEF Login, ghosts
<1>4. ASSUME NEW p \in Requests, StoreAccess(p) PROVE TypeOK'
      BY <1>4 DEF StoreAccess, ghosts, Token
<1>5. ASSUME NEW p \in Requests, StoreRefresh(p) PROVE TypeOK'
      BY <1>5 DEF StoreRefresh, ghosts, Token
<1>6. ASSUME NEW p \in Requests, Fails(p) PROVE TypeOK'
      BY <1>6 DEF Fails, ghosts
<1>7. ASSUME NEW p \in Requests, RefreshValidates(p) PROVE TypeOK'
  <2>1. PICK t \in keys :
            /\ Become(p, [at |-> "revoke", sid |-> t.sid, pair |-> t.pair, era |-> t.era])
            /\ doubled' = doubled \cup (IF InFlight(t.sid) = {} THEN {} ELSE {t.sid})
        BY <1>7 DEF RefreshValidates
  <2>2. t.sid \in Ids /\ t.pair \in Ids /\ t.era \in 0..era
        OBVIOUS
  <2>3. UNCHANGED <<keys, issued, era, used, spared>>
        BY <1>7 DEF RefreshValidates
  <2>4. [at |-> "revoke", sid |-> t.sid, pair |-> t.pair, era |-> t.era] \in Steps
        BY <2>2
  <2>5. req' \in [Requests -> Steps] /\ doubled' \subseteq Ids
        BY <2>1, <2>2, <2>4
  <2> QED
      BY <2>3, <2>5
<1>8. ASSUME NEW p \in Requests, RefreshRevokes(p) PROVE TypeOK'
  <2>1. req[p] \in [at : Working, sid : Ids, pair : Ids, era : 0..era]
        BY <1>8 DEF RefreshRevokes
  <2>2. issued' = issued + 1 /\ issued' \in 0..MaxPairs /\ Ids \subseteq Ids' /\ issued' \in Ids'
        BY <1>8 DEF RefreshRevokes, Revoke
  <2>3. UNCHANGED <<era, spared>> /\ keys' \subseteq keys /\ doubled' \subseteq doubled
        BY <1>8 DEF RefreshRevokes, Revoke
  <2>4. used' = used \cup {req[p].pair}
        BY <1>8 DEF RefreshRevokes, Revoke
  <2>5. keys' \subseteq [kind : Kinds, sid : Ids', pair : Ids', era : 0..era']
        BY <2>2, <2>3
  <2>6. used' \subseteq Ids' /\ doubled' \subseteq Ids' /\ spared' \subseteq Ids'
        BY <2>1, <2>2, <2>3, <2>4
  <2>7. req' \in [Requests -> Steps']
    <3>1. req' = [req EXCEPT ![p] = [req[p] EXCEPT !.at = "storeAccess", !.pair = issued']]
          BY <1>8, <2>2 DEF RefreshRevokes, Revoke
    <3>2. [req[p] EXCEPT !.at = "storeAccess", !.pair = issued'] \in Steps'
          BY <2>1, <2>2, <2>3
    <3>3. Steps \subseteq Steps'
          BY <2>2, <2>3
    <3> QED
        BY <3>1, <3>2, <3>3
  <2> QED
      BY <2>2, <2>3, <2>5, <2>6, <2>7
<1>9. ASSUME NEW p \in Requests, LogoutValidates(p) PROVE TypeOK'
      BY <1>9 DEF LogoutValidates, ghosts
<1>10. ASSUME NEW p \in Requests, LogoutRevokes(p) PROVE TypeOK'
      BY <1>10 DEF LogoutRevokes, Carried
<1>11. ASSUME NEW p \in Requests, UpdatePassword(p) PROVE TypeOK'
      BY <1>11 DEF UpdatePassword
<1>12. ASSUME NEW p \in Requests, InvalidateTokens(p) PROVE TypeOK'
  <2>1. Carried \subseteq Ids /\ {t.sid : t \in keys} \subseteq Ids
        BY DEF Carried
  <2>2. keys' \subseteq keys /\ spared' \subseteq Ids
        BY <1>12, <2>1 DEF InvalidateTokens
  <2>3. UNCHANGED <<issued, era, used, doubled>> /\ req' \in [Requests -> Steps]
        BY <1>12 DEF InvalidateTokens
  <2> QED
      BY <2>2, <2>3
<1> QED
    BY <1>1, <1>2, <1>3, <1>4, <1>5, <1>6, <1>7, <1>8, <1>9, <1>10, <1>11, <1>12 DEF Next

\* The types of the tokens, the requests and the ghosts.
THEOREM TypeCorrect == Spec => []TypeOK
BY InitTypeOK, NextTypeOK, PTL DEF Spec

-----------------------------------------------------------------------------
(* Ending sessions.                                                        *)

\* What holds of a token, or of a request that will store one.
Current(x) == x.era = era \/ x.sid \in spared \/ \E p \in Requests : req[p].at = "cutOff"

\* EndedForGood says nothing of the requests that carry a session across its
\* end; with them it is inductive.
EndInv ==
  /\ \A t \in keys : Current(t)
  /\ \A p \in Requests : req[p].at \in Working => Current(req[p])

\* A new era begins with every key deleted, or with a request at "cutOff", or
\* with every session that is left named in spared.
LEMMA NextEndInv == TypeOK /\ EndInv /\ [Next]_vars => EndInv'
<1> USE DEF Idle, Working, Become, EndInv, Current
<1> SUFFICES ASSUME TypeOK, EndInv, [Next]_vars
             PROVE  EndInv'
    OBVIOUS
<1> USE DEF TypeOK, Steps
<1>1. CASE UNCHANGED vars
      BY <1>1 DEF vars
<1>2. ASSUME NEW t \in keys, Expire(t) PROVE EndInv'
      BY <1>2 DEF Expire, ghosts
<1>3. ASSUME NEW p \in Requests, Login(p) PROVE EndInv'
      BY <1>3 DEF Login, ghosts
<1>4. ASSUME NEW p \in Requests, StoreAccess(p) PROVE EndInv'
      BY <1>4 DEF StoreAccess, ghosts, Token
<1>5. ASSUME NEW p \in Requests, StoreRefresh(p) PROVE EndInv'
      BY <1>5 DEF StoreRefresh, ghosts, Token
<1>6. ASSUME NEW p \in Requests, Fails(p) PROVE EndInv'
      BY <1>6 DEF Fails, ghosts
<1>7. ASSUME NEW p \in Requests, RefreshValidates(p) PROVE EndInv'
      BY <1>7 DEF RefreshValidates
<1>8. ASSUME NEW p \in Requests, RefreshRevokes(p) PROVE EndInv'
      BY <1>8 DEF RefreshRevokes, Revoke
<1>9. ASSUME NEW p \in Requests, LogoutValidates(p) PROVE EndInv'
      BY <1>9 DEF LogoutValidates, ghosts
<1>10. ASSUME NEW p \in Requests, LogoutRevokes(p) PROVE EndInv'
      BY <1>10 DEF LogoutRevokes, Carried
<1>11. ASSUME NEW p \in Requests, UpdatePassword(p) PROVE EndInv'
      BY <1>11 DEF UpdatePassword
<1>12. ASSUME NEW p \in Requests, InvalidateTokens(p) PROVE EndInv'
      BY <1>12 DEF InvalidateTokens, Carried
<1> QED
    BY <1>1, <1>2, <1>3, <1>4, <1>5, <1>6, <1>7, <1>8, <1>9, <1>10, <1>11, <1>12 DEF Next

\* After a logout or a password change no session goes on that began before it,
\* but one that was in a request at that moment or one that could not be ended.
THEOREM SessionsEnd == Spec => []EndedForGood
<1>1. Init => EndInv
      BY DEF Init, EndInv, Idle, Working
<1>2. EndInv => EndedForGood
      BY DEF EndInv, Current, EndedForGood
<1> QED
    BY <1>1, <1>2, InitTypeOK, NextTypeOK, NextEndInv, PTL DEF Spec

-----------------------------------------------------------------------------
(* Rotation.                                                               *)

Storing(p) == req[p].at \in {"storeAccess", "storeRefresh"}

\* A pair belongs to one session, one request stores it, and nobody can present
\* its refresh token before that request is done.
RotationInv ==
  /\ \A t \in keys : t.pair \notin used
  /\ \A t, u \in keys : t.pair = u.pair => t.sid = u.sid
  /\ \A p \in Requests : Storing(p) =>
       /\ req[p].pair \notin used
       /\ \A t \in keys : t.pair = req[p].pair => t.sid = req[p].sid /\ t.kind = "access"
  /\ \A p \in Requests, t \in keys :
       req[p].at = "revoke" /\ t.pair = req[p].pair => t.sid = req[p].sid
  /\ \A p, q \in Requests :
       Storing(p) /\ req[q].at \in Working /\ req[q].pair = req[p].pair => p = q

\* A pair gets its number when the keys of its session are gone, so what the
\* request stores afterwards is new.
LEMMA NextRotationInv == TypeOK /\ RotationInv /\ [Next]_vars => RotationInv'
<1> USE DEF Idle, Working, Become, RotationInv, Storing, Kinds
<1> SUFFICES ASSUME TypeOK, RotationInv, [Next]_vars
             PROVE  RotationInv'
    OBVIOUS
<1> USE DEF TypeOK, Ids, Steps
<1>1. CASE UNCHANGED vars
      BY <1>1 DEF vars
<1>2. ASSUME NEW t \in keys, Expire(t) PROVE RotationInv'
      BY <1>2 DEF Expire, ghosts
<1>3. ASSUME NEW p \in Requests, Login(p) PROVE RotationInv'
      BY <1>3 DEF Login, ghosts
<1>4. ASSUME NEW p \in Requests, StoreAccess(p) PROVE RotationInv'
      BY <1>4 DEF StoreAccess, ghosts, Token
<1>5. ASSUME NEW p \in Requests, StoreRefresh(p) PROVE RotationInv'
      BY <1>5 DEF StoreRefresh, ghosts, Token
<1>6. ASSUME NEW p \in Requests, Fails(p) PROVE RotationInv'
      BY <1>6 DEF Fails, ghosts
<1>7. ASSUME NEW p \in Requests, RefreshValidates(p) PROVE RotationInv'
      BY <1>7 DEF RefreshValidates
<1>8. ASSUME NEW p \in Requests, RefreshRevokes(p) PROVE RotationInv'
      BY <1>8 DEF RefreshRevokes, Revoke
<1>9. ASSUME NEW p \in Requests, LogoutValidates(p) PROVE RotationInv'
      BY <1>9 DEF LogoutValidates, ghosts
<1>10. ASSUME NEW p \in Requests, LogoutRevokes(p) PROVE RotationInv'
      BY <1>10 DEF LogoutRevokes
<1>11. ASSUME NEW p \in Requests, UpdatePassword(p) PROVE RotationInv'
      BY <1>11 DEF UpdatePassword
<1>12. ASSUME NEW p \in Requests, InvalidateTokens(p) PROVE RotationInv'
      BY <1>12 DEF InvalidateTokens
<1> QED
    BY <1>1, <1>2, <1>3, <1>4, <1>5, <1>6, <1>7, <1>8, <1>9, <1>10, <1>11, <1>12 DEF Next

\* An exchanged refresh token never works again.
THEOREM RotationHolds == Spec => []UsedIsDead
<1>1. Init => RotationInv
      BY DEF Init, RotationInv, Idle, Storing
<1>2. RotationInv => UsedIsDead
      BY DEF RotationInv, UsedIsDead
<1> QED
    BY <1>1, <1>2, InitTypeOK, NextTypeOK, NextRotationInv, PTL DEF Spec

-----------------------------------------------------------------------------
(* One pair.                                                               *)

\* A session two refreshes of which have not overlapped is in one request at most;
\* while that stores the new pair, the keys of the old one are gone.
Orderly(s) ==
  /\ \A p, q \in Requests :
       req[p].at \in Working /\ req[q].at \in Working /\ req[p].sid = s /\ req[q].sid = s => p = q
  /\ \A t, u \in keys : t.sid = s /\ u.sid = s /\ t.kind = u.kind => t = u
  /\ \A p \in Requests, t \in keys :
       /\ req[p].at = "storeAccess" /\ req[p].sid = s => t.sid # s
       /\ req[p].at = "storeRefresh" /\ req[p].sid = s /\ t.sid = s => t.kind = "access"
PairInv == \A s \in Nat : s \in doubled \/ Orderly(s)

\* Every step keeps the pair of each session not refreshed twice at once.
LEMMA NextPairInv == TypeOK /\ PairInv /\ [Next]_vars => PairInv'
<1> USE DEF Idle, Working, Become, Kinds
<1> SUFFICES ASSUME TypeOK, PairInv, [Next]_vars, NEW s \in Nat, s \notin doubled'
             PROVE  Orderly(s)'
    BY DEF PairInv
<1> USE DEF TypeOK, Ids, Steps, Orderly
<1>0. s \in doubled \/ Orderly(s)
      BY DEF PairInv
<1>1. CASE UNCHANGED vars
      BY <1>0, <1>1 DEF vars
<1>2. ASSUME NEW t \in keys, Expire(t) PROVE Orderly(s)'
      BY <1>0, <1>2 DEF Expire, ghosts
<1>3. ASSUME NEW p \in Requests, Login(p) PROVE Orderly(s)'
      BY <1>0, <1>3 DEF Login, ghosts
<1>4. ASSUME NEW p \in Requests, StoreAccess(p) PROVE Orderly(s)'
      BY <1>0, <1>4 DEF StoreAccess, ghosts, Token
<1>5. ASSUME NEW p \in Requests, StoreRefresh(p) PROVE Orderly(s)'
      BY <1>0, <1>5 DEF StoreRefresh, ghosts, Token
<1>6. ASSUME NEW p \in Requests, Fails(p) PROVE Orderly(s)'
      BY <1>0, <1>6 DEF Fails, ghosts
<1>7. ASSUME NEW p \in Requests, RefreshValidates(p) PROVE Orderly(s)'
      BY <1>0, <1>7 DEF RefreshValidates, InFlight
<1>8. ASSUME NEW p \in Requests, RefreshRevokes(p) PROVE Orderly(s)'
      BY <1>0, <1>8 DEF RefreshRevokes, Revoke, InFlight
<1>9. ASSUME NEW p \in Requests, LogoutValidates(p) PROVE Orderly(s)'
      BY <1>0, <1>9 DEF LogoutValidates, ghosts
<1>10. ASSUME NEW p \in Requests, LogoutRevokes(p) PROVE Orderly(s)'
      BY <1>0, <1>10 DEF LogoutRevokes
<1>11. ASSUME NEW p \in Requests, UpdatePassword(p) PROVE Orderly(s)'
      BY <1>0, <1>11 DEF UpdatePassword
<1>12. ASSUME NEW p \in Requests, InvalidateTokens(p) PROVE Orderly(s)'
      BY <1>0, <1>12 DEF InvalidateTokens
<1> QED
    BY <1>1, <1>2, <1>3, <1>4, <1>5, <1>6, <1>7, <1>8, <1>9, <1>10, <1>11, <1>12 DEF Next

\* A session has one live pair, but one whose refreshes overlapped.
THEOREM OnePairEach == Spec => []OnePairLive
<1>1. Init => PairInv
      BY DEF Init, PairInv, Orderly, Idle, Working
<1>2. TypeOK /\ PairInv => OnePairLive
  <2> SUFFICES ASSUME TypeOK, PairInv, NEW t \in keys, NEW u \in keys,
                      t.sid = u.sid, t.kind = u.kind, t.sid \notin doubled
               PROVE  t = u
      BY DEF OnePairLive
  <2>1. t.sid \in Nat
        BY DEF TypeOK, Ids
  <2> QED
      BY <2>1 DEF PairInv, Orderly
<1> QED
    BY <1>1, <1>2, InitTypeOK, NextTypeOK, NextPairInv, PTL DEF Spec
=============================================================================
