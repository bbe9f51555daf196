------------------------------ MODULE Sessions ------------------------------
(***************************************************************************)
(* The sessions of one user: the tokens in Redis under login, refresh,     *)
(* logout and password change (services/auth.go, jwt.go, sys_user.go).  A  *)
(* token works as long as its key is there; the keys of a session share    *)
(* its sid, those of another user another prefix.                          *)
(*                                                                         *)
(* Each call to Redis and to the database is a step, and the requests      *)
(* interleave.  A token and its claims travel together: a refresh copies   *)
(* the claims of the old token, so a session keeps those it began with.    *)
(***************************************************************************)
EXTENDS Naturals, FiniteSets

CONSTANTS Requests,    \* HTTP requests that can be in progress together
          MaxPairs,    \* bound: token pairs generated
          MaxEras      \* bound: logouts and password changes

ASSUME SessionAssumption == MaxPairs \in Nat /\ MaxEras \in Nat

VARIABLES keys,       \* the tokens whose keys Redis holds
          issued,     \* pairs numbered so far; NextIDStr hands out a number once
          req,        \* req[p]: the step request p stands at
          era,        \* ghost: how often all sessions of the user had to end
          used,       \* ghost: pairs whose refresh token has been exchanged
          doubled,    \* ghost: sessions two refreshes of which overlapped
          spared      \* ghost: sessions in a request when all were ended, or
                      \* alive when ending them failed

vars == <<keys, issued, req, era, used, doubled, spared>>
ghosts == <<era, used, doubled, spared>>

Kinds == {"access", "refresh"}
Idle == [at |-> "idle"]
Working == {"revoke", "storeAccess", "storeRefresh"}

Token(kind, r) == [kind |-> kind, sid |-> r.sid, pair |-> r.pair, era |-> r.era]
Become(p, step) == req' = [req EXCEPT ![p] = step]

\* The requests that are about to give session s new tokens, and the sessions
\* for which there is one.
InFlight(s) == {p \in Requests : req[p].at \in Working /\ req[p].sid = s}
Carried == {req[p].sid : p \in {q \in Requests : req[q].at \in Working}}

Init ==
  /\ keys = {} /\ issued = 0
  /\ req = [p \in Requests |-> Idle]
  /\ era = 0 /\ used = {} /\ doubled = {} /\ spared = {}

-----------------------------------------------------------------------------
(* Login, and GenerateTokens, which stores a pair by two SETs.             *)

\* The password is right; the session gets an id of its own.
Login(p) ==
  /\ req[p] = Idle /\ issued < MaxPairs
  /\ issued' = issued + 1
  /\ Become(p, [at |-> "storeAccess", sid |-> issued + 1, pair |-> issued + 1, era |-> era])
  /\ UNCHANGED <<keys, ghosts>>
StoreAccess(p) ==
  /\ req[p].at = "storeAccess"
  /\ keys' = keys \cup {Token("access", req[p])}
  /\ Become(p, [req[p] EXCEPT !.at = "storeRefresh"])
  /\ UNCHANGED <<issued, ghosts>>
\* The client is sent the pair.
StoreRefresh(p) ==
  /\ req[p].at = "storeRefresh"
  /\ keys' = keys \cup {Token("refresh", req[p])}
  /\ Become(p, Idle)
  /\ UNCHANGED <<issued, ghosts>>
\* A SET, the deletion before it or the numbering failed: the client is sent an
\* error, and what has been done stays.
Fails(p) ==
  /\ req[p].at \in Working \cup {"logout"}
  /\ Become(p, Idle)
  /\ UNCHANGED <<keys, issued, ghosts>>

-----------------------------------------------------------------------------
(* RefreshToken: validate, delete the keys of the session, generate.       *)

RefreshValidates(p) ==
  /\ req[p] = Idle
  /\ \E t \in keys :
       /\ t.kind = "refresh"
       /\ Become(p, [at |-> "revoke", sid |-> t.sid, pair |-> t.pair, era |-> t.era])
       /\ doubled' = doubled \cup (IF InFlight(t.sid) = {} THEN {} ELSE {t.sid})
  /\ UNCHANGED <<keys, issued, era, used, spared>>

\* InvalidateTokensBySid; what is left of the session is gone.
Revoke(p, left) ==
  LET s == req[p].sid
  IN /\ issued < MaxPairs
     /\ keys' = left
     /\ used' = used \cup {req[p].pair}
     /\ issued' = issued + 1
     /\ Become(p, [req[p] EXCEPT !.at = "storeAccess", !.pair = issued + 1])
     /\ doubled' = IF InFlight(s) = {p} THEN doubled \ {s} ELSE doubled
     /\ UNCHANGED <<era, spared>>
RefreshKeepsAccess(p) ==
  /\ req[p].at = "revoke"
  /\ Revoke(p, {t \in keys : t.sid # req[p].sid \/ t.kind = "access"})
RefreshKeepsRefresh(p) ==
  /\ req[p].at = "revoke"
  /\ Revoke(p, {t \in keys : t.sid # req[p].sid \/ t.kind = "refresh"})
RefreshRevokes(p) ==
  /\ req[p].at = "revoke"
  /\ Revoke(p, {t \in keys : t.sid # req[p].sid})

-----------------------------------------------------------------------------
(* Logout and UpdatePassword: InvalidateTokens, all keys of the user.      *)

\* JwtHandler accepts any token of the user that is in Redis.
LogoutValidates(p) ==
  /\ req[p] = Idle
  /\ \E t \in keys : Become(p, [at |-> "logout", sid |-> t.sid])
  /\ UNCHANGED <<keys, issued, ghosts>>
LogoutOneSession(p) ==
  /\ req[p].at = "logout" /\ era < MaxEras
  /\ keys' = {t \in keys : t.sid # req[p].sid}
  /\ era' = era + 1 /\ spared' = Carried
  /\ Become(p, Idle)
  /\ UNCHANGED <<issued, used, doubled>>
LogoutRevokes(p) ==
  /\ req[p].at = "logout" /\ era < MaxEras
  /\ keys' = {}
  /\ era' = era + 1 /\ spared' = Carried
  /\ Become(p, Idle)
  /\ UNCHANGED <<issued, used, doubled>>

\* The user, or an administrator, has changed the password; the sessions end in
\* the next step, and if that fails the request succeeds all the same.
UpdatePassword(p) ==
  /\ req[p] = Idle /\ era < MaxEras
  /\ era' = era + 1
  /\ Become(p, [at |-> "cutOff"])
  /\ UNCHANGED <<keys, issued, used, doubled, spared>>
InvalidateTokens(p) ==
  /\ req[p].at = "cutOff"
  /\ \/ keys' = {} /\ spared' = Carried
     \/ UNCHANGED keys /\ spared' = spared \cup Carried \cup {t.sid : t \in keys}
  /\ Become(p, Idle)
  /\ UNCHANGED <<issued, era, used, doubled>>

\* A token's time to live has passed.
Expire(t) ==
  /\ t \in keys
  /\ keys' = keys \ {t}
  /\ UNCHANGED <<issued, req, ghosts>>

Next ==
  \/ \E t \in keys : Expire(t)
  \/ \E p \in Requests :
       \/ Login(p) \/ StoreAccess(p) \/ StoreRefresh(p) \/ Fails(p)
       \/ RefreshValidates(p) \/ RefreshRevokes(p)
       \/ LogoutValidates(p) \/ LogoutRevokes(p)
       \/ UpdatePassword(p) \/ InvalidateTokens(p)

Spec == Init /\ [][Next]_vars

-----------------------------------------------------------------------------
(* Properties.                                                             *)

Ids == 1..issued
Steps == {Idle, [at |-> "cutOff"]} \cup [at : {"logout"}, sid : Ids]
           \cup [at : Working, sid : Ids, pair : Ids, era : 0..era]
TypeOK ==
  /\ issued \in 0..MaxPairs /\ era \in 0..MaxEras
  /\ keys \subseteq [kind : Kinds, sid : Ids, pair : Ids, era : 0..era]
  /\ used \subseteq Ids /\ doubled \subseteq Ids /\ spared \subseteq Ids
  /\ req \in [Requests -> Steps]

\* A refresh token that has been exchanged never works again, whoever stores or
\* deletes what in between: rotation makes the old token invalid at once.
UsedIsDead == \A t \in keys : t.pair \notin used

\* A session has one live pair.  Two refreshes that overlap can leave it two
\* until its next refresh, which heals it; nothing else can.
OnePairLive ==
  \A t, u \in keys : t.sid = u.sid /\ t.kind = u.kind => t = u \/ t.sid \in doubled

\* After a logout or a password change no session goes on that began before it,
\* under whatever new tokens, but one that was being given tokens at that very
\* moment, or one alive when deleting the keys failed.
EndedForGood ==
  \A t \in keys : t.era = era \/ t.sid \in spared \/ \E p \in Requests : req[p].at = "cutOff"
=============================================================================
