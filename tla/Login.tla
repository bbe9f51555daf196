------------------------------- MODULE Login --------------------------------
(***************************************************************************)
(* What a login goes through before the password is looked at              *)
(* (api/rest/auth.go): a captcha token is spent, then the password is      *)
(* decrypted with the key of a session the client has exchanged.  A        *)
(* submission spends a token of its own scene.  The token is spent even if *)
(* what follows fails.                                                     *)
(***************************************************************************)
EXTENDS KeyExchange

vars == <<captchavars, keyvars>>

Init == CaptchaInit /\ KeyInit

\* DecryptWithAES, for a session of the client's: without a key, or with another
\* client's, the login ends in an error.
Decrypt(c) ==
  /\ op[c].at = "pass" /\ op[c].scene = "login"
  /\ \E s \in Sessions :
       /\ c \in agreed[s]
       /\ Become(c, IF Readable(c, s) THEN [op[c] EXCEPT !.at = "auth"] ELSE Idle)
  /\ UNCHANGED <<puzzle, token, granted, passed, doubled, keyvars>>
\* Auth.Login, with either outcome; a submission; or a login without a session.
Answer(c) ==
  /\ \/ op[c].at = "auth"
     \/ op[c].at = "pass" /\ op[c].scene = "submission"
     \/ op[c].at = "pass" /\ \A s \in Sessions : c \notin agreed[s]
  /\ Become(c, Idle)
  /\ UNCHANGED <<puzzle, token, granted, passed, doubled, keyvars>>

\* The process dies: the requests end where they stand, Redis keeps what it has.
Restart ==
  /\ op' = [c \in Clients |-> Idle]
  /\ ex' = [c \in Clients |-> Resting]
  /\ forgotten' = forgotten \cup {ex[c].session : c \in {d \in Clients : ex[d].at = "expire"}}
  /\ UNCHANGED <<puzzle, token, granted, passed, doubled, pair, secret, agreed, contested>>

Step(c) ==
  \/ ex[c] = Resting /\ CaptchaStep(c) /\ UNCHANGED keyvars
  \/ op[c] = Idle /\ KeyStep(c) /\ UNCHANGED captchavars
  \/ Decrypt(c) \/ Answer(c)
RedisExpires ==
  \/ CaptchaEnv /\ UNCHANGED keyvars
  \/ KeyEnv /\ UNCHANGED captchavars
Next == (\E c \in Clients : Step(c)) \/ RedisExpires \/ Restart

Spec == Init /\ [][Next]_vars

-----------------------------------------------------------------------------
(* Properties.                                                             *)

\* One puzzle solved lets one request pass, from GET to DEL of the puzzle, the
\* SET of its token and GET to DEL of that, unless two requests read the same one
\* before either removed it or a removal failed.
OneUsePerPuzzle == \A p \in Puzzles : passed[p] > 1 => p \in doubled

\* A client that was told the exchange succeeded, of a session whose key pair was
\* read once, finds its own key there for as long as there is one: its password
\* is not decrypted with another's.
KeyAgrees ==
  \A s \in Sessions : s \notin contested =>
    \A c \in agreed[s] : Kept(s) => Readable(c, s)

\* A session key without a time to live is about to get one, or the call that
\* gives it was lost: requests that overlap do not take it from each other.
KeyFades ==
  \A s \in Sessions :
    Kept(s) /\ ~secret[s].ttl =>
      s \in forgotten \/ \E c \in Clients : ex[c] = Exchanging("expire", s)
=============================================================================
