------------------------------ MODULE Captcha -------------------------------
(***************************************************************************)
(* Captchas (services/captcha.go): a puzzle solved is exchanged for a      *)
(* token, and the token for one request of the scene it was asked for.     *)
(* Both live in Redis, where each is read by GET and removed by a DEL of   *)
(* its own whose error nobody looks at.                                    *)
(*                                                                         *)
(* The click and the slide captcha differ in the geometry of the answer    *)
(* only.  A wrong answer, and a puzzle or a token that is not there, end   *)
(* the request without a trace and are left out.                           *)
(***************************************************************************)
EXTENDS Naturals

CONSTANTS Clients,    \* each makes one request at a time
          Puzzles,    \* the ids of the puzzles ever made
          MaxTokens   \* bound: tokens ever granted

ASSUME CaptchaAssumption == MaxTokens \in Nat

VARIABLES puzzle,     \* puzzle[p]: its scene while Redis holds it
          token,      \* token[t]: its scene while Redis holds it, and its puzzle
          granted,    \* the number of tokens granted
          op,         \* op[c]: where the request of client c stands
          passed,     \* ghost: how many requests got through with puzzle p, 2 for more
          doubled     \* ghost: puzzles read twice, or not removed, on the way

captchavars == <<puzzle, token, granted, op, passed, doubled>>

Scenes == {"login", "submission"}
Tokens == 1..MaxTokens
Idle == [at |-> "idle"]
Stands(at, scene, p, t) == [at |-> at, scene |-> scene, puzzle |-> p, token |-> t]

Become(c, step) == op' = [op EXCEPT ![c] = step]
\* A request other than c's has read the puzzle, or the token, and not yet
\* removed it.
Reading(c, at, p, t) ==
  \E d \in Clients \ {c} : op[d].at = at /\ op[d].puzzle = p /\ op[d].token = t

CaptchaInit ==
  /\ puzzle = [p \in Puzzles |-> "new"]
  /\ token = [t \in Tokens |-> [scene |-> "none", puzzle |-> "none"]]
  /\ granted = 0
  /\ op = [c \in Clients |-> Idle]
  /\ passed = [p \in Puzzles |-> 0]
  /\ doubled = {}

-----------------------------------------------------------------------------
(* GenerateClickCaptcha, GenerateSlideCaptcha.                             *)

\* A scene other than the two is refused by the handler.
Generate(p) ==
  /\ puzzle[p] = "new"
  /\ \E scene \in Scenes : puzzle' = [puzzle EXCEPT ![p] = scene]
  /\ UNCHANGED <<token, granted, op, passed, doubled>>

-----------------------------------------------------------------------------
(* VerifyClickCaptcha, VerifySlideCaptcha.                                 *)

VerifyReads(c, p) ==
  /\ op[c] = Idle /\ puzzle[p] \in Scenes
  /\ Become(c, Stands("drop", puzzle[p], p, 0))
  /\ doubled' = IF Reading(c, "drop", p, 0) THEN doubled \cup {p} ELSE doubled
  /\ UNCHANGED <<puzzle, token, granted, passed>>
VerifyDrops(c) ==
  /\ op[c].at = "drop"
  /\ \/ puzzle' = [puzzle EXCEPT ![op[c].puzzle] = "gone"] /\ UNCHANGED doubled
     \/ doubled' = doubled \cup {op[c].puzzle} /\ UNCHANGED puzzle
  /\ Become(c, [op[c] EXCEPT !.at = "grant"])
  /\ UNCHANGED <<token, granted, passed>>
\* The token's SET may fail: the puzzle is gone all the same.
VerifyGrants(c) ==
  /\ op[c].at = "grant"
  /\ \/ /\ granted < MaxTokens
        /\ granted' = granted + 1
        /\ token' = [token EXCEPT ![granted + 1] =
                       [scene |-> op[c].scene, puzzle |-> op[c].puzzle]]
     \/ UNCHANGED <<granted, token>>
  /\ Become(c, Idle)
  /\ UNCHANGED <<puzzle, passed, doubled>>

-----------------------------------------------------------------------------
(* VerifyCaptchaToken, first thing in the handler of either scene.         *)

SpendReads(c, t) ==
  /\ op[c] = Idle /\ token[t].scene \in Scenes
  /\ Become(c, Stands("spend", token[t].scene, token[t].puzzle, t))
  /\ doubled' = IF Reading(c, "spend", token[t].puzzle, t)
                THEN doubled \cup {token[t].puzzle} ELSE doubled
  /\ UNCHANGED <<puzzle, token, granted, passed>>
Pass(c) ==
  /\ Become(c, [op[c] EXCEPT !.at = "pass"])
  /\ passed' = [passed EXCEPT ![op[c].puzzle] = IF @ < 2 THEN @ + 1 ELSE 2]
SpendKeeps(c) ==
  /\ op[c].at = "spend"
  /\ Pass(c)
  /\ UNCHANGED <<puzzle, token, granted, doubled>>
SpendDrops(c) ==
  /\ op[c].at = "spend"
  /\ \/ token' = [token EXCEPT ![op[c].token].scene = "gone"] /\ UNCHANGED doubled
     \/ doubled' = doubled \cup {op[c].puzzle} /\ UNCHANGED token
  /\ Pass(c)
  /\ UNCHANGED <<puzzle, granted>>

\* The times to live: five minutes and one.
PuzzleExpires(p) ==
  /\ puzzle[p] \in Scenes
  /\ puzzle' = [puzzle EXCEPT ![p] = "gone"]
  /\ UNCHANGED <<token, granted, op, passed, doubled>>
TokenExpires(t) ==
  /\ token[t].scene \in Scenes
  /\ token' = [token EXCEPT ![t].scene = "gone"]
  /\ UNCHANGED <<puzzle, granted, op, passed, doubled>>

CaptchaStep(c) ==
  \/ \E p \in Puzzles : VerifyReads(c, p)
  \/ \E t \in Tokens : SpendReads(c, t)
  \/ VerifyDrops(c) \/ VerifyGrants(c) \/ SpendDrops(c)
CaptchaEnv ==
  \/ \E p \in Puzzles : Generate(p) \/ PuzzleExpires(p)
  \/ \E t \in Tokens : TokenExpires(t)

\* Every variable keeps its type; a token not yet granted is nobody's.
CaptchaTypeOK ==
  /\ puzzle \in [Puzzles -> Scenes \cup {"new", "gone"}]
  /\ granted \in 0..MaxTokens
  /\ token \in [Tokens -> [scene : Scenes \cup {"none", "gone"},
                           puzzle : Puzzles \cup {"none"}]]
  /\ \A t \in Tokens :
       IF t <= granted THEN token[t].puzzle \in Puzzles ELSE token[t].scene = "none"
  /\ op \in [Clients -> {Idle} \cup [at : {"drop", "grant", "spend", "pass", "auth"},
                                     scene : Scenes, puzzle : Puzzles, token : 0..MaxTokens]]
  /\ \A c \in Clients :
       /\ op[c].at = "drop" => op[c].token = 0
       /\ op[c].at = "spend" => op[c].token \in 1..granted
  /\ passed \in [Puzzles -> 0..2]
  /\ doubled \subseteq Puzzles
=============================================================================
