---------------------------- MODULE LoginProofs -----------------------------
(***************************************************************************)
(* Safety of Login for any number of clients, puzzles, tokens and          *)
(* sessions: what one solved puzzle is good for, and whose key a session   *)
(* has and for how long.                                                   *)
(***************************************************************************)
EXTENDS Login, TLAPS

-----------------------------------------------------------------------------
(* Captchas.                                                               *)

At(c, places, p) == op[c].at \in places /\ op[c].puzzle = p
TokenOf(t, p) == t <= granted /\ token[t].puzzle = p

\* A puzzle that was not read twice is in one hand at a time: still to be
\* solved, held by the one request that verifies it, in its one token, held by
\* the one request that spends that, or used.
Once(p) ==
  /\ puzzle[p] # "gone" =>
       /\ \A c \in Clients : ~At(c, {"grant", "spend"}, p)
       /\ \A t \in Tokens : ~TokenOf(t, p)
       /\ passed[p] = 0
  /\ \A c, d \in Clients : At(c, {"drop", "grant"}, p) /\ At(d, {"drop", "grant"}, p) => c = d
  /\ \A c \in Clients : At(c, {"drop", "grant"}, p) =>
       (\A t \in Tokens : ~TokenOf(t, p)) /\ passed[p] = 0
  /\ \A t, u \in Tokens : TokenOf(t, p) /\ TokenOf(u, p) => t = u
  /\ \A c \in Clients : At(c, {"spend"}, p) =>
       op[c].token \in Tokens /\ TokenOf(op[c].token, p) /\ passed[p] = 0
  /\ \A c, d \in Clients : At(c, {"spend"}, p) /\ At(d, {"spend"}, p) => c = d
  /\ passed[p] <= 1
  /\ \A t \in Tokens : passed[p] > 0 /\ TokenOf(t, p) => token[t].scene \notin Scenes

CaptchaInv == CaptchaTypeOK /\ \A p \in Puzzles \ doubled : Once(p)

\* Nothing is solved at first.
LEMMA InitCaptchaInv == CaptchaInit => CaptchaInv
<1> SUFFICES ASSUME CaptchaInit PROVE CaptchaInv
    OBVIOUS
<1> USE CaptchaAssumption DEF CaptchaInit, Idle, Scenes, Tokens
<1>1. CaptchaTypeOK
      BY DEF CaptchaTypeOK
<1>2. ASSUME NEW p \in Puzzles PROVE Once(p)
      BY <1>2 DEF Once, At, TokenOf
<1> QED
    BY <1>1, <1>2 DEF CaptchaInv

\* A request ends, or goes on where no puzzle counts any more.
LEMMA LeaveKeeps ==
  ASSUME CaptchaInv,
         op' \in [Clients -> {Idle} \cup [at : {"drop", "grant", "spend", "pass", "auth"},
                                          scene : Scenes, puzzle : Puzzles,
                                          token : 0..MaxTokens]],
         \A c \in Clients : op'[c] = op[c] \/ op'[c].at \in {"idle", "pass", "auth"},
         UNCHANGED <<puzzle, token, granted, passed, doubled>>
  PROVE  CaptchaInv'
<1>1. CaptchaTypeOK'
      BY DEF CaptchaInv, CaptchaTypeOK
<1>2. ASSUME NEW p \in Puzzles \ doubled PROVE Once(p)'
  <2>1. \A c \in Clients : \A at \in SUBSET {"drop", "grant", "spend"} :
          At(c, at, p)' => At(c, at, p) /\ op'[c] = op[c]
        BY DEF At
  <2> QED
        BY <2>1 DEF CaptchaInv, Once, TokenOf
<1> QED
    BY <1>1, <1>2 DEF CaptchaInv

\* What the handlers of captchas and the expiry of their keys do.
LEMMA CaptchaKeeps ==
  ASSUME CaptchaInv, CaptchaEnv \/ \E c \in Clients : CaptchaStep(c)
  PROVE  CaptchaInv'
<1> USE CaptchaAssumption DEF Scenes, Tokens, Idle, Stands, Become, CaptchaTypeOK
<1>1. ASSUME NEW p \in Puzzles, Generate(p) PROVE CaptchaInv'
  <2>1. CaptchaTypeOK'
        BY <1>1 DEF Generate, CaptchaInv
  <2>2. ASSUME NEW q \in Puzzles \ doubled' PROVE Once(q)'
        BY <1>1, <2>2 DEF Generate, CaptchaInv, Once, At, TokenOf
  <2> QED
        BY <2>1, <2>2 DEF CaptchaInv
<1>2. ASSUME NEW p \in Puzzles, PuzzleExpires(p) PROVE CaptchaInv'
  <2>1. CaptchaTypeOK'
        BY <1>2 DEF PuzzleExpires, CaptchaInv
  <2>2. ASSUME NEW q \in Puzzles \ doubled' PROVE Once(q)'
        BY <1>2, <2>2 DEF PuzzleExpires, CaptchaInv, Once, At, TokenOf
  <2> QED
        BY <2>1, <2>2 DEF CaptchaInv
<1>3. ASSUME NEW t \in Tokens, TokenExpires(t) PROVE CaptchaInv'
  <2>1. CaptchaTypeOK'
        BY <1>3 DEF TokenExpires, CaptchaInv
  <2>2. ASSUME NEW q \in Puzzles \ doubled' PROVE Once(q)'
        BY <1>3, <2>2 DEF TokenExpires, CaptchaInv, Once, At, TokenOf
  <2> QED
        BY <2>1, <2>2 DEF CaptchaInv
<1>4. ASSUME NEW c \in Clients, NEW p \in Puzzles, VerifyReads(c, p) PROVE CaptchaInv'
  <2>1. CaptchaTypeOK'
        BY <1>4 DEF VerifyReads, CaptchaInv
  <2>2. ASSUME NEW q \in Puzzles \ doubled' PROVE Once(q)'
    <3>1. q \in Puzzles \ doubled /\ Once(q)
          BY <1>4, <2>2 DEF VerifyReads, CaptchaInv
    <3>2. CASE q # p
          BY <1>4, <3>1, <3>2 DEF VerifyReads, CaptchaInv, Once, At, TokenOf
    <3>3. CASE q = p
      <4>1. \A d \in Clients \ {c} : ~At(d, {"drop", "grant", "spend"}, p)
        <5>1. \A d \in Clients \ {c} : ~At(d, {"grant", "spend"}, p)
              BY <1>4, <3>1, <3>3 DEF VerifyReads, Once
        <5>2. \A d \in Clients \ {c} : ~At(d, {"drop"}, p)
              BY <1>4, <2>2, <3>3 DEF VerifyReads, Reading, CaptchaInv, At
        <5> QED
              BY <5>1, <5>2 DEF At
      <4> QED
            BY <1>4, <3>1, <3>3, <4>1 DEF VerifyReads, CaptchaInv, Once, At, TokenOf
    <3> QED
          BY <3>2, <3>3
  <2> QED
        BY <2>1, <2>2 DEF CaptchaInv
<1>5. ASSUME NEW c \in Clients, VerifyDrops(c) PROVE CaptchaInv'
  <2>1. CaptchaTypeOK'
        BY <1>5 DEF VerifyDrops, CaptchaInv
  <2>2. ASSUME NEW q \in Puzzles \ doubled' PROVE Once(q)'
        BY <1>5, <2>2 DEF VerifyDrops, CaptchaInv, Once, At, TokenOf
  <2> QED
        BY <2>1, <2>2 DEF CaptchaInv
<1>6. ASSUME NEW c \in Clients, VerifyGrants(c) PROVE CaptchaInv'
  <2>1. CaptchaTypeOK'
        BY <1>6 DEF VerifyGrants, CaptchaInv
  <2>2. ASSUME NEW q \in Puzzles \ doubled' PROVE Once(q)'
    <3>1. /\ q \in Puzzles \ doubled /\ Once(q)
          /\ op[c].at = "grant" /\ op[c].puzzle \in Puzzles /\ op[c].scene \in Scenes
          /\ UNCHANGED <<puzzle, passed>>
          BY <1>6, <2>2 DEF VerifyGrants, CaptchaInv
    <3>2. \A d \in Clients \ {c} : op'[d] = op[d]
          BY <1>6 DEF VerifyGrants, CaptchaInv
    <3>3. \A d \in Clients, at \in SUBSET {"drop", "grant", "spend"} :
            At(d, at, q)' => d # c /\ op'[d] = op[d] /\ At(d, at, q)
          BY <1>6, <3>2 DEF VerifyGrants, CaptchaInv, At
    <3>4. CASE UNCHANGED <<granted, token>>
          BY <3>1, <3>3, <3>4 DEF Once, TokenOf
    <3>5. CASE /\ granted < MaxTokens /\ granted' = granted + 1
               /\ token' = [token EXCEPT ![granted + 1] =
                               [scene |-> op[c].scene, puzzle |-> op[c].puzzle]]
      <4>1. /\ granted + 1 \in Tokens
            /\ \A t \in Tokens : t # granted + 1 => token'[t] = token[t]
            /\ token'[granted + 1].puzzle = op[c].puzzle
            BY <3>5 DEF CaptchaInv
      <4>2. CASE q # op[c].puzzle
        <5>1. \A t \in Tokens : TokenOf(t, q)' <=> TokenOf(t, q)
              BY <3>5, <4>1, <4>2 DEF TokenOf, CaptchaInv
        <5>2. \A t \in Tokens : TokenOf(t, q) => token'[t] = token[t]
              BY <4>1 DEF TokenOf, CaptchaInv
        <5> QED
              BY <3>1, <3>3, <5>1, <5>2 DEF Once
      <4>3. CASE q = op[c].puzzle
        <5>1. /\ At(c, {"drop", "grant"}, q) /\ At(c, {"grant", "spend"}, q)
              BY <3>1, <4>3 DEF At
        <5>2. /\ puzzle[q] = "gone" /\ passed[q] = 0
              /\ \A t \in Tokens : ~TokenOf(t, q)
              /\ \A d \in Clients \ {c} : ~At(d, {"drop", "grant"}, q)
              /\ \A d \in Clients : ~At(d, {"spend"}, q)
              BY <3>1, <5>1 DEF Once
        <5>3. \A t \in Tokens : TokenOf(t, q)' <=> t = granted + 1
              BY <3>5, <4>1, <4>3, <5>2 DEF TokenOf, CaptchaInv
        <5>4. \A d \in Clients : ~At(d, {"drop", "grant"}, q)' /\ ~At(d, {"spend"}, q)'
              BY <3>3, <5>2
        <5> QED
              BY <3>1, <5>2, <5>3, <5>4 DEF Once
      <4> QED
            BY <4>2, <4>3
    <3> QED
          BY <1>6, <3>4, <3>5 DEF VerifyGrants
  <2> QED
        BY <2>1, <2>2 DEF CaptchaInv
<1>7. ASSUME NEW c \in Clients, NEW t \in Tokens, SpendReads(c, t) PROVE CaptchaInv'
  <2>1. CaptchaTypeOK'
        BY <1>7 DEF SpendReads, CaptchaInv
  <2>2. ASSUME NEW q \in Puzzles \ doubled' PROVE Once(q)'
        BY <1>7, <2>2 DEF SpendReads, Reading, CaptchaInv, Once, At, TokenOf
  <2> QED
        BY <2>1, <2>2 DEF CaptchaInv
<1>8. ASSUME NEW c \in Clients, SpendDrops(c) PROVE CaptchaInv'
  <2>1. CaptchaTypeOK'
    <3>1. /\ op[c] \in [at : {"spend"}, scene : Scenes, puzzle : Puzzles, token : 1..granted]
          /\ op' = [op EXCEPT ![c] = [op[c] EXCEPT !.at = "pass"]]
          /\ [op[c] EXCEPT !.at = "pass"] \in
               [at : {"pass"}, scene : Scenes, puzzle : Puzzles, token : 0..MaxTokens]
          /\ UNCHANGED granted
          BY <1>8 DEF SpendDrops, Pass, CaptchaInv
    <3>2. /\ op' \in [Clients -> {Idle} \cup
                         [at : {"drop", "grant", "spend", "pass", "auth"},
                          scene : Scenes, puzzle : Puzzles, token : 0..MaxTokens]]
          /\ \A d \in Clients :
               /\ op'[d].at = "drop" => op'[d].token = 0
               /\ op'[d].at = "spend" => op'[d].token \in 1..granted
          BY <3>1 DEF CaptchaInv
    <3>3. passed' \in [Puzzles -> 0..2]
          BY <1>8, <3>1 DEF SpendDrops, Pass, CaptchaInv
    <3>4. doubled' \subseteq Puzzles
          BY <1>8, <3>1 DEF SpendDrops, CaptchaInv
    <3>5. /\ token' \in [Tokens -> [scene : Scenes \cup {"none", "gone"},
                                    puzzle : Puzzles \cup {"none"}]]
          /\ \A t \in Tokens : IF t <= granted THEN token'[t].puzzle \in Puzzles
                                               ELSE token'[t].scene = "none"
      <4>1. CASE UNCHANGED token
            BY <4>1 DEF CaptchaInv
      <4>2. CASE token' = [token EXCEPT ![op[c].token].scene = "gone"]
        <5> DEFINE u == op[c].token
        <5>1. u \in Tokens /\ u <= granted
              BY <3>1 DEF CaptchaInv
        <5>2. /\ [token[u] EXCEPT !.scene = "gone"] \in
                   [scene : {"gone"}, puzzle : Puzzles \cup {"none"}]
              /\ [token[u] EXCEPT !.scene = "gone"].puzzle = token[u].puzzle
              BY <5>1 DEF CaptchaInv
        <5>3. token' = [token EXCEPT ![u] = [token[u] EXCEPT !.scene = "gone"]]
              BY <4>2, <5>1 DEF CaptchaInv
        <5> HIDE DEF u
        <5> QED
              BY <5>1, <5>2, <5>3 DEF CaptchaInv
      <4> QED
            BY <1>8, <4>1, <4>2 DEF SpendDrops
    <3> QED
          BY <1>8, <3>1, <3>2, <3>3, <3>4, <3>5 DEF SpendDrops, CaptchaInv
  <2>2. ASSUME NEW q \in Puzzles \ doubled' PROVE Once(q)'
    <3> DEFINE u == op[c].token  p == op[c].puzzle
    <3>1. /\ q \in Puzzles \ doubled /\ Once(q)
          /\ op[c].at = "spend" /\ p \in Puzzles /\ u \in Tokens
          /\ UNCHANGED <<puzzle, granted>>
          BY <1>8, <2>2 DEF SpendDrops, CaptchaInv
    <3>2. /\ \A d \in Clients \ {c} : op'[d] = op[d]
          /\ op'[c].at = "pass"
          BY <1>8, <3>1 DEF SpendDrops, Pass, CaptchaInv
    <3>3. \A d \in Clients, at \in SUBSET {"drop", "grant", "spend"} :
            At(d, at, q)' => d # c /\ op'[d] = op[d] /\ At(d, at, q)
          BY <3>2 DEF At
    <3>4. \A t \in Tokens : token'[t].puzzle = token[t].puzzle
          BY <1>8 DEF SpendDrops, CaptchaInv
    <3>5. \A t \in Tokens : TokenOf(t, q)' <=> TokenOf(t, q)
          BY <3>1, <3>4 DEF TokenOf
    <3>6. CASE q # p
      <4>1. passed'[q] = passed[q]
            BY <1>8, <3>1, <3>6 DEF SpendDrops, Pass, CaptchaInv
      <4>2. \A t \in Tokens : token[t].scene \notin Scenes => token'[t].scene \notin Scenes
            BY <1>8, <3>1 DEF SpendDrops, CaptchaInv
      <4> QED
            BY <3>1, <3>3, <3>5, <4>1, <4>2 DEF Once
    <3>7. CASE q = p
      <4>1. At(c, {"spend"}, q) /\ At(c, {"grant", "spend"}, q)
            BY <3>1, <3>7 DEF At
      <4>2. /\ puzzle[q] = "gone" /\ passed[q] = 0 /\ TokenOf(u, q)
            /\ \A t \in Tokens : TokenOf(t, q) => t = u
            /\ \A d \in Clients : ~At(d, {"drop", "grant"}, q)
            /\ \A d \in Clients \ {c} : ~At(d, {"spend"}, q)
            BY <3>1, <4>1 DEF Once
      <4>3. /\ token' = [token EXCEPT ![u].scene = "gone"]
            /\ passed'[q] = 1
            BY <1>8, <2>2, <3>1, <3>7, <4>2 DEF SpendDrops, Pass, CaptchaInv
      <4>4. token'[u].scene = "gone"
            BY <3>1, <4>3 DEF CaptchaInv
      <4>5. \A d \in Clients : ~At(d, {"drop", "grant"}, q)' /\ ~At(d, {"spend"}, q)'
            BY <3>3, <4>2
      <4> HIDE DEF u, p
      <4> QED
            BY <3>1, <3>5, <4>2, <4>3, <4>4, <4>5 DEF Once
    <3> QED
          BY <3>6, <3>7
  <2> QED
        BY <2>1, <2>2 DEF CaptchaInv
<1> QED
    BY <1>1, <1>2, <1>3, <1>4, <1>5, <1>6, <1>7, <1>8 DEF CaptchaEnv, CaptchaStep

-----------------------------------------------------------------------------
(* The exchange of keys.                                                   *)

ExAt(c, places, s) == ex[c].at \in places /\ ex[c].session = s

\* A session whose pair was read once belongs to one client: nobody has anything
\* of it while the pair is there, one client completes the exchange, and what is
\* stored is that client's key.
OneOwner(s) ==
  /\ pair[s] # "gone" =>
       /\ \A c \in Clients : ~ExAt(c, {"store", "expire"}, s)
       /\ agreed[s] = {} /\ ~Kept(s)
  /\ \A c, d \in Clients : ExAt(c, {"drop", "store", "expire"}, s)
                          /\ ExAt(d, {"drop", "store", "expire"}, s) => c = d
  /\ \A c \in Clients : ExAt(c, {"drop", "store", "expire"}, s) => agreed[s] = {}
  /\ \A c \in Clients : ExAt(c, {"drop", "store"}, s) => ~Kept(s)
  /\ \A c \in Clients :
       c \in agreed[s] \/ ExAt(c, {"expire"}, s) => (Kept(s) => secret[s].key = c)

KeyInv ==
  /\ KeyTypeOK
  /\ \A s \in Sessions \ contested : OneOwner(s)
  /\ KeyFades

\* No session has begun.
LEMMA InitKeyInv == KeyInit => KeyInv
<1> SUFFICES ASSUME KeyInit PROVE KeyInv
    OBVIOUS
<1> USE KeyAssumption DEF KeyInit, Resting, NoSecret, Kept
<1>1. KeyTypeOK
      BY DEF KeyTypeOK
<1>2. ASSUME NEW s \in Sessions PROVE OneOwner(s)
      BY <1>2 DEF OneOwner, ExAt
<1>3. KeyFades
      BY DEF KeyFades
<1> QED
    BY <1>1, <1>2, <1>3 DEF KeyInv

\* What CompleteKeyExchange and the expiry of its keys do.
LEMMA KeyKeeps ==
  ASSUME KeyInv, KeyEnv \/ \E c \in Clients : KeyStep(c)
  PROVE  KeyInv'
<1> USE KeyAssumption DEF Resting, Exchanging, NoSecret, Kept, KeyTypeOK
<1>1. ASSUME NEW s \in Sessions, InitKeyExchange(s) PROVE KeyInv'
  <2>1. KeyTypeOK' /\ KeyFades'
        BY <1>1 DEF InitKeyExchange, KeyInv, KeyFades
  <2>2. ASSUME NEW r \in Sessions \ contested' PROVE OneOwner(r)'
        BY <1>1, <2>2 DEF InitKeyExchange, KeyInv, OneOwner, ExAt
  <2> QED
        BY <2>1, <2>2 DEF KeyInv
<1>2. ASSUME NEW s \in Sessions, PairExpires(s) PROVE KeyInv'
  <2>1. KeyTypeOK' /\ KeyFades'
        BY <1>2 DEF PairExpires, KeyInv, KeyFades
  <2>2. ASSUME NEW r \in Sessions \ contested' PROVE OneOwner(r)'
        BY <1>2, <2>2 DEF PairExpires, KeyInv, OneOwner, ExAt
  <2> QED
        BY <2>1, <2>2 DEF KeyInv
<1>3. ASSUME NEW s \in Sessions, KeyExpires(s) PROVE KeyInv'
  <2>1. KeyTypeOK' /\ KeyFades'
        BY <1>3 DEF KeyExpires, KeyInv, KeyFades
  <2>2. ASSUME NEW r \in Sessions \ contested' PROVE OneOwner(r)'
    <3>1. /\ r \in Sessions \ contested /\ OneOwner(r)
          /\ secret'[r] = secret[r] \/ ~Kept(r)'
          /\ UNCHANGED <<pair, ex, agreed>>
          BY <1>3, <2>2 DEF KeyExpires, KeyInv
    <3> HIDE DEF NoSecret
    <3> QED
          BY <3>1 DEF OneOwner, ExAt
  <2> QED
        BY <2>1, <2>2 DEF KeyInv
<1>4. ASSUME NEW c \in Clients, NEW s \in Sessions, CompleteReads(c, s) PROVE KeyInv'
  <2>1. KeyTypeOK' /\ KeyFades'
        BY <1>4 DEF CompleteReads, KeyInv, KeyFades
  <2>2. ASSUME NEW r \in Sessions \ contested' PROVE OneOwner(r)'
        BY <1>4, <2>2 DEF CompleteReads, KeyInv, OneOwner, ExAt
  <2> QED
        BY <2>1, <2>2 DEF KeyInv
<1>5. ASSUME NEW c \in Clients, CompleteDrops(c) PROVE KeyInv'
  <2>1. KeyTypeOK' /\ KeyFades'
    <3>1. KeyTypeOK'
          BY <1>5 DEF CompleteDrops, KeyInv
    <3>2. \A d \in Clients : ex[d].at = "expire" => ex'[d] = ex[d]
          BY <1>5 DEF CompleteDrops, KeyInv
    <3>3. UNCHANGED <<secret, forgotten>>
          BY <1>5 DEF CompleteDrops
    <3> QED
          BY <3>1, <3>2, <3>3 DEF KeyInv, KeyFades
  <2>2. ASSUME NEW r \in Sessions \ contested' PROVE OneOwner(r)'
    <3>1. /\ r \in Sessions \ contested /\ OneOwner(r)
          /\ ex[c].at = "drop" /\ ex[c].session \in Sessions
          /\ UNCHANGED <<secret, agreed>>
          BY <1>5, <2>2 DEF CompleteDrops, KeyInv
    <3>2. /\ \A d \in Clients \ {c} : ex'[d] = ex[d]
          /\ \/ ex'[c].at = "idle"
             \/ ex'[c].at = "store" /\ ex'[c].session = ex[c].session
      <4> DEFINE stores == [ex[c] EXCEPT !.at = "store"]
      <4>1. ex[c] \in [at : {"drop"}, session : Sessions]
            BY <3>1 DEF KeyInv
      <4>2. stores.at = "store" /\ stores.session = ex[c].session
            BY <4>1
      <4>3. ex' = [ex EXCEPT ![c] = stores] \/ ex' = [ex EXCEPT ![c] = Resting]
            BY <1>5 DEF CompleteDrops, KeyInv
      <4>4. Resting.at = "idle"
            OBVIOUS
      <4> HIDE DEF stores, Resting
      <4> QED
            BY <4>2, <4>3, <4>4 DEF KeyInv
    <3>3. pair'[r] = IF r = ex[c].session THEN "gone" ELSE pair[r]
          BY <1>5, <2>2, <3>1 DEF CompleteDrops, KeyInv
    <3> HIDE DEF NoSecret, KeyTypeOK
    <3>4. CASE r # ex[c].session
          BY <3>1, <3>2, <3>3, <3>4 DEF OneOwner, ExAt
    <3>5. CASE r = ex[c].session
      <4>1. ExAt(c, {"drop", "store", "expire"}, r) /\ ExAt(c, {"drop", "store"}, r)
            BY <3>1, <3>5 DEF ExAt
      <4>2. /\ agreed[r] = {} /\ ~Kept(r)
            /\ \A d \in Clients \ {c} : ~ExAt(d, {"drop", "store", "expire"}, r)
            BY <3>1, <4>1 DEF OneOwner
      <4>3. \A d \in Clients \ {c} : ~ExAt(d, {"drop", "store", "expire"}, r)'
            BY <3>2, <4>2 DEF ExAt
      <4> QED
            BY <3>1, <3>3, <3>5, <4>2, <4>3 DEF OneOwner, ExAt
    <3> QED
          BY <3>4, <3>5
  <2> QED
        BY <2>1, <2>2 DEF KeyInv
<1>6. ASSUME NEW c \in Clients, CompleteStores(c) PROVE KeyInv'
  <2> DEFINE s == ex[c].session
             mine == [key |-> c, ttl |-> FALSE]
  <2>1. CASE ex' = [ex EXCEPT ![c] = Resting] /\ UNCHANGED secret
    <3>1. KeyTypeOK' /\ KeyFades'
          BY <1>6, <2>1 DEF CompleteStores, KeyInv, KeyFades
    <3>2. ASSUME NEW r \in Sessions \ contested' PROVE OneOwner(r)'
          BY <1>6, <2>1, <3>2 DEF CompleteStores, KeyInv, OneOwner, ExAt
    <3> QED
          BY <3>1, <3>2 DEF KeyInv
  <2>2. CASE /\ secret' = [secret EXCEPT ![s] = mine]
             /\ ex' = [ex EXCEPT ![c].at = "expire"]
    <3>1. /\ s \in Sessions /\ ex[c].at = "store"
          /\ mine \in [key : Clients \cup {NoKey}, ttl : BOOLEAN]
          /\ mine.key = c /\ ~mine.ttl /\ c # NoKey
          /\ UNCHANGED <<pair, agreed, contested, forgotten>>
          BY <1>6 DEF CompleteStores, KeyInv
    <3>2. /\ ex' = [ex EXCEPT ![c] = Exchanging("expire", s)]
          /\ Exchanging("expire", s).at = "expire" /\ Exchanging("expire", s).session = s
          /\ Exchanging("expire", s) \in [at : {"expire"}, session : Sessions]
      <4>1. ex[c] \in [at : {"store"}, session : Sessions]
            BY <3>1 DEF KeyInv
      <4>2. [ex[c] EXCEPT !.at = "expire"] = Exchanging("expire", s)
            BY <4>1
      <4>3. ex' = [ex EXCEPT ![c] = [ex[c] EXCEPT !.at = "expire"]]
            BY <2>2
      <4> QED
            BY <3>1, <4>2, <4>3
    <3> HIDE DEF mine, s, NoSecret
    <3>3. KeyTypeOK'
          BY <2>2, <3>1, <3>2 DEF KeyInv
    <3> HIDE DEF Exchanging
    <3>4. KeyFades'
      <4> SUFFICES ASSUME NEW r \in Sessions, Kept(r)', ~secret'[r].ttl
                   PROVE  r \in forgotten \/ \E d \in Clients : ex'[d] = Exchanging("expire", r)
          BY <3>1 DEF KeyFades
      <4>1. CASE r = s
            BY <3>2, <4>1 DEF KeyInv
      <4>2. CASE r # s
        <5>1. r \in forgotten \/ \E d \in Clients : ex[d] = Exchanging("expire", r)
              BY <2>2, <4>2 DEF KeyInv, KeyFades
        <5>2. \A d \in Clients : ex[d] = Exchanging("expire", r) => d # c
              BY <3>1 DEF Exchanging
        <5> QED
              BY <3>2, <5>1, <5>2 DEF KeyInv
      <4> QED
            BY <4>1, <4>2
    <3>5. ASSUME NEW r \in Sessions \ contested' PROVE OneOwner(r)'
      <4>1. /\ OneOwner(r)
            /\ \A d \in Clients \ {c} : ex'[d] = ex[d]
            /\ ex'[c].at = "expire" /\ ex'[c].session = s
            BY <3>1, <3>2, <3>5 DEF KeyInv
      <4> HIDE DEF KeyTypeOK
      <4>2. CASE r # s
        <5>1. secret'[r] = secret[r]
              BY <2>2, <4>2, <3>5 DEF KeyInv, KeyTypeOK
        <5> QED
              BY <3>1, <4>1, <4>2, <5>1 DEF OneOwner, ExAt
      <4>3. CASE r = s
        <5>1. /\ ExAt(c, {"store", "expire"}, r) /\ ExAt(c, {"drop", "store", "expire"}, r)
              BY <3>1, <4>3 DEF ExAt, s
        <5>2. /\ pair[r] = "gone" /\ agreed[r] = {}
              /\ \A d \in Clients \ {c} : ~ExAt(d, {"drop", "store", "expire"}, r)
              BY <4>1, <5>1 DEF OneOwner
        <5>3. secret'[r].key = c
              BY <2>2, <3>1, <4>3 DEF KeyInv, KeyTypeOK
        <5>4. \A d \in Clients \ {c} : ~ExAt(d, {"drop", "store", "expire"}, r)'
              BY <4>1, <5>2 DEF ExAt
        <5> QED
              BY <3>1, <4>1, <5>2, <5>3, <5>4 DEF OneOwner, ExAt
      <4> QED
            BY <4>2, <4>3
    <3> QED
          BY <3>3, <3>4, <3>5 DEF KeyInv
  <2> QED
        BY <1>6, <2>1, <2>2 DEF CompleteStores
<1>7. ASSUME NEW c \in Clients, CompleteExpires(c) PROVE KeyInv'
  <2> DEFINE s == ex[c].session
             lives == [secret[s] EXCEPT !.ttl = TRUE]
  <2>1. /\ s \in Sessions /\ ex[c].at = "expire"
        /\ ex' = [ex EXCEPT ![c] = Resting]
        /\ agreed' = [agreed EXCEPT ![s] = @ \cup {c}]
        /\ UNCHANGED <<pair, contested>>
        BY <1>7 DEF CompleteExpires, KeyInv
  <2>2. /\ lives \in [key : Clients \cup {NoKey}, ttl : BOOLEAN]
        /\ lives.key = secret[s].key /\ lives.ttl
        BY <2>1 DEF KeyInv
  <2>3. \/ Kept(s) /\ secret' = [secret EXCEPT ![s] = lives] /\ UNCHANGED forgotten
        \/ ~Kept(s) /\ UNCHANGED <<secret, forgotten>>
        \/ UNCHANGED secret /\ forgotten' = forgotten \cup {s}
        BY <1>7, <2>1 DEF CompleteExpires, KeyInv
  <2> HIDE DEF lives, s, NoSecret
  <2>4. KeyTypeOK'
        BY <2>1, <2>2, <2>3 DEF KeyInv
  <2>5. KeyFades'
    <3> SUFFICES ASSUME NEW r \in Sessions, Kept(r)', ~secret'[r].ttl
                 PROVE  r \in forgotten' \/ \E d \in Clients : ex'[d] = Exchanging("expire", r)
        BY DEF KeyFades
    <3>1. CASE r = s
          BY <2>1, <2>2, <2>3, <3>1 DEF KeyInv
    <3>2. CASE r # s
      <4>1. r \in forgotten \/ \E d \in Clients : ex[d] = Exchanging("expire", r)
            BY <2>3, <3>2 DEF KeyInv, KeyFades
      <4>2. \A d \in Clients : ex[d] = Exchanging("expire", r) => d # c
            BY <3>2 DEF Exchanging, s
      <4> QED
            BY <2>1, <2>3, <4>1, <4>2 DEF KeyInv
    <3> QED
          BY <3>1, <3>2
  <2>6. ASSUME NEW r \in Sessions \ contested' PROVE OneOwner(r)'
    <3>1. /\ OneOwner(r)
          /\ \A d \in Clients \ {c} : ex'[d] = ex[d]
          /\ ex'[c].at = "idle"
          BY <2>1, <2>6 DEF KeyInv
    <3>2. CASE r # s
      <4>1. secret'[r] = secret[r] /\ agreed'[r] = agreed[r]
            BY <2>1, <2>3, <2>6, <3>2 DEF KeyInv
      <4> HIDE DEF KeyTypeOK
      <4> QED
            BY <2>1, <3>1, <3>2, <4>1 DEF OneOwner, ExAt
    <3>3. CASE r = s
      <4>1. /\ ExAt(c, {"store", "expire"}, r) /\ ExAt(c, {"drop", "store", "expire"}, r)
            /\ ExAt(c, {"expire"}, r)
            BY <2>1, <3>3 DEF ExAt, s
      <4>2. /\ pair[r] = "gone" /\ agreed[r] = {}
            /\ \A d \in Clients \ {c} : ~ExAt(d, {"drop", "store", "expire"}, r)
            /\ Kept(r) => secret[r].key = c
            BY <3>1, <4>1 DEF OneOwner
      <4>3. agreed'[r] = {c} /\ (Kept(r)' => secret'[r].key = c)
            BY <2>1, <2>2, <2>3, <2>6, <3>3, <4>2 DEF KeyInv
      <4> HIDE DEF KeyTypeOK
      <4>4. \A d \in Clients : ~ExAt(d, {"drop", "store", "expire"}, r)'
            BY <3>1, <4>2 DEF ExAt
      <4> QED
            BY <2>1, <4>2, <4>3, <4>4 DEF OneOwner, ExAt
    <3> QED
          BY <3>2, <3>3
  <2> QED
        BY <2>4, <2>5, <2>6 DEF KeyInv
<1> QED
    BY <1>1, <1>2, <1>3, <1>4, <1>5, <1>6, <1>7 DEF KeyEnv, KeyStep

-----------------------------------------------------------------------------
\* What one half of a login leaves alone keeps its invariant.
LEMMA Untouched ==
  /\ CaptchaInv /\ UNCHANGED captchavars => CaptchaInv'
  /\ KeyInv /\ UNCHANGED keyvars => KeyInv'
<1>1. ASSUME CaptchaInv, UNCHANGED captchavars PROVE CaptchaInv'
      BY <1>1 DEF captchavars, CaptchaInv, CaptchaTypeOK, Once, At, TokenOf
<1>2. ASSUME KeyInv, UNCHANGED keyvars PROVE KeyInv'
      BY <1>2 DEF keyvars, KeyInv, KeyTypeOK, OneOwner, ExAt, KeyFades, Kept
<1> QED
    BY <1>1, <1>2

\* The process dies: both invariants outlive the requests it was busy with.
LEMMA RestartKeeps == CaptchaInv /\ KeyInv /\ Restart => CaptchaInv' /\ KeyInv'
<1> SUFFICES ASSUME CaptchaInv, KeyInv, Restart PROVE CaptchaInv' /\ KeyInv'
    OBVIOUS
<1>1. CaptchaInv'
      BY LeaveKeeps DEF Restart, Idle
<1>2. KeyTypeOK'
      BY DEF Restart, KeyInv, KeyTypeOK, Resting, Kept
<1>3. ASSUME NEW s \in Sessions \ contested' PROVE OneOwner(s)'
      BY <1>3 DEF Restart, Resting, KeyInv, OneOwner, ExAt, Kept
<1>4. KeyFades'
  <2> SUFFICES ASSUME NEW s \in Sessions, Kept(s), ~secret[s].ttl
               PROVE  s \in forgotten'
      BY DEF Restart, KeyFades, Kept
  <2>1. s \in forgotten \/ \E c \in Clients : ex[c] = Exchanging("expire", s)
        BY DEF KeyInv, KeyFades
  <2> QED
        BY <2>1 DEF Restart, Exchanging
<1> QED
    BY <1>1, <1>2, <1>3, <1>4 DEF KeyInv

\* Every step keeps both.
LEMMA NextKeeps == CaptchaInv /\ KeyInv /\ [Next]_vars => CaptchaInv' /\ KeyInv'
<1> SUFFICES ASSUME CaptchaInv, KeyInv, [Next]_vars PROVE CaptchaInv' /\ KeyInv'
    OBVIOUS
<1>1. CASE UNCHANGED vars
      BY <1>1, Untouched DEF vars
<1>2. ASSUME NEW c \in Clients, CaptchaStep(c), UNCHANGED keyvars
      PROVE  CaptchaInv' /\ KeyInv'
      BY <1>2, Untouched, CaptchaKeeps
<1>3. ASSUME NEW c \in Clients, KeyStep(c), UNCHANGED captchavars
      PROVE  CaptchaInv' /\ KeyInv'
      BY <1>3, Untouched, KeyKeeps
<1>4. ASSUME NEW c \in Clients, Decrypt(c) PROVE CaptchaInv' /\ KeyInv'
  <2>1. op[c] \in [at : {"pass"}, scene : Scenes, puzzle : Puzzles, token : 0..MaxTokens]
        BY <1>4 DEF Decrypt, CaptchaInv, CaptchaTypeOK, Idle
  <2>2. \E step \in {Idle, [op[c] EXCEPT !.at = "auth"]} : Become(c, step)
        BY <1>4 DEF Decrypt
  <2>3. CASE Become(c, Idle)
        BY <1>4, <2>3, LeaveKeeps, Untouched
           DEF Decrypt, Become, Idle, CaptchaInv, CaptchaTypeOK
  <2>4. CASE Become(c, [op[c] EXCEPT !.at = "auth"])
        BY <1>4, <2>1, <2>4, LeaveKeeps, Untouched
           DEF Decrypt, Become, Idle, CaptchaInv, CaptchaTypeOK
  <2> QED
        BY <2>2, <2>3, <2>4
<1>5. ASSUME NEW c \in Clients, Answer(c) PROVE CaptchaInv' /\ KeyInv'
      BY <1>5, LeaveKeeps, Untouched DEF Answer, Become, Idle, CaptchaInv, CaptchaTypeOK
<1>6. CASE RedisExpires
      BY <1>6, Untouched, CaptchaKeeps, KeyKeeps DEF RedisExpires
<1>7. CASE Restart
      BY <1>7, RestartKeeps
<1> QED
    BY <1>1, <1>2, <1>3, <1>4, <1>5, <1>6, <1>7 DEF Next, Step

\* Both invariants hold throughout.
LEMMA Invariance == Spec => [](CaptchaInv /\ KeyInv)
<1>1. Init => CaptchaInv /\ KeyInv
      BY InitCaptchaInv, InitKeyInv DEF Init
<1> QED
    BY <1>1, NextKeeps, PTL DEF Spec

-----------------------------------------------------------------------------
\* Every variable of the two protocols keeps its type.
THEOREM TypeCorrect == Spec => [](CaptchaTypeOK /\ KeyTypeOK)
<1>1. CaptchaInv /\ KeyInv => CaptchaTypeOK /\ KeyTypeOK
      BY DEF CaptchaInv, KeyInv
<1> QED
      BY <1>1, Invariance, PTL

\* A puzzle solved gets one request past VerifyCaptchaToken, whatever overlaps,
\* fails or dies, as long as it and its token were each read once.
THEOREM PuzzlesPassOnce == Spec => []OneUsePerPuzzle
<1>1. CaptchaInv => OneUsePerPuzzle
      BY DEF CaptchaInv, CaptchaTypeOK, Once, OneUsePerPuzzle
<1> QED
    BY <1>1, Invariance, PTL

\* A client CompleteKeyExchange has answered finds its own key in the session.
THEOREM KeysAgree == Spec => []KeyAgrees
<1>1. KeyInv => KeyAgrees
      BY DEF KeyInv, KeyTypeOK, OneOwner, KeyAgrees, Readable
<1> QED
    BY <1>1, Invariance, PTL

\* No session key stays in Redis for ever, but one whose EXPIRE was lost.
THEOREM KeysFade == Spec => []KeyFades
<1>1. KeyInv => KeyFades
      BY DEF KeyInv
<1> QED
    BY <1>1, Invariance, PTL
=============================================================================
