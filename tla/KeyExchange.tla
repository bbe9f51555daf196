---------------------------- MODULE KeyExchange -----------------------------
(***************************************************************************)
(* The exchange of a session key (services/crypto.go): the server makes a  *)
(* key pair for a session and keeps the private half in Redis, a client    *)
(* sends its AES key under the public half, and what it encrypts from then *)
(* on is read with the key Redis holds for the session.                    *)
(*                                                                         *)
(* A client's AES key is named by the client.                              *)
(***************************************************************************)
EXTENDS Captcha   \* the same clients

CONSTANTS Sessions, NoKey

ASSUME KeyAssumption == NoKey \notin Clients

VARIABLES pair,       \* pair[s]: whether Redis holds the private key of session s
          secret,     \* secret[s]: the AES key of the session, and if it has a TTL
          ex,         \* ex[c]: where client c's CompleteKeyExchange stands
          agreed,     \* agreed[s]: the clients that were told it succeeded
          contested,  \* ghost: sessions whose pair was read twice or not removed
          forgotten   \* ghost: sessions whose AES key was left without a TTL

keyvars == <<pair, secret, ex, agreed, contested, forgotten>>

Resting == [at |-> "idle"]
Exchanging(at, s) == [at |-> at, session |-> s]
NoSecret == [key |-> NoKey, ttl |-> FALSE]
Kept(s) == secret[s].key # NoKey

KeyInit ==
  /\ pair = [s \in Sessions |-> "new"]
  /\ secret = [s \in Sessions |-> NoSecret]
  /\ ex = [c \in Clients |-> Resting]
  /\ agreed = [s \in Sessions |-> {}]
  /\ contested = {}
  /\ forgotten = {}

\* A key pair that lives a minute, under a session id of its own.
InitKeyExchange(s) ==
  /\ pair[s] = "new"
  /\ pair' = [pair EXCEPT ![s] = "kept"]
  /\ UNCHANGED <<secret, ex, agreed, contested, forgotten>>

-----------------------------------------------------------------------------
(* CompleteKeyExchange.                                                    *)

CompleteReads(c, s) ==
  /\ ex[c] = Resting /\ pair[s] = "kept"
  /\ ex' = [ex EXCEPT ![c] = Exchanging("drop", s)]
  /\ contested' = IF \E d \in Clients \ {c} : ex[d] = Exchanging("drop", s)
                  THEN contested \cup {s} ELSE contested
  /\ UNCHANGED <<pair, secret, agreed, forgotten>>
\* A DEL that fails is a warning.  A key that does not decrypt ends the request,
\* with the pair gone.
CompleteKeepsPair(c) ==
  /\ ex[c].at = "drop"
  /\ ex' = [ex EXCEPT ![c] = Exchanging("store", ex[c].session)]
  /\ UNCHANGED <<pair, secret, agreed, contested, forgotten>>
CompleteDrops(c) ==
  /\ ex[c].at = "drop"
  /\ \/ pair' = [pair EXCEPT ![ex[c].session] = "gone"] /\ UNCHANGED contested
     \/ contested' = contested \cup {ex[c].session} /\ UNCHANGED pair
  /\ ex' = [ex EXCEPT ![c].at = "store"] \/ ex' = [ex EXCEPT ![c] = Resting]
  /\ UNCHANGED <<secret, agreed, forgotten>>
CompleteStores(c) ==
  /\ ex[c].at = "store"
  /\ \/ /\ secret' = [secret EXCEPT ![ex[c].session] = [key |-> c, ttl |-> FALSE]]
        /\ ex' = [ex EXCEPT ![c].at = "expire"]
     \/ ex' = [ex EXCEPT ![c] = Resting] /\ UNCHANGED secret
  /\ UNCHANGED <<pair, agreed, contested, forgotten>>
\* The TTL comes with a second call, whose failure is a warning too.  EXPIRE of
\* a key that is gone changes nothing.
CompleteNeverExpires(c) ==
  /\ ex[c].at = "expire"
  /\ ex' = [ex EXCEPT ![c] = Resting]
  /\ agreed' = [agreed EXCEPT ![ex[c].session] = @ \cup {c}]
  /\ UNCHANGED <<pair, secret, contested, forgotten>>
CompleteExpires(c) ==
  /\ ex[c].at = "expire"
  /\ LET s == ex[c].session
     IN \/ /\ IF Kept(s) THEN secret' = [secret EXCEPT ![s].ttl = TRUE]
                         ELSE UNCHANGED secret
           /\ UNCHANGED forgotten
        \/ forgotten' = forgotten \cup {s} /\ UNCHANGED secret
  /\ ex' = [ex EXCEPT ![c] = Resting]
  /\ agreed' = [agreed EXCEPT ![ex[c].session] = @ \cup {c}]
  /\ UNCHANGED <<pair, contested>>

\* GetAESKey, under DecryptWithAES: what client c encrypted can be read.
Readable(c, s) == secret[s].key = c

PairExpires(s) ==
  /\ pair[s] = "kept"
  /\ pair' = [pair EXCEPT ![s] = "gone"]
  /\ UNCHANGED <<secret, ex, agreed, contested, forgotten>>
KeyExpires(s) ==
  /\ secret[s].ttl
  /\ secret' = [secret EXCEPT ![s] = NoSecret]
  /\ UNCHANGED <<pair, ex, agreed, contested, forgotten>>

KeyStep(c) ==
  \/ \E s \in Sessions : CompleteReads(c, s)
  \/ CompleteDrops(c) \/ CompleteStores(c) \/ CompleteExpires(c)
KeyEnv == \E s \in Sessions : InitKeyExchange(s) \/ PairExpires(s) \/ KeyExpires(s)

\* Every variable keeps its type.
KeyTypeOK ==
  /\ pair \in [Sessions -> {"new", "kept", "gone"}]
  /\ secret \in [Sessions -> [key : Clients \cup {NoKey}, ttl : BOOLEAN]]
  /\ \A s \in Sessions : secret[s].ttl => Kept(s)
  /\ ex \in [Clients -> {Resting} \cup
                          [at : {"drop", "store", "expire"}, session : Sessions]]
  /\ agreed \in [Sessions -> SUBSET Clients]
  /\ contested \subseteq Sessions /\ forgotten \subseteq Sessions
=============================================================================
