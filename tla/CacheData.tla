----------------------------- MODULE CacheData -----------------------------
(***************************************************************************)
(* The cache-aside helper every service reads through (cache/base.go):     *)
(* GET, on a miss query the database, then SET with a time to live.  The   *)
(* query and the SET are two steps, and a writer may come between them.    *)
(*                                                                         *)
(* "raced" is a ghost: the answer was queried while, or before, a writer   *)
(* was changing what it is about, and reached Redis after the writer's     *)
(* DEL, or the DEL itself failed.  One caller fills a key at a time; two   *)
(* overlapping fills leave what the slower one alone would have left.      *)
(***************************************************************************)
CONSTANT Keys

VARIABLES cached,    \* cached[k]: the entry Redis holds under k
          fill       \* fill[k]: a CacheData call between its query and its SET

None == [absent |-> TRUE]
Entry(answer, raced) == [data |-> answer, raced |-> raced]
Entries(answers) == {None} \cup {Entry(a, r) : a \in answers, r \in BOOLEAN}

CacheInit == cached = [k \in Keys |-> None] /\ fill = [k \in Keys |-> None]

Raced(e) == IF e = None THEN None ELSE [e EXCEPT !.raced = TRUE]

\* A miss, or a GET that fails while there is an entry: the query runs, in the
\* middle of a writer's work or not.
Miss(k, answer, overlapped) ==
  /\ fill[k] = None
  /\ fill' = [fill EXCEPT ![k] = Entry(answer, overlapped)]
  /\ UNCHANGED cached
Store(k) ==
  /\ fill[k] # None
  /\ cached' = [cached EXCEPT ![k] = fill[k]]
  /\ fill' = [fill EXCEPT ![k] = None]
\* The SET failed: the caller has its answer, Redis has none.
StoreFails(k) ==
  /\ fill[k] # None
  /\ fill' = [fill EXCEPT ![k] = None]
  /\ UNCHANGED cached
ExpireNever(k) == FALSE /\ UNCHANGED <<cached, fill>>
Expire(k) ==
  /\ cached[k] # None
  /\ cached' = [cached EXCEPT ![k] = None]
  /\ UNCHANGED fill

\* What a writer does: its statement overtakes the fill of k in flight, and its
\* DEL removes the entry, or fails with a log line.
Overtake(k) == fill' = [fill EXCEPT ![k] = Raced(@)]
Invalidate(k) ==
  \/ cached' = [cached EXCEPT ![k] = None]
  \/ cached' = [cached EXCEPT ![k] = Raced(@)]

\* The same for the keys a pattern names, unlinked by one call of a function.
OvertakeAll(ks) == fill' = [k \in Keys |-> IF k \in ks THEN Raced(fill[k]) ELSE fill[k]]
InvalidateAll(ks) ==
  \/ cached' = [k \in Keys |-> IF k \in ks THEN None ELSE cached[k]]
  \/ cached' = [k \in Keys |-> IF k \in ks THEN Raced(cached[k]) ELSE cached[k]]

CacheStep(k) == Store(k) \/ StoreFails(k) \/ Expire(k)
=============================================================================
