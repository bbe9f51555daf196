--------------------------- MODULE SummaryStream ---------------------------
(***************************************************************************)
(* The AI summary of one submission (api/rest/treehole_submission_summary, *)
(* ai/submission_summary.go, cache/lock.go): requests that stream it to    *)
(* their clients, a draft in Redis that grows with the stream, the row in  *)
(* the database, and the Redis lock meant to let one request generate at a *)
(* time.  Another submission has other keys and another row.               *)
(*                                                                         *)
(* The text is a sequence of chunks; the i-th chunk of request r is <<r, i>>. *)
(***************************************************************************)
EXTENDS Naturals, Sequences, FiniteSets

CONSTANTS Requests,
          MaxChunks,    \* bound: chunks of one answer of the model
          RedisFails    \* whether SETNX may return an error

ASSUME StreamAssumption == MaxChunks \in Nat /\ RedisFails \in BOOLEAN

VARIABLES lock,      \* the lock key exists in Redis
          req,       \* req[r]: where request r stands, and the text it has built
          draft,     \* the summary key in Redis; nothing else reads it
          row,       \* treehole_submission_summaries: no row, or the one text
          lapsed     \* ghost: the lock failed somebody since all were idle

vars == <<lock, req, draft, row, lapsed>>

Fresh == [at |-> "new", text |-> <<>>]

Init ==
  /\ lock = FALSE
  /\ req = [r \in Requests |-> Fresh]
  /\ draft = <<>> /\ row = {}
  /\ lapsed = FALSE

-----------------------------------------------------------------------------
Busy == {r \in Requests : req[r].at \notin {"new", "done", "failed", "refused", "lost"}}
Goto(r, at) == req' = [req EXCEPT ![r].at = at]

\* AcquireSummaryLock: SETNX; on an error, whether Redis has set the key or not,
\* the request goes on as if it held the lock.
AcquireAlways(r) ==
  /\ req[r].at = "new"
  /\ lock' = TRUE /\ Goto(r, "start")
  /\ UNCHANGED <<draft, row, lapsed>>
Acquire(r) ==
  /\ req[r].at = "new" /\ ~lock
  /\ lock' = TRUE /\ Goto(r, "start")
  /\ UNCHANGED <<draft, row, lapsed>>
Refused(r) ==
  /\ req[r].at = "new" /\ lock
  /\ Goto(r, "refused")
  /\ UNCHANGED <<lock, draft, row, lapsed>>
AcquireErrs(r) ==
  /\ RedisFails /\ req[r].at = "new"
  /\ lock' \in {lock, TRUE}
  /\ Goto(r, "start") /\ lapsed' = TRUE
  /\ UNCHANGED <<draft, row>>

\* The model answers with a stream, and the draft starts empty; or there is
\* nothing to summarise, or no model, and the client is sent an error.
Start(r) ==
  /\ req[r].at = "start"
  /\ Goto(r, "stream") /\ draft' = <<>>
  /\ UNCHANGED <<lock, row, lapsed>>
StartFails(r) ==
  /\ req[r].at = "start"
  /\ Goto(r, "release")
  /\ UNCHANGED <<lock, draft, row, lapsed>>

\* A chunk: kept, appended to the draft, sent to the client.
Chunk(r) ==
  LET c == <<r, Len(req[r].text) + 1>>
  IN /\ req[r].at = "stream" /\ Len(req[r].text) < MaxChunks
     /\ req' = [req EXCEPT ![r].text = Append(@, c)]
     /\ draft' = Append(draft, c)
     /\ UNCHANGED <<lock, row, lapsed>>
\* The client is gone: nothing is saved.
ClientGone(r) ==
  /\ req[r].at = "stream" /\ req[r].text # <<>>
  /\ Goto(r, "release")
  /\ UNCHANGED <<lock, draft, row, lapsed>>
\* The stream ends; an error of the model ends it like its last chunk does.
StreamEnds(r) ==
  /\ req[r].at = "stream"
  /\ Goto(r, "find")
  /\ UNCHANGED <<lock, draft, row, lapsed>>

\* saveToDB: look for a row, then update it by id, or insert one, which the
\* unique index on submission_id refuses if somebody else was faster.
Find(r) ==
  /\ req[r].at = "find"
  /\ Goto(r, IF row = {} THEN "insert" ELSE "update")
  /\ UNCHANGED <<lock, draft, row, lapsed>>
SaveDraft(r) ==
  /\ req[r].at = "update" \/ (req[r].at = "insert" /\ row = {})
  /\ row' = {draft}
  /\ Goto(r, "releaseDone")
  /\ UNCHANGED <<lock, draft, lapsed>>
Save(r) ==
  /\ req[r].at = "update" \/ (req[r].at = "insert" /\ row = {})
  /\ row' = {req[r].text}
  /\ Goto(r, "releaseDone")
  /\ UNCHANGED <<lock, draft, lapsed>>
SaveFailsSilently(r) ==
  /\ req[r].at \in {"insert", "update"}
  /\ Goto(r, "releaseDone")
  /\ UNCHANGED <<lock, draft, row, lapsed>>
SaveFails(r) ==
  /\ req[r].at \in {"insert", "update"}
  /\ Goto(r, "release")
  /\ UNCHANGED <<lock, draft, row, lapsed>>

\* The deferred ReleaseSummaryLock deletes the key, whoever set it; a failed DEL
\* leaves it to its TTL.
Ended(at) == IF at = "release" THEN "failed" ELSE "done"
Release(r) ==
  /\ req[r].at \in {"release", "releaseDone"}
  /\ lock' \in {FALSE, lock}
  /\ Goto(r, Ended(req[r].at))
  /\ lapsed' = (lapsed /\ Busy # {r})
  /\ UNCHANGED <<draft, row>>

\* The process dies, or the callback never runs: the lock stays behind.
Lost(r) ==
  /\ r \in Busy
  /\ Goto(r, "lost")
  /\ lapsed' = (lapsed /\ Busy # {r})
  /\ UNCHANGED <<lock, draft, row>>
\* Five minutes have passed.
NeverExpires == FALSE /\ UNCHANGED vars
Expire ==
  /\ lock
  /\ lock' = FALSE
  /\ lapsed' = (lapsed \/ Busy # {})
  /\ UNCHANGED <<req, draft, row>>

Step(r) ==
  \/ Acquire(r) \/ Refused(r) \/ AcquireErrs(r) \/ Start(r) \/ StartFails(r)
  \/ Chunk(r) \/ ClientGone(r) \/ StreamEnds(r) \/ Find(r) \/ Save(r) \/ SaveFails(r)
  \/ Release(r) \/ Lost(r)
Next == Expire \/ \E r \in Requests : Step(r)

Spec == Init /\ [][Next]_vars
\* A request that runs goes on, and a key's TTL passes.
FairSpec == Spec /\ WF_vars(Expire) /\ \A r \in Requests : WF_vars(r \in Busy /\ Step(r))

-----------------------------------------------------------------------------
(* Properties.                                                             *)

TextsOf(r) == {[i \in 1..n |-> <<r, i>>] : n \in 0..MaxChunks}
Texts == UNION {TextsOf(r) : r \in Requests}
Places == {"new", "start", "stream", "find", "insert", "update", "release", "releaseDone",
           "done", "failed", "refused", "lost"}
\* The flags are flags, and every request has built a text of its own chunks.
TypeOK ==
  /\ lock \in BOOLEAN /\ lapsed \in BOOLEAN
  /\ req \in [Requests -> [at : Places, text : Texts]]
  /\ \A r \in Requests : req[r].text \in TextsOf(r)
  /\ draft \in Seq(Requests \X Nat)

\* The saved summary is the text of one generation, perhaps cut short, and never
\* a mixture of two that ran together.
RowIsOnePrefix == row \subseteq Texts

\* Unless the lock expired under a request that was still running, or Redis
\* failed to set it, no two requests generate at the same time.
ExclusiveUnlessLapsed == ~lapsed => Cardinality(Busy) <= 1

\* A request that is told its summary is done finds a summary in the database,
\* and no summary ever disappears again.
DoneIsSaved ==
  \A r \in Requests : req[r].at \in {"releaseDone", "done"} => row # {}

\* A submission never becomes impossible to summarise: whatever a request does
\* with the lock, it is free again some day.
LockComesBack == lock ~> ~lock
=============================================================================
