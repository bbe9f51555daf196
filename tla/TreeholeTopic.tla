--------------------------- MODULE TreeholeTopic ---------------------------
(***************************************************************************)
(* The treehole topics of one anchor (services/treehole_topic.go): staff   *)
(* requests that create, edit and switch them, the nightly job that        *)
(* deactivates those past their closing time, and two cached queries: the  *)
(* number of open ones, and the list of active ones.  PostgreSQL runs each *)
(* transaction READ COMMITTED: a statement sees what is committed when it  *)
(* starts, an UPDATE re-reads the row it has locked, and nothing is        *)
(* visible before the commit.                                              *)
(*                                                                         *)
(* Another anchor's rows, limit and cache key are disjoint from these; no  *)
(* request deletes a topic, although the service has the methods.          *)
(***************************************************************************)
EXTENDS Naturals, Sequences, FiniteSets

CONSTANTS Staff,        \* concurrent requests of the anchor and the administrators
          MaxActive,    \* maxActiveTopicsPerBid, 5 in the code
          MaxTopics,    \* bound: topics ever created
          Crews         \* bounds: who is at work together (staff, the submissions
                        \* subs, roles), with how many topics and until which moment

ASSUME TopicAssumption ==
  /\ MaxActive \in Nat /\ MaxTopics \in Nat
  /\ \A c \in Crews : c.topics \in 0..MaxTopics /\ c.until \in Nat

VARIABLES now,       \* time.Now(), and the database's clock
          topics,    \* the committed rows, in creation order; the position is the id
          op,        \* op[p]: the step the request p stands at
          job,       \* DeactivateExpiredTopics, one instance at a time
          cached, fill,
          crew,      \* the crew of this behaviour
          excused    \* ghost: creations overlapped, or an edit activated a topic

\* The keys <bid> and <bid>:list; the second is not cleared by anybody.
INSTANCE CacheData WITH Keys <- {"open", "list"}

vars == <<now, topics, op, job, cached, fill, crew, excused>>

-----------------------------------------------------------------------------
Windows == {w \in [open : 0..crew.until, close : 0..crew.until] : w.open < w.close}
Row == [active : BOOLEAN, win : Windows]
Idle == [at |-> "idle"]

Active(rows) == {t \in DOMAIN rows : rows[t].active}
IsOpen(row) == row.active /\ row.win.open <= now /\ now <= row.win.close
Expired(row, moment) == row.active /\ row.win.close < moment

OpenTopics == Cardinality({t \in DOMAIN topics : IsOpen(topics[t])})

Init ==
  /\ now = 0
  /\ topics = <<>>
  /\ op = [p \in Staff |-> Idle]
  /\ job = Idle
  /\ CacheInit
  /\ crew \in Crews
  /\ excused = FALSE

At(p, step) == op' = [op EXCEPT ![p] = step]
\* Request p returns, with or without an error.
Return(p) == At(p, Idle)

-----------------------------------------------------------------------------
(* Create: one transaction; the cache is cleared before it commits.        *)

\* A full count is refused.  A false is_active is a zero value, for which gorm
\* writes the column's default: every topic starts active.
Begin(p) ==
  /\ op[p] = Idle
  /\ \E w \in Windows : At(p, [at |-> "insert", win |-> w, others |-> FALSE])
  /\ UNCHANGED <<now, topics, job, cached, fill, crew, excused>>
CreateCountsOneMore(p) == Cardinality(Active(topics)) <= MaxActive /\ Begin(p)
CreateCounts(p) == Cardinality(Active(topics)) < MaxActive /\ Begin(p)
CreateInserts(p) ==
  /\ op[p].at = "insert"
  /\ Overtake("open") /\ Invalidate("open")
  /\ At(p, [op[p] EXCEPT !.at = "commit"])
  /\ UNCHANGED <<now, topics, job, crew, excused>>
\* The creations that have counted and not committed have missed this one.
Missed(steps) ==
  [q \in Staff |-> IF steps[q].at \in {"insert", "commit"}
                   THEN [steps[q] EXCEPT !.others = TRUE] ELSE steps[q]]
CreateCommits(p) ==
  /\ op[p].at = "commit" /\ Len(topics) < crew.topics
  /\ topics' = Append(topics, [active |-> TRUE, win |-> op[p].win])
  /\ OvertakeAll({"open", "list"}) /\ UNCHANGED cached
  /\ op' = Missed([op EXCEPT ![p] = Idle])
  /\ excused' = (excused \/ op[p].others)
  /\ UNCHANGED <<now, job, crew>>
CreateFails(p) ==
  /\ op[p].at \in {"insert", "commit"}
  /\ Return(p)
  /\ UNCHANGED <<now, topics, job, cached, fill, crew, excused>>

-----------------------------------------------------------------------------
(* UpdateByID and SetTopicStatus: a transaction, then the cache is cleared. *)

\* The row is locked from the UPDATE to the commit, so the transaction takes
\* effect at once; neither method looks at the limit.
Write(p, t, row) ==
  /\ op[p] = Idle
  /\ topics' = [topics EXCEPT ![t] = row]
  /\ OvertakeAll({"open", "list"}) /\ UNCHANGED cached
  /\ At(p, [at |-> "clean"])
  /\ excused' = (excused \/ (row.active /\ ~topics[t].active))
  /\ UNCHANGED <<now, job, crew>>
\* Fields the request leaves out keep their value.  CHECK (close_at > open_at)
\* refuses a window that would end before it starts.
UpdateByID(p) ==
  \E t \in DOMAIN topics, w \in Windows, a \in BOOLEAN :
    Write(p, t, [active |-> a, win |-> w])
SetTopicStatusKeepsCache(p) ==
  \E t \in DOMAIN topics, a \in BOOLEAN :
    /\ op[p] = Idle
    /\ topics' = [topics EXCEPT ![t].active = a]
    /\ excused' = (excused \/ (a /\ ~topics[t].active))
    /\ OvertakeAll({"open", "list"}) /\ UNCHANGED <<now, op, job, cached, crew>>
SetTopicStatus(p) ==
  \E t \in DOMAIN topics, a \in BOOLEAN :
    Write(p, t, [topics[t] EXCEPT !.active = a])
InvalidateCache(p) ==
  /\ op[p].at = "clean"
  /\ Invalidate("open") /\ UNCHANGED fill
  /\ Return(p)
  /\ UNCHANGED <<now, topics, job, crew, excused>>

-----------------------------------------------------------------------------
(* DeactivateExpiredTopics: select, update by the same condition, clear.   *)

\* The moment is taken once, before the transaction.  The job serves all
\* anchors: it goes on to the UPDATE when any of them has an expired topic, and
\* clears the caches of those whose topics the SELECT found.
JobSelects ==
  /\ job = Idle
  /\ job' = [at |-> "update", moment |-> now,
             found |-> {t \in DOMAIN topics : Expired(topics[t], now)}]
  /\ UNCHANGED <<now, topics, op, cached, fill, crew, excused>>
\* The UPDATE evaluates its condition on the rows as they are now, not on the
\* rows the SELECT found.
Deactivate(rows, S) ==
  [t \in DOMAIN rows |-> IF t \in S THEN [rows[t] EXCEPT !.active = FALSE] ELSE rows[t]]
JobUpdatesFound ==
  /\ job.at = "update"
  /\ topics' = Deactivate(topics, job.found)
  /\ OvertakeAll({"open", "list"}) /\ UNCHANGED cached
  /\ job' = IF job.found = {} THEN Idle ELSE [at |-> "clean"]
  /\ UNCHANGED <<now, op, crew, excused>>
JobUpdates ==
  /\ job.at = "update"
  /\ topics' = Deactivate(topics, {t \in DOMAIN topics : Expired(topics[t], job.moment)})
  /\ OvertakeAll({"open", "list"}) /\ UNCHANGED cached
  /\ job' = IF job.found = {} THEN Idle ELSE [at |-> "clean"]
  /\ UNCHANGED <<now, op, crew, excused>>
\* The error ends the job until the next night.
JobFailsForGood ==
  /\ job.at = "update"
  /\ job' = [at |-> "stopped"]
  /\ UNCHANGED <<now, topics, op, cached, fill, crew, excused>>
JobFails ==
  /\ job.at = "update"
  /\ job' = Idle
  /\ UNCHANGED <<now, topics, op, cached, fill, crew, excused>>
JobCleans ==
  /\ job.at = "clean"
  /\ Invalidate("open") /\ UNCHANGED fill
  /\ job' = Idle
  /\ UNCHANGED <<now, topics, op, crew, excused>>

-----------------------------------------------------------------------------
(* The two queries, each cached for an hour.                               *)
CreateInFlight == \E p \in Staff : op[p].at = "commit"
CountOpenTopics ==
  Miss("open", [count |-> OpenTopics, moment |-> now], CreateInFlight)
\* The five newest active topics, by the time they were created.
LatestActive ==
  {t \in Active(topics) : Cardinality({u \in Active(topics) : u > t}) < 5}
GetLatestActiveTopics == Miss("list", LatestActive, FALSE)
Reads(query, key) ==
  /\ query \in crew.roles
  /\ \/ query = "count" /\ CountOpenTopics
     \/ query = "list" /\ GetLatestActiveTopics
     \/ CacheStep(key)
  /\ UNCHANGED <<now, topics, op, job, crew, excused>>

Tick ==
  /\ now < crew.until /\ now' = now + 1
  /\ UNCHANGED <<topics, op, job, cached, fill, crew, excused>>

StaffStep(p) ==
  \/ CreateCounts(p) \/ CreateInserts(p) \/ CreateCommits(p) \/ CreateFails(p)
  \/ UpdateByID(p) \/ SetTopicStatus(p) \/ InvalidateCache(p)
JobStep == "job" \in crew.roles /\ (JobSelects \/ JobUpdates \/ JobFails \/ JobCleans)

Next ==
  \/ \E p \in Staff \cap crew.staff : StaffStep(p)
  \/ JobStep
  \/ Reads("count", "open") \/ Reads("list", "list")
  \/ Tick

Spec == Init /\ [][Next]_vars

-----------------------------------------------------------------------------
(* Properties.                                                             *)

Creating == [at : {"insert", "commit"}, win : Windows, others : BOOLEAN]
TypeOK ==
  /\ crew \in Crews /\ now \in 0..crew.until
  /\ topics \in Seq(Row) /\ Len(topics) <= crew.topics
  /\ op \in [Staff -> {Idle, [at |-> "clean"]} \cup Creating]
  /\ job.at = "update" => job.moment \in 0..now
  /\ excused \in BOOLEAN

\* The job closes no topic that is open at that moment, even one whose window
\* the anchor extended between the job's SELECT and its UPDATE.
JobSparesOpen ==
  [][\A t \in DOMAIN topics :
       job.at = "update" /\ topics[t].active /\ ~topics'[t].active /\ op' = op =>
         topics[t].win.close < now]_vars

\* A topic past its closing time does not stay active for ever where the job
\* runs, however often a night's run of it fails.
ExpiredIsClosed ==
  \A t \in 1..MaxTopics :
    ("job" \in crew.roles /\ t \in DOMAIN topics /\ Expired(topics[t], now)) ~>
    ~(t \in DOMAIN topics /\ Expired(topics[t], now))

\* A cached number of open topics that no writer overtook is the number there
\* was at the moment it was counted, save while a writer that has committed is
\* about to clear it: every committed change reaches the cache.
Cleaning == job.at = "clean" \/ \E p \in Staff : op[p].at = "clean"
CountAt(moment) ==
  Cardinality({t \in DOMAIN topics :
    topics[t].active /\ topics[t].win.open <= moment /\ moment <= topics[t].win.close})
CountStaleOnlyByRace ==
  LET e == cached["open"]
  IN e # None /\ ~e.raced /\ ~Cleaning => e.data.count = CountAt(e.data.moment)

\* An anchor has more than MaxActive active topics only after two creations
\* overlapped, so that the later one's count missed the other's topic, or after an
\* edit, which looks at no limit, activated one.
LimitUnlessRaced == Cardinality(Active(topics)) <= MaxActive \/ excused
=============================================================================
