---------------------------- MODULE LivePipeline ----------------------------
(***************************************************************************)
(* From a received danmu packet to the live record of a room: duplicate    *)
(* suppression (bilibili/dedup.go), the bounded channel and the single     *)
(* global worker (dispatcher.go), the LIVE and PREPARING handlers on the   *)
(* anchor_live_record table, and the two cached queries the API serves.    *)
(* What other commands do is in ViewerPipeline.                            *)
(*                                                                         *)
(* A room's broadcasts are events 1, 2, 3, ...: event 2n-1 starts session  *)
(* n (its live_key), event 2n ends it, and the number of an event is also  *)
(* the time it happens at.                                                 *)
(***************************************************************************)
EXTENDS Naturals, Sequences, FiniteSets

CONSTANTS Rooms,
          Capacity,       \* dispatchChan's capacity, 256 in the code
          MaxEvents,      \* bound: events per room
          NextWeek,       \* the events from this one on are in a second week
          Queries,        \* sets of the queries that readers make
          MaxOffered      \* bound: commands offered to the channel altogether

ASSUME PipelineAssumption ==
  /\ Capacity \in Nat \ {0} /\ MaxEvents \in Nat /\ MaxOffered \in Nat
  /\ NextWeek \in Nat /\ Queries \subseteq SUBSET {"latest", "week"}

VARIABLES
  happened,   \* happened[r]: events of room r that have happened at bilibili
  offered,    \* ghost: commands offered to the channel so far
  recent,     \* dedupCache: messages seen within its TTL of 3 seconds
  channel,    \* dispatchChan
  stats,      \* dispatchStats: total handled and dropped
  worker,     \* dispatchWorker: idle, or the step of the handler it runs
  table,      \* table[r]: the anchor_live_record rows of room r
  asked,      \* the queries made here: they share nothing but the table
  cached,     \* cached[k]: what Redis holds under key k
  fill,       \* fill[k]: a CacheData call between its query and its SET
  inOrder,    \* ghost: events of r received so far without a gap
  faithful    \* ghost: r has lost nothing and no end of it was ambiguous

vars == <<happened, offered, recent, channel, stats, worker, table, asked, cached,
          fill, inOrder, faithful>>
upstream == <<happened, offered, recent, stats, asked, inOrder, faithful>>

-----------------------------------------------------------------------------
Session(e) == (e + 1) \div 2
IsLive(e) == e % 2 = 1
Cmd(e) == IF IsLive(e) THEN "LIVE" ELSE "PREPARING"
WeekOf(e) == IF e < NextWeek THEN 1 ELSE 2

\* A PREPARING carries the time of the event in send_time, or no time at all,
\* and then all PREPARINGs of a room are the same text.
Message ==
  {m \in [cmd : {"LIVE", "PREPARING"}, room : Rooms, event : 1..MaxEvents, stamped : BOOLEAN] :
     m.cmd = Cmd(m.event) /\ (IsLive(m.event) => m.stamped)}
Text(m) == IF m.stamped THEN <<m.room, m.event>> ELSE <<m.room, 0>>

\* ...<room>:latest, and ...<room>:week:<monday> of the present week: the key of
\* a week gone by is not read again.
LatestKey(r) == <<r, "latest">>
WeekKey(r) == <<r, "week">>
KeysOf(r) == {LatestKey(r), WeekKey(r)}
INSTANCE CacheData WITH Keys <- UNION {KeysOf(r) : r \in Rooms}
Idle == [at |-> "idle"]
Living == "living"
Ended == "ended"
Row == [key : Nat, start : Nat, status : {Living, Ended}, end : Nat]

\* ORDER BY live_time DESC, first row.
IsNewest(x, rows) == \A y \in rows : y.start <= x.start
Newest(rows) ==
  IF rows = {} THEN None
  ELSE CHOOSE x \in rows : IsNewest(x, rows)

Init ==
  /\ happened = [r \in Rooms |-> 0]
  /\ offered = 0
  /\ recent = {}
  /\ channel = <<>>
  /\ stats = [total |-> 0, dropped |-> 0]
  /\ worker = Idle
  /\ table = [r \in Rooms |-> {}]
  /\ asked \in Queries
  /\ CacheInit
  /\ inOrder = [r \in Rooms |-> 0]
  /\ faithful = [r \in Rooms |-> TRUE]

-----------------------------------------------------------------------------
(* Bilibili: the anchor starts or ends a broadcast.                        *)
Happen(r) ==
  /\ happened[r] < MaxEvents
  /\ happened' = [happened EXCEPT ![r] = @ + 1]
  /\ IF happened[r] + 1 = NextWeek
     THEN /\ cached' = [cached EXCEPT ![WeekKey(r)] = None]
          /\ fill' = [fill EXCEPT ![WeekKey(r)] = None]
     ELSE UNCHANGED <<cached, fill>>
  /\ UNCHANGED <<offered, recent, channel, stats, worker, table, asked, inOrder, faithful>>

\* What a message does to the ghosts: the next event keeps the history intact
\* if it reaches the channel, a repeated one unless it ends "now" whatever is
\* still running, and one that skips an event breaks it.
Ghosts(m, kept) ==
  LET r == m.room  next == inOrder[r] + 1
  IN /\ inOrder' = [inOrder EXCEPT ![r] = IF m.event = next THEN next ELSE @]
     /\ faithful' = [faithful EXCEPT ![r] =
          @ /\ \/ m.event = next /\ kept
               \/ m.event < next /\ m.stamped]

\* readMessages: a text seen within the TTL is dropped.
Suppress(m) ==
  /\ m.event <= happened[m.room] /\ Text(m) \in recent
  /\ Ghosts(m, FALSE)
  /\ UNCHANGED <<happened, offered, recent, channel, stats, worker, table, asked, cached,
                 fill>>
\* Any other is remembered, then offered to the channel without ever waiting
\* for room in it.
OfferUncounted(m) ==
  \/ Len(channel) < Capacity /\ channel' = Append(channel, m) /\ UNCHANGED stats
  \/ Len(channel) = Capacity /\ UNCHANGED <<channel, stats>>
Offer(m) ==
  \/ /\ Len(channel) < Capacity
     /\ channel' = Append(channel, m) /\ UNCHANGED stats
  \/ /\ Len(channel) = Capacity
     /\ stats' = [stats EXCEPT !.dropped = @ + 1] /\ UNCHANGED channel
Receive(m, text) ==
  /\ offered < MaxOffered
  /\ text \notin recent
  /\ offered' = offered + 1
  /\ recent' = recent \cup {text}
  /\ Offer(m)
  /\ UNCHANGED <<happened, worker, table, asked, cached, fill>>
Dispatch(m) ==
  /\ m.event <= happened[m.room]
  /\ Receive(m, Text(m))
  /\ Ghosts(m, Len(channel) < Capacity)

\* The TTL of the oldest texts runs out.
Forget(t) ==
  /\ t \in recent
  /\ recent' = recent \ {t}
  /\ UNCHANGED <<happened, offered, channel, stats, worker, table, asked, cached, fill,
                 inOrder, faithful>>

-----------------------------------------------------------------------------
(* dispatchWorker.                                                         *)

\* The handler returned, with or without an error, which is only logged.
Finish ==
  /\ worker' = Idle
  /\ stats' = [stats EXCEPT !.total = @ + 1]

\* A task carries the handler registered for its command.
Take ==
  /\ worker = Idle /\ channel # <<>>
  /\ worker' = [at |-> Head(channel).cmd, msg |-> Head(channel)]
  /\ channel' = Tail(channel)
  /\ UNCHANGED <<upstream, table, cached, fill>>

Mangle(r) == faithful' = [faithful EXCEPT ![r] = FALSE]
\* A failed statement: the command is lost.
FailHandlerStops ==
  /\ worker.at \in {"LIVE", "PREPARING", "update"}
  /\ worker' = [worker EXCEPT !.at = "stopped"]
  /\ Mangle(worker.msg.room)
  /\ UNCHANGED <<happened, offered, recent, channel, stats, table, asked, cached, fill,
                 inOrder>>
FailHandler ==
  /\ worker.at \in {"LIVE", "PREPARING", "update"}
  /\ Finish /\ Mangle(worker.msg.room)
  /\ UNCHANGED <<happened, offered, recent, channel, table, asked, cached, fill,
                 inOrder>>

\* The rows of room r change; a CacheData call that has already queried them is
\* now holding an old answer.
SetRows(r, rows) ==
  /\ table' = [table EXCEPT ![r] = rows]
  /\ OvertakeAll(KeysOf(r))

\* insertOnlyLiveRecord: INSERT ... ON CONFLICT (room_id, live_key) DO NOTHING.
NewRow(m) == [key |-> Session(m.event), start |-> m.event, status |-> Living, end |-> 0]
AfterUpsert(rows, row) == {x \in rows : x.key # row.key} \cup {row}
AfterInsert(rows, row) ==
  IF \E x \in rows : x.key = row.key THEN rows ELSE rows \cup {row}
HandleLive ==
  LET r == worker.msg.room
  IN /\ worker.at = "LIVE"
     /\ SetRows(r, AfterInsert(table[r], NewRow(worker.msg)))
     /\ worker' = [worker EXCEPT !.at = "clean"]
     /\ UNCHANGED <<upstream, channel, cached>>

\* endLiveRecord selects the newest LIVING row, and errs when there is none.
SelectAnyLiving ==
  /\ worker.at = "PREPARING"
  /\ \E row \in {x \in table[worker.msg.room] : x.status = Living} :
       worker' = [at |-> "update", msg |-> worker.msg, row |-> row]
  /\ UNCHANGED <<happened, offered, recent, channel, stats, table, asked, cached, fill,
                 inOrder, faithful>>
SelectLiving ==
  LET open == {x \in table[worker.msg.room] : x.status = Living}
  IN /\ worker.at = "PREPARING"
     /\ \/ open = {} /\ Finish
        \/ /\ \E row \in open :
                /\ IsNewest(row, open)
                /\ worker' = [at |-> "update", msg |-> worker.msg, row |-> row]
           /\ UNCHANGED stats
     /\ UNCHANGED <<happened, offered, recent, channel, table, asked, cached, fill,
                    inOrder, faithful>>

\* It then updates that row by id; CHECK (live_duration >= 0) rejects an end
\* before the start, as an error of the statement.  (The duration is truncated to
\* seconds; two events of a room are at least a second apart here.)
EndTime(m) == IF m.stamped THEN m.event ELSE happened[m.room]
EndsInTime(m, row) == EndTime(m) >= row.start
UpdateRow ==
  LET m == worker.msg  row == worker.row
  IN /\ worker.at = "update" /\ EndsInTime(m, row)
     /\ SetRows(m.room, {x \in table[m.room] : x.key # row.key} \cup
                        {[row EXCEPT !.status = Ended, !.end = EndTime(m)]})
     /\ worker' = [at |-> "clean", msg |-> m]
     /\ UNCHANGED <<upstream, channel, cached>>
UpdateRejected ==
  /\ worker.at = "update" /\ ~EndsInTime(worker.msg, worker.row)
  /\ Finish
  /\ UNCHANGED <<happened, offered, recent, channel, table, asked, cached, fill,
                 inOrder, faithful>>

\* cleanLiveRecordCache, after the statement, unlinks every key that begins like
\* the room's; its own failure is ignored and leaves the entries until their TTL.
CleanSkipped ==
  /\ worker.at = "clean"
  /\ Finish
  /\ UNCHANGED <<happened, offered, recent, channel, table, asked, cached, fill,
                 inOrder, faithful>>
Clean ==
  LET r == worker.msg.room
  IN /\ worker.at = "clean"
     /\ InvalidateAll(KeysOf(r))
     /\ Finish
     /\ UNCHANGED <<happened, offered, recent, channel, table, asked, fill, inOrder,
                    faithful>>

WorkerStep ==
  \/ Take \/ FailHandler \/ HandleLive \/ SelectLiving
  \/ UpdateRow \/ UpdateRejected \/ Clean

-----------------------------------------------------------------------------
(* The two queries, through CacheData.                                     *)
WeekRows(r) == {x \in table[r] : WeekOf(x.start) = WeekOf(happened[r])}
GetLatestByRoomID(r) == "latest" \in asked /\ Miss(LatestKey(r), Newest(table[r]), FALSE)
GetCurrentWeekByRoomID(r) == "week" \in asked /\ Miss(WeekKey(r), WeekRows(r), FALSE)

ReaderStep(r) ==
  /\ \/ GetLatestByRoomID(r) \/ GetCurrentWeekByRoomID(r)
     \/ \E k \in KeysOf(r) : CacheStep(k)
  /\ UNCHANGED <<upstream, channel, worker, table>>

-----------------------------------------------------------------------------
(* Properties.                                                             *)

\* What the rows of a room must be once the first e events are handled: every
\* session ended by its own end, the last one still living if e started it.
Exact(rows, e) ==
  /\ {x.key : x \in rows} = 1..Session(e)
  /\ Cardinality(rows) = Session(e)
  /\ \A x \in rows :
       /\ x.start = 2 * x.key - 1
       /\ x.status = Living <=> x.start = e
       /\ x.status = Ended => x.end >= 2 * x.key

Settled(r) ==
  /\ worker = Idle \/ worker.msg.room # r
  /\ \A i \in DOMAIN channel : channel[i].room # r

\* A room none of whose messages was lost has, once they are handled, exactly
\* the broadcasts that happened, whatever was delivered again and however late:
\* a repeated LIVE or PREPARING never reopens, ends or duplicates a session.
ExactHistory ==
  \A r \in Rooms : faithful[r] /\ Settled(r) => Exact(table[r], inOrder[r])

Records ==
  INSTANCE LiveRecords WITH Keys <- {Session(e) : e \in 1..MaxEvents},
                            Times <- 0..MaxEvents, records <- table

\* Whatever commands come, in whatever order, the table changes as if each handler
\* were one atomic statement: a LIVE adds a broadcast that was not recorded, and a
\* PREPARING ends the one that is the newest at that moment, not before it began,
\* though it selects it earlier, by a statement of its own.
ImplementsRecords == Records!RecordsSpec

\* Every command offered to the channel waits in it, is being handled, or has
\* been counted as handled or as dropped: the statistics lose none.
NothingUncounted ==
  offered = stats.total + stats.dropped + Len(channel) + (IF worker = Idle THEN 0 ELSE 1)

\* Outside the moment between a handler's statement and its cleaning, a cached
\* answer of either query differs from the table only because
\* a query overlapped the statement or the cleaning failed; both last at most the
\* cache's TTL.
Fresh(k, answer) == cached[k] = None \/ cached[k].raced \/ cached[k].data = answer
StaleOnlyByRace ==
  \A r \in Rooms :
    \/ worker # Idle /\ worker.at = "clean" /\ worker.msg.room = r
    \/ /\ Fresh(LatestKey(r), Newest(table[r]))
       /\ Fresh(WeekKey(r), WeekRows(r))

\* A command in the channel is eventually handled even if handlers keep failing:
\* an error of one never stops the worker that serves all rooms.
ChannelDrains == <>[](channel = <<>> /\ worker = Idle)
=============================================================================
