# fanclub-apiserver in TLA+

Specifications of the API server of a fan club (Go, under `src/`). The modules
translate its code, TLC checks them on small instances, and TLAPS proves every
safety property the passing runs check for all values of the constants.

## 1. The system

One process, backed by PostgreSQL and Redis, does four kinds of work:

* it keeps one WebSocket per monitored bilibili room and turns the danmu
  commands it receives into rows and counters (`bilibili/`);
* it answers HTTP requests (`api/rest`, `services`);
* it streams AI output and stores it, and has a model read schedules (`ai/`);
* it runs jobs (`scheduler/`).

Nearly every cached read goes through one cache-aside helper (`cache/base.go`).

| part | state | operations | talks to | what is hard |
|---|---|---|---|---|
| danmu client `bilibili/ws.go` | fields of `WSClient` under `mu`; a reader, a heartbeat, timers | `Connect`, `Close`, `reconnect`, loops | manager, pipeline, network | goroutines of several generations meet between critical sections |
| manager and start-up `bilibili/ws.go`, `scheduler/jobs.go` | `WSManager.clients` | `initMonitorWS`, `Add`, `RemoveAndClose` | clients | judges a client that is repairing itself; puts back a list it has read |
| codec `bilibili/codec.go` | - | `MakePacket`, `ParsePacket` | client | nested and cut frames |
| pipeline `dedup.go`, `dispatcher.go` | TTL cache, channel of 256, counters | `isDuplicate`, `Dispatch`, `dispatchWorker` | handlers | lost, repeated and reordered commands; full channel |
| live records `handler_live.go`, `handler_preparing.go` | `anchor_live_record`, two cached queries | insert, select + update, clean | PostgreSQL, Redis | two statements per handler, stale cache |
| danmus, super chats `handler_danmu.go`, `handler_sc.go` | minute sets and scores in Redis, `viewer_sc_bv_record`, cached counts | Lua function, insert | Redis, PostgreSQL | repeated commands counted twice |
| cache helper `cache/base.go` | Redis keys with a TTL | `CacheData`, `ScanUnlinkKeys` | all services | the query and the SET are two steps |
| treehole topics | `treehole_topic`, cached count and list | create, edit, switch, nightly job | PostgreSQL, Redis, job | check-then-act, cache cleared inside a transaction |
| treehole submissions | `treehole_submission`, cached page | create, verdict, read, walk through | topics | checks a topic somebody may be closing; offsets into a list that changes |
| AI summary | lock and draft in Redis, one row | stream, save | model, client | lock expiry, crash, two generations together |
| sessions | token keys in Redis | login, refresh, logout, password | - | check, delete, issue are separate calls of requests that overlap |
| captcha, key exchange | one-time keys in Redis | issue, verify, spend, exchange | login, submission | GET then DEL, SET then EXPIRE |
| cookies | `sys_scraper_cookie` | check, refresh, save | bilibili | remote step done, local save fails |
| follower numbers | a row per day, two cached queries | job, reads, LTTB | bilibili, Redis | keys that differ, a run across midnight, truncated division |
| weekly schedule | rows of a week, set of images, cached query | daily job | model, Redis | two guards against a second insert, either may fail |
| songs, uploads, HTTP, configuration | rows | single statements, libraries | - | little |

What makes each right: a room is never silently given up, never driven twice and
never leaks a socket (client); every running client has an owner, and one without life is forgotten (manager); the
messages of a frame are found once and in order (codec); the recorded
broadcasts are those that happened, and a repeated danmu or super chat counts
once (pipeline); a topic is closed when and only when it is past its time, and
the limit holds but for a race (topics); a hidden submission fades from sight,
and a reader who walks through a topic misses none (submissions); one summary at
a time, of one generation, and no lock for ever (summary); a refresh token works
once and an ended session stays ended (sessions); a puzzle solved is good for
one request, and a session key is the client's own (captcha, key exchange); a
new pair is not lost to another refresh, and one that was got and reported is
saved (cookies); a number is filed under its day, a schedule inserted once, and
a thinned series keeps its ends (jobs). `PROJECT.json` lists every component,
and under "hazards" the places that are hard to test, with the properties that
watch them.

## 2. Modules

An arrow points to the module that EXTENDS the other; `CacheData` is
instantiated once per cache (a double arrow that is not marked as a refinement).

```
MonitorLink <= refinement = WSClient -> WSManager -> WSClientProofs

LiveRecords <= refinement = LivePipeline <= CacheData
                                 |
                          ViewerPipeline     Codec
                                     \       /
                                   DanmuPipeline -> MCPipeline, PipelineProofs

CacheData => TreeholeTopic -> TreeholeSubmission -> TreeholeNavigation
                                     -> MCTreehole, TreeholeProofs

SummaryStream -> SummaryStreamProofs
Sessions      -> MCSessions, SessionsProofs
CookieRefresh -> CookieRefreshProofs

Captcha -> KeyExchange -> Login -> LoginProofs

CacheData => JobClock -> FollowerNum, WeekSchedule \
                                        Downsample -> Jobs -> JobsProofs
```

Texts, prompts, HTML and log lines are left out; what a property must tell apart
is a member of a small set. A statement that returns an error is taken not to
have changed anything. A *ghost* is a variable the code does not have; ghosts
only name what went wrong (a race, a failed call, a crash), so that a property
can demand that nothing else does.

**WSClient** (`bilibili/ws.go` 81-130, 290-500). A client's n-th established
connection is generation n: its socket, context, reader and heartbeat carry the
same number, 0 is Go's nil. What runs under `c.mu` is one step, written as a
function of the client's state (`Teardown`, `Dialled`, `Established`,
`ConnectError`, `Reconnect`, `Closed`); what can happen between two critical sections is a step of its own:
a reader loads `c.conn`, blocks, fails, and only then looks at its context; a
timer callback calls `Connect` and, after its error, `reconnect`. The dial is
inside the critical section, as in the code; a `Connect` that fails after it has
dialled closes the new socket again (`ConnectError`). `PeerDrops` is the network; a
silent connection counts as dropped, because ReadMessage returns after
`wsReadTimeout`. Only a client nobody has connected yet is passed to `Connect`
from outside (`Fresh`): `initMonitorWS` is the only outside caller. A client
whose first `Connect` fails is not retried (`scheduler/jobs.go:36`), and the
model does not pretend it is.

**MonitorLink** is what a client promises: its link is fresh, up, in backoff,
dead or closed; each loss is counted and, up to MaxRetry, followed by a new
attempt; a backoff ends in a link, a counted loss or a close. `WSClient` maps to
it by `LinkOf` and implements it (`ImplementsLink`).

**WSManager** adds `initMonitorWS` (rounds, creating, connecting one after the
other, handing the batch to the manager) and the cleanup job, which looks at a
client and closes it in two separate critical sections of the client, under the
manager's lock. The job may come before there are clients, so `Add` can meet it
at work: the list it puts back is the one it has read, and the lock is what
keeps a batch from being lost between the two. `Connect` holds `c.mu` while it
dials; a job that waits for that has, in the model, not come to the client yet.

**CacheData** is the cache-aside helper. `Miss` runs the query and `Store` the
SET; a writer in between calls `Overtake`, which marks the answer in flight as
`raced`, and its DEL is `Invalidate`, which may fail. The mark is a ghost: the
properties allow a cached answer to be wrong only when it is marked, that is,
only by the window the design accepts, never because a write forgot its cache.

**LivePipeline** follows a LIVE or PREPARING from the packet to the row and to
the two cached queries (latest record, records of the week). A room's events are
numbered, odd ones start session (n+1)/2 and even ones end it; the number is
also the time. The network may deliver any event that has happened, again and in
any order; a PREPARING without `send_time` is the same text whichever broadcast
it ends, and ends "now". `isDuplicate` and `Dispatch` run in one reader
goroutine, so they are one step; each database statement and the cleaning of the
cache are separate steps of the one worker.

**ViewerPipeline** adds the commands that share the channel and the worker.
`statistics_danmu.lua` counts a danmu when its `uid:timestamp` is new in the set
of the present minute; the set outlives the minute, which is why the model has
`MinuteTurns` and not an expiry. A super chat that names a video is inserted ON
CONFLICT DO NOTHING, and `CheckByBV` caches a count that no insert clears
(`services/viewer_sc_bv.go:24`): it is only ever too low. A command named
`DANMU_MSG:4:0:2` is parsed as a danmu (`dispatcher.go:81`) and looked up by its
full name (`dispatcher.go:205`), so it reaches no handler.

**LiveRecords** is what the records promise: a broadcast is inserted once, under
a new key, and an end is the end of the newest one that still runs; each is one
atomic change of one room. `LivePipeline` implements it (`ImplementsRecords`),
though `handlePreparing` selects in one statement and updates in another, and
whatever commands are lost, repeated or late.

**Codec** has a frame as a sequence of cells (headers, halves of a text,
compressed frames), and `ParsePacket` as a machine: `calls` is the stack of its
calls, each with the frame it unpacks, its offset and what it has found; a
compressed body is a call on top, whose result is appended when it returns. A
body compressed in one format and announced in the other fails to decompress;
the frame may end anywhere. `Frames` is a constant, of which `FrameAssumption`
says how a frame is laid out. **DanmuPipeline** joins codec and pipeline. The
two share no variable, so interleaving them would add nothing but states: frames
are unpacked only in a state in which no room has sent a command. **MCPipeline** builds the frames for TLC.

**TreeholeTopic** has one anchor's topics under concurrent requests, the job,
the cached count of open topics and the cached list of the newest. A transaction
that counts and inserts is three steps (count, insert and clear the cache,
commit), since READ COMMITTED lets others in between; an edit that locks its row
takes effect in one. The job serves all anchors, so its SELECT may find none of
this anchor's topics and its UPDATE still run. `crew` says who is at work in a
behaviour: a constant set of crews lets TLC take each interference by itself.
The theorems hold for any set of crews, so for one in which everybody works.

**TreeholeSubmission** adds submissions: the unlocked check and the commit are
two steps, a verdict clears the page before it commits.

**TreeholeNavigation** adds a reader who opens the pages of a topic one after
the other (`NavigateByTopicID`): each request counts the list and then takes the
record at an offset, while submissions arrive and verdicts change the list.

**SummaryStream** is the stream of one submission's summary: lock, stream,
draft, the saver's SELECT and its INSERT or UPDATE, the deferred release. An
error of the model's stream ends the loop like its last chunk does
(`ai/submission_summary.go:136`), so a prefix may be saved as the whole.

**Sessions** has the token keys of one user in Redis; the keys of another user
have another prefix. A token is its kind, its session (`sid`) and its pair, and
works while its key is there. A refresh is four calls: it reads the key,
deletes the keys of the session (`Revoke`, a scan inside one FCALL, so one step)
and stores the two new ones; each may fail, and `Fails` leaves what was done.
`Logout` and the end of `UpdatePassword` delete all keys of the user, the latter
in a step after the password is written, whose failure the request ignores. The
claims of the old token go into the new one, so `era`, the number of logouts
and password changes when a session began, travels with it: a ghost, like
`spared`, which names the sessions a request was renewing when all were ended.

**Captcha** has puzzles and the tokens they are exchanged for, each read by GET
and removed by a DEL whose error nobody looks at. **KeyExchange** has the
private halves of the key pairs and the AES keys of the sessions, whose TTL
comes with a second call that may fail or never happen. **Login** composes the
two: a client spends a token, then its password is decrypted with the session's
key; a submission spends a token of its own scene. The process may die between
any two calls.

**CookieRefresh** has the two rows of one account, SESSDATA and RefreshToken,
and the pair bilibili accepts. A worker is a run of the job or an
administrator's request; it takes its rows one after the other, reads the row,
then the token, asks bilibili, exchanges the pair, saves the two halves by two
statements and marks both rows. `ShouldRefresh` follows the code's reading of
bilibili's answer, in which a JSON answer is never a yes, and a no goes on to
the marks. bilibili is external: it accepts only the current pair, whole, and
replaces it at once (`Accepted`); its answer may be lost, or lack either half.
It may also refuse (`Refused`), as it may for the empty csrf the code sends. What
`Refresh` makes of an answer is the code's: the token starts as the old one, and
only an answer without any cookie is an error, so a refusal that sets a cookie is
`Success` with the token that was refused, which is then saved over whatever the
row holds by now. An administrator may enter any value there has been. A third
kind of row (the table allows `bili_jct` and others) is not modelled. `harm` is
a ghost that names what can part the rows from bilibili's pair: an answer or a
save that was lost (`"lost"`), a refused token written over another
(`"reverted"`), and the events that mix pairs in the rows (`"mixed"`: an answer
that was cut, an old value entered, an edit in the middle of an exchange).
Entering both current values resets it. Under `"reverted"` SESSDATA's row must
still be right; under `"lost"` what was got and reported must be saved.

**JobClock** is the clock: moments fall into days and days into weeks.
**FollowerNum** is the job that asks bilibili for each anchor's number and
upserts the row of the day the run began on, and the two cached queries.
**WeekSchedule** is the daily recognition of the schedule: the row guard in
PostgreSQL, the image guard in Redis, each of which may fail open, the insert,
the clearing of the cache and the marks. **Downsample** is LTTB, turn by turn of
its loop, with a point of a bucket chosen freely, since which one wins depends
on the numbers; the bucket bounds keep the truncated division. Only the tests
call `DownsampleFollowerNum`. **Jobs** runs the three in one process that may
die; `Deployments` says which of them a process has.

## 3. What is checked

| run | instance | states | shows |
|---|---|---|---|
| `ws_client` | 1 client, 3 retries | 563 | `SingleDriver`, `NeverOrphaned`, `NothingLeaks`, `HeartbeatCovers`, `RetryBudget`, `CloseQuiesces`, `ImplementsLink` |
| `ws_manager` | 2 clients, 1 retry, 2 rounds | 78 thousand | `OwnedOrClosed`, `LifelessIsDropped` |
| `live_pipeline` | 1 room, channel of 1, 3 events, 4 commands; frames of up to 2 packets, nested twice | 966 thousand | `Unpacks`, `ExactHistory`, `StaleOnlyByRace`, `NothingUncounted`, `CountedOnce`, `ImplementsRecords`, `ChannelDrains` |
| `cookie_refresh` | 2 workers, 2 new pairs | 461 thousand | `PairKept`, `SuccessIsSaved`, `RoundEnds` |
| `treehole` | 5 crews, limit 1, up to 2 topics and 3 moments | 291 thousand | `CountStaleOnlyByRace`, `PageStaleOnlyByRace`, `LimitUnlessRaced`, `SkippedOnlyByRemoval`, `JobSparesOpen`, `ExpiredIsClosed`, `FadesOut` |
| `summary_stream` | 3 requests, 1 chunk each | 88 thousand | `RowIsOnePrefix`, `ExclusiveUnlessLapsed`, `DoneIsSaved`, `LockComesBack` |
| `sessions` | 3 requests, 3 pairs, 2 logouts or password changes | 2.3 million | `UsedIsDead`, `OnePairLive`, `EndedForGood` |
| `login` | 2 clients, 1 puzzle, 2 tokens, 1 session | 334 thousand | `OneUsePerPuzzle`, `KeyAgrees`, `KeyFades` |
| `jobs` | 5 moments, 2 to a day, 1 day to a week; series of up to 6 points | 2.3 million | `RecordedOnce`, `NumberOfItsDay`, `PastStaleOnlyByRace`, `Thinned` |

Each property is stated in words above its definition. The type invariants are
not repeated in the runs: each proof module has a theorem `TypeCorrect`.

Three runs show that the code does not do what a comment beside it says:

* `ws_cleanup` (`CleanupSparesRecovering`): the cleanup job closes a client that
  is in the two seconds before its own reconnection, for good, against
  "automatic reconnection" (`bilibili/ws.go:84`).
* `cookie_marked` (`MarkedIsRefreshed`): `shouldRefreshJSON` compares the colon
  after `"refresh"` with `t`, so a JSON answer never asks for a refresh, and the
  cookie is marked as refreshed without having been.
* `follower_stale` (`LatestIsCleared`): the job clears `<prefix>:latest:<bid>`,
  the reader caches under `<prefix>:<bid>:latest`, so a new number is not shown
  until the old entry expires.

Other places where the code and a text beside it part, which a property excuses
or the model follows without a run of its own: two creations that count before
either commits exceed the maximum of active topics, and an edit that activates a
topic looks at no limit (`LimitUnlessRaced` names both); "query the topic (with
a row lock)" (`services/treehole_submission.go:31`) takes no lock, so a topic
just closed can receive a submission; "refreshes the cookie and returns the new
cookies" (`bilibili_auth/cookie.go:169`) returns the old token as a success when
a refusal sets a cookie, and it may be written over a newer one (`PairKept`
excuses the token's row then, and no other); `scheduler/base.go:40` says that a job
runs once at start, for which the scheduler is not asked; the past numbers are
cached for an hour where the comment says five minutes; LTTB "panics if
threshold < 2" but returns the data; a PREPARING that is lost, or whose handler
fails, leaves its record LIVING (`handler_preparing.go:53`; `ExactHistory`
speaks of the rooms that lost nothing).

**Bounds.** Clients share no state but the manager, so one is enough for the
client's own properties and two for the manager's; three retries give four
generations, and heartbeats of three earlier ones can still be running beside
the last. Rooms share the worker and the channel only, and their history does
not depend on what other rooms send; capacity 1 makes the channel full at once,
and three events are a broadcast, its end and the start of the next, which is
what it takes to end the wrong session or to reopen one; four commands let one
of them be delivered again, late. `Traffic` sends one kind of command per
behaviour: the kinds share the duplicate suppression, the channel and the
worker, which treat them alike, and no table; likewise `Queries`. Two senders,
of which one has no user id, two seconds and two texts make two danmus the same
or different in each respect. Two packets side by side and two levels of
compression are all the ways `ParsePacket` recurs.

Two staff requests are what a race for the limit needs, limit 1 stands for 5,
and two topics exceed it; a single request with the job and one query shows each
interference of those, and two submissions are enough to lose one's place in a
walk. Three requests let one summary lock expire under a second holder while a
third arrives, and two refreshes overlap while a third request ends all
sessions; the requests of `Sessions` are interchangeable, hence the symmetry set
of `MCSessions` (the run checks no liveness). Three pairs let a session that
survived be refreshed again, and two pairs of `CookieRefresh` a second exchange
start from the rows the first one saved. Two clients are what two readers of one
puzzle or of one key pair need, and a second token is one too many for a puzzle.
Two moments to a day put a reader or a run on either side of midnight, three
days take one out of a window of today and one day before, and a week of one day lets a run of the
schedule outlive its week; six points are split into buckets of one and of two,
with and without a remainder. The bounds `MaxEvents`, `MaxOffered`, `MaxTopics`,
`MaxTokens`, `MaxChunks`, `MaxPairs`, `MaxEras`, `LastMoment` and a crew's
`until` are guards of the actions that would pass them; where they stop the
model, deadlock is not checked. `Names`, `Texts`, `Seconds`, `SuperChats` and
`Submissions` are the inputs enumerated.

**Fairness.** Goroutines are scheduled and timers fire (`GoroutineFairness`, the
worker, the steps of a running request); a job that has started ends, and so
does a round of refreshes; Redis TTLs pass, and a fill stores or fails. The
nightly job runs for ever and a statement of it that is tried again and again
succeeds some day (`SF` of `JobUpdates`: the schedule repeats whatever the last
night did). The scheduler starts the cleanup job again and again, every three
hours in the code, and a run of it ends (`ManagerFairSpec`): the one thing
`LifelessIsDropped` needs. Nothing is assumed there of `initMonitorWS` and of
the clients' goroutines, and nowhere of the network, of clients, of staff or of
the readers of a cache.

## 4. What is proved

Eight modules prove theorems for all values of the constants, under the
assumptions that the modules state: bounds are numbers, `MaxRetry` and
`MaxAttempts` are positive (`NewWSClient` replaces anything else by 5), a
channel has room for one command, a day has moments and a week days,
`Submissions` is a finite set of numbers, a frame is the cells of its packets one
after the other, and a mark such as `None` or `NoKey` is not a value it marks
the absence of. Since the bounds are guards, a theorem
holds however large they are. The properties are seldom inductive; this is what
has to be added to each.

`WSClientProofs`. That there is one driver depends on the contexts that are
live, on which context each reader holds, and on the timer existing only while
no connection does. `Chain(s)` says of one client's state: the connection and
its context carry the same number, that of the last generation, and come and go
together; a reconnect is pending only when there is no connection, and must be
pending when a connected client has lost it and is neither closed nor given up;
every reader belongs to the current connection; a client has given up exactly
when the budget is overdrawn. From `Chain` follow the five properties
(`OneDriver`, `NoOrphan`, `NoLeak`, `HeartbeatRuns`, `BudgetHolds`) and, step by
step, the safety half of the refinement (`LinkImplemented`: the first state maps
to a first state of `MonitorLink`, every step to a step or a stutter). For the
manager (`EveryoneOwned`) `OwnInv` adds what the two owners know: a client that
runs in a round is one that connected, so a round given up leaves none behind,
and the sweep has every client of the manager still to look at, alive, or
closed. A client whose start-up and timers are over and which no reader drives
has no connection or is closed (again by `Chain`), so a sweep that comes to it
closes it (`LifelessIsFound`). The client's theorems are about `Spec`, in which anybody may connect or
close; `ManagerImplementsClients` proves that the clients `initMonitorWS` and
the cleanup job drive are clients of `Spec`, so all of them hold under the
manager (`ManagedClientsHold`).

`PipelineProofs`. `AccountInv` is the accounting of the channel. `TableInv` has
a room's rows differ in their keys and the row the worker has read be among
them, unchanged and still the newest that runs: with one worker nobody else
updates a row, and it inserts none meanwhile. That makes the UPDATE the atomic
`End` of `LiveRecords` (`PipelineImplementsRecords`), of which `EndsAreFinal` is
proved once and inherited. `HistInv` is the long one, for
`HistoryIsExact`: in a room that lost nothing, the records show the first `e`
events (`Shows`), and the command under way and those in the channel lead on
from `e` to all that was received in order (`LineUp`), each either the next
event or a stamped repetition of an earlier one. `CountInv` ties a score to the
set of values counted, `ScInv` a cached count to the number of rows, which only
grows; `StaleInv` demands of an answer in flight what the property demands of
one in Redis. For `FramesAreUnpacked`, `CodecInv` says of every call on the
stack of `ParsePacket` that it stands at the start of a packet and has found
what the packets before it say, or has come to where its frame was cut; and of a
call that waits, that it stands before the packet whose body its callee unpacks,
and has that packet whole. No induction over the depth is needed, since a call
speaks of its callee only. All
theorems are about `PipelineSpec`, the pipeline with the codec:
`CodecStandsApart` proves that it implements either.

`TreeholeProofs`. The job spares open topics (`JobIsSparing`) because its UPDATE
looks at the rows again and its moment is not later than now. `LimitInv`: a
creation that has counted and missed no other still has room for its topic.
`CountInv`: an answer taken while a creation is about to commit, or before the
job's UPDATE closes what its SELECT did not find, is raced or does not count
those topics. `PageInv`: while a verdict is on its way, no answer about its
submission is relied on. `WalkInv`, for `NothingSkipped`: a walk has seen what
is due on the pages before its own, since a newcomer can only move others back;
at its end no record has the rank of the next page, and as the ranks of a finite
list leave no gap (`RanksFill`, by an injection of the list into its ranks),
nothing due is left.

`SessionsProofs`. For `SessionsEnd` it is enough to demand of a request that
will store tokens what the property demands of a token (`EndInv`). For
`RotationHolds`, a pair number belongs to one session, one request stores it,
and no key holds its refresh token before that request has ended
(`RotationInv`): whoever presents a refresh token then deletes every key of its
pair, and nobody stores another. For `OnePairEach`, a session two refreshes of
which have not overlapped is in one request at most, and while that one stores
the new pair the keys of the old one are gone (`PairInv`).

`LoginProofs`. A puzzle that was not read twice is in one hand at a time: to be
solved, with the request that verifies it, in one token, with the request that
spends that, or used (`Once`). A session whose key pair was read once has one
owner, from the GET to the end of the exchange (`OneOwner`). That a key without
a TTL has somebody about to set it (`KeysFade`) is inductive by itself.

`CookieRefreshProofs`. That two savers of a new pair never meet rests on a chain
the code does not state: only a request that read both halves of the current
pair can exchange it, the token is saved last, and so while somebody saves,
neither the row nor any other worker that could exchange has the new token, nor
has one that was refused it to write back (`Alone`, `Saver`). With it, with what
the rows hold while nobody saves (`SessKept`, `TokenKept`) and with no value
being newer than bilibili's (`Bounded`), `SaveInv` is inductive. A refused
request saves no SESSDATA, so only the token's row needs the excuse.

`SummaryStreamProofs`. Whoever counts on a row finds one (`SaveInv`), and
without an excuse the one request that generates holds the lock (`LockInv`).

`JobsProofs`. `WeekInv`, for `ImagesOnce`: a run that could look has seen no row
of its week, what was inserted is marked, known to be unmarked or about to be
marked, and what is sent to the model is not marked or its mark was not read.
`NumInv`: the day of a run is today or one that ended under it, and no row is of
a day to come. `PastInv` needs the last: a past answer must agree on the days
still asked for, and days only leave the window. `PlanInv` proves the same of
the cached schedule (`PlanAgreesWithTable`, a property no run repeats).
`ThinInv`, for `SeriesThinned`: after `k` turns of LTTB the last point is at
most `k + 1` bucket sizes from the start, and by the division the next bucket
begins behind it and is not empty.

**Composition.** Besides the two theorems above, `ModulesStack` has
`TreeholeNavigation` implement `TreeholeSubmission` and `TreeholeTopic`, and
`JobsStandApart` has each job behave as it would alone: a module that EXTENDS
another adds steps, and these theorems say that none of them disturbs the
module below.

**The safety half of liveness.** Five theorems prove, without fairness, that the
steps whose fairness a liveness property assumes lead to its end, and that
nothing else leads away from it:

| theorem | for | what every step does |
|---|---|---|
| `HandlingEnds` | `ChannelDrains` | a step of the worker, a handler that fails included, lowers `Backlog`; only a command that is offered raises it |
| `RequestsEnd` | `LockComesBack` | a request has at most `MaxChunks + 6` steps to its release, its steps lower that, the expiry of the lock does not raise it |
| `RoundsEnd` | `RoundEnds` | a round has at most 19 steps before it, its own lower that, others leave it alone or end it |
| `LifelessIsFound` | `LifelessIsDropped` | a client without life is one `IsConnected` denies, stays so and leaves the manager only closed; a sweep goes on to another client or its end |
| `ClosedComesToRest` | `CloseQuiesces` | a closed client stays closed, and if it changes at all, one of its goroutines moves towards its end |

What is left of those five is that the step in question is enabled while there
is something to do, and the induction over the rank.

With TLC only: the liveness properties `CloseQuiesces`, `LifelessIsDropped`,
`ChannelDrains`, `RoundEnds`, `ExpiredIsClosed`, `FadesOut`, `LockComesBack` and
the fairness half of `ImplementsLink`. Fairness speaks of ENABLED, and an
induction over a rank takes an operator as a parameter; both are out of the
prover's reach. `ExpiredIsClosed` and `FadesOut` have no theorem of their own
above: the job runs for ever, and it is its repetition, not a rank, that closes
a topic in the end.

## 5. Not modelled

* **Songs**: single statements, and one update that checks the new name, reads
  the row and saves it whole in a transaction: of two edits at once the later
  wins with all its fields. Nothing else depends on a song.
* **Object storage and upload callback** (`storage/`, `api/rest/oss*.go`): the
  signing of requests keeps no state, a callback is one INSERT, and the protocol
  between browser and store is not in this repository.
* **HTTP layer and middleware**: binding, validation and role checks in front of
  the services; what a handler does to state is part of the action of its
  service.
* **Process, configuration, utilities**: start-up wiring, connections, id
  generation, Markdown rendering, ciphers; library calls without state.
* **Generated query helpers** (`database/generated`): generated code.

Of the parts that `PROJECT.json` marks as "partly" modelled, the rest is single
statements (paged lists, create and delete by administrators), methods that have
no caller (`Delete`, `DeleteBatch`, `GetOrGenerateSummary`, the writes of the
follower service) and HTTP calls to bilibili, whose only state is the signing
key it gives, fetched once. None has an interleaving of its own. The captcha's
images and tolerances, the password check and the signatures of the tokens keep
no state either. The trigger times of the scheduler are abstracted to
"whenever".

## 6. Plan

The plan is carried out: every part with state that two actors share is
modelled and checked, and every safety property the passing runs check, action
properties and refinements included, is proved. What could still be added:

* the rank of `FadesOut` and `ExpiredIsClosed`, from the run of the job that
  finds the topic on;
* an abstract specification of a cached answer (it is the table's, or was
  overtaken), for the caches of the five components to implement one formula;
* a bounded number of minutes instead of the present one in `ViewerPipeline`, to
  follow the minute sets through a whole day of Redis expiry;
* larger instances of `treehole` with all crews at once, which the theorems
  cover for safety but no run covers for `FadesOut`;
* a third kind of cookie row in `CookieRefresh`, should the code come to use it.
