--------------------------- MODULE ViewerPipeline ---------------------------
(***************************************************************************)
(* The commands of viewers, which share the duplicate suppression, the     *)
(* channel and the worker with LIVE and PREPARING: DANMU_MSG, counted by a *)
(* Redis function (handler_danmu.go, statistics_danmu.lua), and            *)
(* SUPER_CHAT_MESSAGE, stored when it asks for a video (handler_sc.go) and *)
(* looked up by CheckByBV (services/viewer_sc_bv.go).                      *)
(*                                                                         *)
(* The function keeps the danmus of a minute in a set that outlives it,    *)
(* and the worker alone calls it: a minute that turns between the reading  *)
(* of the clock and the call is taken to turn after the call.              *)
(***************************************************************************)
EXTENDS LivePipeline

CONSTANTS Uids, Nobody,  \* senders; Nobody is one without a user id
          Seconds,       \* send times of danmus
          Texts,         \* what they say
          SuperChats,    \* sc_ids, all for one video but Mute, which names none
          Mute,
          Traffic        \* sets of commands that rooms send

VARIABLES
  sent,       \* the commands of this behaviour
  minuteSet,  \* danmu:<room>:<HHMM>:set of the present minute
  score,      \* danmu:<room>: the sorted set of each sender's danmus
  scRows,     \* scRows[r]: viewer_sc_bv_record, rows <<sc_id, id>>
  bvCached, bvFill,
  counted,    \* ghost: the values counted since the scores began
  again       \* ghost: the senders of whom one value was counted in two minutes

danmuVars == <<minuteSet, score, counted, again>>
scVars == <<scRows, bvCached, bvFill>>
viewerVars == <<danmuVars, scVars, sent>>

Danmu == [cmd : {"DANMU_MSG"}, room : Rooms, uid : Uids, ts : Seconds, text : Texts]
SuperChat == [cmd : {"SUPER_CHAT_MESSAGE"}, room : Rooms, sc : SuperChats]
ViewerMessage == Danmu \cup SuperChat

Bv == INSTANCE CacheData WITH Keys <- Rooms, cached <- bvCached, fill <- bvFill

ViewerInit ==
  /\ sent \in Traffic
  /\ minuteSet = {}
  /\ score = [r \in Rooms |-> [u \in Uids |-> 0]]
  /\ scRows = [r \in Rooms |-> {}]
  /\ Bv!CacheInit
  /\ counted = {} /\ again = {}

-----------------------------------------------------------------------------
\* readMessages and Dispatch are the same for every command that has a handler.
\* One that is ignored, unknown or without a handler is remembered as seen, and
\* that is all: so is a danmu named "DANMU_MSG:4:0:2:2:2:0", which ParseCommand
\* knows by its first part and Dispatch looks up by all of them.
DispatchViewer(m) ==
  /\ Receive(m, m)
  /\ UNCHANGED <<inOrder, faithful, viewerVars>>

HandlerReturns ==
  /\ Finish
  /\ UNCHANGED <<happened, offered, recent, channel, table, asked, cached, fill,
                 inOrder, faithful, sent>>

\* statistics_danmu: SADD uid:timestamp to the minute's set, and ZINCRBY if it
\* was not there.  (Redis drops the scores after a day without danmu.)
Value(m) == <<m.room, m.uid, m.ts>>
Count(m) ==
  /\ minuteSet' = minuteSet \cup {Value(m)}
  /\ score' = [score EXCEPT ![m.room][m.uid] = @ + 1]
  /\ counted' = counted \cup {Value(m)}
  /\ again' = IF Value(m) \in counted \ minuteSet
              THEN again \cup {<<m.room, m.uid>>} ELSE again
CountAlways(m) == Count(m)
StatisticsDanmu(m) ==
  IF Value(m) \in minuteSet THEN UNCHANGED danmuVars ELSE Count(m)
HandleDanmu ==
  /\ worker.at = "DANMU_MSG"
  /\ IF worker.msg.uid = Nobody THEN UNCHANGED danmuVars ELSE StatisticsDanmu(worker.msg)
  /\ HandlerReturns
  /\ UNCHANGED scVars

\* insertOnlyScBvRecord: INSERT ... ON CONFLICT (sc_id) DO NOTHING.  The cached
\* answers about the video stay.
InsertSc(rows, s) == rows \cup {<<s, Cardinality(rows) + 1>>}
InsertOnlySc(rows, s) == IF \E x \in rows : x[1] = s THEN rows ELSE InsertSc(rows, s)
HandleSc ==
  LET r == worker.msg.room  s == worker.msg.sc
  IN /\ worker.at = "SUPER_CHAT_MESSAGE"
     /\ scRows' = IF s = Mute THEN scRows
                  ELSE [scRows EXCEPT ![r] = InsertOnlySc(scRows[r], s)]
     /\ HandlerReturns
     /\ UNCHANGED <<danmuVars, bvCached, bvFill>>

\* The call or the statement fails before it has any effect, and is logged.  (One
\* that fails after its effect is no different from one that succeeds.)
ViewerHandlerFails ==
  /\ worker.at \in {"DANMU_MSG", "SUPER_CHAT_MESSAGE"}
  /\ HandlerReturns
  /\ UNCHANGED <<danmuVars, scVars>>

MinuteTurns ==
  /\ minuteSet # {}
  /\ minuteSet' = {}
  /\ UNCHANGED <<vars, score, counted, again, scVars, sent>>
DayPasses ==
  /\ minuteSet = {} /\ counted # {}
  /\ score' = [r \in Rooms |-> [u \in Uids |-> 0]]
  /\ counted' = {} /\ again' = {}
  /\ UNCHANGED <<vars, minuteSet, scVars, sent>>

\* CheckByBV, cached for five minutes.
CheckByBV(r) ==
  /\ Bv!Miss(r, Cardinality(scRows[r]), FALSE) \/ Bv!CacheStep(r)
  /\ UNCHANGED <<vars, danmuVars, scRows, sent>>

-----------------------------------------------------------------------------
ViewerWorkerStep ==
  \/ WorkerStep /\ UNCHANGED viewerVars
  \/ HandleDanmu \/ HandleSc \/ ViewerHandlerFails

LiveNext ==
  /\ \/ \E r \in Rooms : Happen(r) \/ ReaderStep(r)
     \/ \E m \in Message : Dispatch(m) \/ Suppress(m)
  /\ UNCHANGED viewerVars
ViewerNext ==
  \/ \E m \in ViewerMessage : m.cmd \in sent /\ DispatchViewer(m)
  \/ "DANMU_MSG" \in sent /\ (MinuteTurns \/ DayPasses)
  \/ "SUPER_CHAT_MESSAGE" \in sent /\ \E r \in Rooms : CheckByBV(r)

\* What nobody sends is not looked at either.
ViewerPipelineNext ==
  \/ "LIVE" \in sent /\ LiveNext
  \/ ViewerNext
  \/ (\E t \in recent : Forget(t)) /\ UNCHANGED viewerVars
  \/ ViewerWorkerStep
ViewerPipelineInit == Init /\ ViewerInit
ViewerPipelineSpec ==
  /\ ViewerPipelineInit /\ [][ViewerPipelineNext]_<<vars, viewerVars>>
  /\ WF_<<vars, viewerVars>>(ViewerWorkerStep)

-----------------------------------------------------------------------------
(* Properties.                                                             *)

\* Every variable keeps its type, and the channel never holds more than it can:
\* the reader drops what it has no room for, and never waits.
TypeOK ==
  /\ happened \in [Rooms -> 0..MaxEvents] /\ inOrder \in [Rooms -> 0..MaxEvents]
  /\ faithful \in [Rooms -> BOOLEAN]
  /\ offered \in 0..MaxOffered
  /\ channel \in Seq(Message \cup ViewerMessage) /\ Len(channel) <= Capacity
  /\ stats \in [total : Nat, dropped : Nat]
  /\ \/ worker = Idle
     \/ worker \in [at : {"LIVE", "PREPARING", "clean"}, msg : Message]
     \/ worker \in [at : {"update"}, msg : Message, row : Row]
     \/ worker \in [at : {"DANMU_MSG"}, msg : Danmu]
     \/ worker \in [at : {"SUPER_CHAT_MESSAGE"}, msg : SuperChat]
  /\ table \in [Rooms -> SUBSET Row]
  /\ score \in [Rooms -> [Uids -> Nat]]
  /\ minuteSet \subseteq counted /\ counted \subseteq Rooms \X Uids \X Seconds

\* A sender's score is the number of the sender's danmus, told apart by their
\* seconds, however often each was delivered and however many handlers failed,
\* unless one was delivered again in a later minute than it was counted in; and
\* CheckByBV never says more than the number of different super chats.
CountedOnce ==
  \A r \in Rooms :
    /\ \A u \in Uids : <<r, u>> \notin again =>
         score[r][u] = Cardinality({v \in counted : v[1] = r /\ v[2] = u})
    /\ bvCached[r] # Bv!None =>
         bvCached[r].data <= Cardinality({x[1] : x \in scRows[r]})
=============================================================================
