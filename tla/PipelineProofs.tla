--------------------------- MODULE PipelineProofs ---------------------------
(***************************************************************************)
(* Safety of DanmuPipeline for any number of rooms, events and commands:   *)
(* the accounting of the channel, the end of a broadcast, the history of a *)
(* room that lost nothing, the counts, the cached answers; and the codec,  *)
(* for any frames, however deep they are nested.                           *)
(***************************************************************************)
EXTENDS DanmuPipeline, TLAPS, FiniteSetTheorems

Tasks == Message \cup ViewerMessage

\* The worker without a message.
LEMMA IdleAt == Idle.at = "idle"
BY DEF Idle
\* The fields of a live message.
LEMMA MessageType ==
  ASSUME NEW m \in Message
  PROVE  m.room \in Rooms /\ m.event \in Nat /\ m.cmd \in {"LIVE", "PREPARING"}
BY PipelineAssumption DEF Message

WorkerType ==
  \/ worker = Idle
  \/ worker \in [at : {"LIVE", "PREPARING", "clean"}, msg : Message]
  \/ worker \in [at : {"update"}, msg : Message, row : Row]
  \/ worker \in [at : {"DANMU_MSG"}, msg : Danmu]
  \/ worker \in [at : {"SUPER_CHAT_MESSAGE"}, msg : SuperChat]

\* A room's rows differ in their keys, and the row the worker has read is among
\* them, as it was, and still the newest of those that live.
KeysDiffer(rows) == \A x, y \in rows : x.key = y.key => x = y
NewestLiving(row, rows) ==
  /\ row \in rows /\ row.status = Living
  /\ \A y \in rows : y.status = Living => y.start <= row.start
TableInv ==
  /\ happened \in [Rooms -> Nat]
  /\ \A r \in Rooms : happened[r] <= MaxEvents
  /\ table \in [Rooms -> SUBSET Row]
  /\ \A r \in Rooms : KeysDiffer(table[r])
  /\ worker.at = "update" => NewestLiving(worker.row, table[worker.msg.room])

-----------------------------------------------------------------------------
\* The channel's accounts.
AccountInv ==
  /\ offered \in Nat
  /\ stats \in [total : Nat, dropped : Nat]
  /\ channel \in Seq(Tasks)
  /\ WorkerType
  /\ NothingUncounted

\* A message is queued, or counted as dropped.
LEMMA ReceiveKeeps ==
  ASSUME AccountInv, NEW m \in Tasks, NEW text, Receive(m, text) PROVE AccountInv'
<1>1. offered' = offered + 1 /\ UNCHANGED worker
      BY DEF Receive
<1>2. WorkerType'
      BY <1>1 DEF AccountInv, WorkerType
<1>3. CASE channel' = Append(channel, m) /\ UNCHANGED stats
  <2>1. channel' \in Seq(Tasks) /\ Len(channel') = Len(channel) + 1
        BY <1>3 DEF AccountInv
  <2> QED
        BY <1>1, <1>2, <1>3, <2>1 DEF AccountInv, NothingUncounted
<1>4. CASE stats' = [stats EXCEPT !.dropped = @ + 1] /\ UNCHANGED channel
  <2>1. /\ stats' \in [total : Nat, dropped : Nat]
        /\ stats'.total = stats.total /\ stats'.dropped = stats.dropped + 1
        BY <1>4 DEF AccountInv
  <2> QED
        BY <1>1, <1>2, <1>4, <2>1 DEF AccountInv, NothingUncounted
<1> QED
      BY <1>3, <1>4 DEF Receive, Offer

\* The worker counts a message and lets go of it.
LEMMA FinishKeeps ==
  ASSUME AccountInv, worker # Idle, Finish, UNCHANGED <<offered, channel>> PROVE AccountInv'
<1>1. worker' = Idle /\ stats' = [stats EXCEPT !.total = @ + 1]
      BY DEF Finish
<1>2. /\ stats' \in [total : Nat, dropped : Nat]
      /\ stats'.total = stats.total + 1 /\ stats'.dropped = stats.dropped
      BY <1>1 DEF AccountInv
<1> QED
      BY <1>1, <1>2 DEF AccountInv, NothingUncounted, WorkerType

\* A handler that goes on, and every step the worker has no part in.
LEMMA WorksOn ==
  ASSUME AccountInv, worker # Idle, worker' # Idle, WorkerType', UNCHANGED <<offered, channel, stats>>
  PROVE  AccountInv'
BY DEF AccountInv, NothingUncounted
\* Steps that touch neither channel nor counters.
LEMMA Elsewhere ==
  ASSUME AccountInv, UNCHANGED <<offered, channel, stats, worker>> PROVE AccountInv'
BY DEF AccountInv, NothingUncounted, WorkerType

\* A message moves from the channel to the worker.
LEMMA TakeKeeps == ASSUME AccountInv, Take PROVE AccountInv'
<1> DEFINE m == Head(channel)
<1>1. /\ worker = Idle /\ channel # <<>> /\ worker' = [at |-> m.cmd, msg |-> m]
      /\ channel' = Tail(channel) /\ UNCHANGED <<offered, stats>>
      BY DEF Take, upstream
<1>2. m \in Tasks /\ channel' \in Seq(Tasks) /\ Len(channel') = Len(channel) - 1
      BY <1>1 DEF AccountInv
<1>3. worker'.at = m.cmd /\ worker'.msg = m
      BY <1>1
<1>4. WorkerType' /\ worker' # Idle
  <2>1. CASE m \in Message
        BY <1>1, <1>3, <2>1, MessageType, IdleAt DEF WorkerType
  <2>2. CASE m \in Danmu
    <3>1. m.cmd = "DANMU_MSG"
          BY <2>2 DEF Danmu
    <3> QED
          BY <1>1, <1>3, <2>2, <3>1, IdleAt DEF WorkerType
  <2>3. CASE m \in SuperChat
    <3>1. m.cmd = "SUPER_CHAT_MESSAGE"
          BY <2>3 DEF SuperChat
    <3> QED
          BY <1>1, <1>3, <2>3, <3>1, IdleAt DEF WorkerType
  <2> QED
        BY <1>2, <2>1, <2>2, <2>3 DEF Tasks, ViewerMessage
<1> QED
      BY <1>1, <1>2, <1>4 DEF AccountInv, NothingUncounted

\* Every step keeps the account of the messages.
LEMMA AccountStep ==
  ASSUME AccountInv, TableInv, [ViewerPipelineNext]_<<vars, viewerVars>> PROVE AccountInv'
<1>0. ASSUME worker = Idle PROVE worker.at = "idle"
      BY <1>0, IdleAt
<1>1. CASE LiveNext
  <2>1. ASSUME NEW r \in Rooms, Happen(r) \/ ReaderStep(r) PROVE AccountInv'
        BY <2>1, Elsewhere DEF Happen, ReaderStep, upstream
  <2>2. ASSUME NEW m \in Message, Dispatch(m) PROVE AccountInv'
        BY <2>2, ReceiveKeeps DEF Dispatch, Tasks
  <2>3. ASSUME NEW m \in Message, Suppress(m) PROVE AccountInv'
        BY <2>3, Elsewhere DEF Suppress
  <2> QED
        BY <1>1, <2>1, <2>2, <2>3 DEF LiveNext
<1>2. CASE ViewerNext
  <2>1. ASSUME NEW m \in ViewerMessage, DispatchViewer(m) PROVE AccountInv'
        BY <2>1, ReceiveKeeps DEF DispatchViewer, Tasks
  <2>2. CASE MinuteTurns \/ DayPasses
        BY <2>2, Elsewhere DEF MinuteTurns, DayPasses, vars
  <2>3. ASSUME NEW r \in Rooms, CheckByBV(r) PROVE AccountInv'
        BY <2>3, Elsewhere DEF CheckByBV, vars
  <2> QED
        BY <1>2, <2>1, <2>2, <2>3 DEF ViewerNext
<1>3. ASSUME NEW t \in recent, Forget(t) PROVE AccountInv'
      BY <1>3, Elsewhere DEF Forget
<1>4. CASE Take
      BY <1>4, TakeKeeps
<1>5. CASE FailHandler \/ UpdateRejected \/ Clean
      BY <1>0, <1>5, FinishKeeps DEF FailHandler, UpdateRejected, Clean
<1>6. CASE HandleLive
  <2>1. /\ worker.at = "LIVE" /\ worker' = [worker EXCEPT !.at = "clean"]
        /\ UNCHANGED <<offered, channel, stats>>
        BY <1>6 DEF HandleLive, upstream
  <2>2. worker \in [at : {"LIVE", "PREPARING", "clean"}, msg : Message]
        BY <2>1, IdleAt DEF AccountInv, WorkerType
  <2>3. worker' \in [at : {"LIVE", "PREPARING", "clean"}, msg : Message] /\ worker'.at = "clean"
        BY <2>1, <2>2
  <2> QED
        BY <2>1, <2>3, IdleAt, WorksOn DEF WorkerType
<1>7. CASE SelectLiving
  <2>1. /\ worker.at = "PREPARING" /\ UNCHANGED <<offered, channel>>
        BY <1>7 DEF SelectLiving
  <2>2. CASE Finish
        BY <1>0, <2>1, <2>2, FinishKeeps
  <2>3. ASSUME NEW row \in table[worker.msg.room], UNCHANGED stats, row \in Row,
               worker' = [at |-> "update", msg |-> worker.msg, row |-> row]
        PROVE  AccountInv'
    <3>1. worker.msg \in Message
          BY <2>1, IdleAt DEF AccountInv, WorkerType
    <3>2. worker' \in [at : {"update"}, msg : Message, row : Row] /\ worker'.at = "update"
          BY <2>3, <3>1
    <3> QED
          BY <2>1, <2>3, <3>2, IdleAt, WorksOn DEF WorkerType
  <2>4. table[worker.msg.room] \subseteq Row
    <3>1. worker.msg \in Message
          BY <2>1, IdleAt DEF AccountInv, WorkerType
    <3> QED
          BY <3>1, MessageType DEF TableInv
  <2> QED
        BY <1>7, <2>2, <2>3, <2>4 DEF SelectLiving
<1>8. CASE UpdateRow
  <2>1. /\ worker.at = "update" /\ worker' = [at |-> "clean", msg |-> worker.msg]
        /\ UNCHANGED <<offered, channel, stats>>
        BY <1>8 DEF UpdateRow, upstream
  <2>2. worker.msg \in Message
        BY <2>1, IdleAt DEF AccountInv, WorkerType
  <2>3. worker' \in [at : {"LIVE", "PREPARING", "clean"}, msg : Message] /\ worker'.at = "clean"
        BY <2>1, <2>2
  <2> QED
        BY <2>1, <2>3, IdleAt, WorksOn DEF WorkerType
<1>9. CASE HandleDanmu \/ HandleSc \/ ViewerHandlerFails
      BY <1>0, <1>9, FinishKeeps DEF HandleDanmu, HandleSc, ViewerHandlerFails, HandlerReturns
<1>10. CASE UNCHANGED <<vars, viewerVars>>
      BY <1>10, Elsewhere DEF vars
<1> QED
      BY <1>1, <1>2, <1>3, <1>4, <1>5, <1>6, <1>7, <1>8, <1>9, <1>10
         DEF ViewerPipelineNext, ViewerWorkerStep, WorkerStep
-----------------------------------------------------------------------------
\* The rows.

\* The INSERT of LIVE begins a broadcast, or finds it recorded.
LEMMA InsertBegins ==
  ASSUME AccountInv, TableInv, HandleLive
  PROVE  TableInv' /\ (Records!RecordsNext \/ UNCHANGED table)
<1> DEFINE m == worker.msg
           row == NewRow(m)
<1>1. /\ worker.at = "LIVE" /\ worker' = [worker EXCEPT !.at = "clean"]
      /\ table' = [table EXCEPT ![m.room] = AfterInsert(table[m.room], row)]
      /\ UNCHANGED happened
      BY DEF HandleLive, SetRows, upstream
<1>2. worker \in [at : {"LIVE", "PREPARING", "clean"}, msg : Message]
      BY <1>1, IdleAt DEF AccountInv, WorkerType
<1>3. worker'.at = "clean"
      BY <1>1, <1>2
<1>4. m.room \in Rooms /\ m.event \in 1..MaxEvents /\ m.event \in 0..MaxEvents /\ m.event \in Nat
      BY <1>2, PipelineAssumption, MessageType DEF Message
<1>5. row \in Row
  <2>1. Session(m.event) \in Nat
        BY <1>4 DEF Session
  <2> QED
        BY <1>4, <2>1 DEF NewRow, Row, Living
<1>6. /\ Session(m.event) \in {Session(e) : e \in 1..MaxEvents}
      /\ row = [key |-> Session(m.event), start |-> m.event, status |-> "living", end |-> 0]
      /\ row.key = Session(m.event)
      BY <1>4 DEF NewRow, Living
<1> HIDE DEF row, m
<1>7. /\ AfterInsert(table[m.room], row) \subseteq Row
      /\ KeysDiffer(AfterInsert(table[m.room], row))
      BY <1>4, <1>5 DEF TableInv, AfterInsert, KeysDiffer
<1>8. table' \in [Rooms -> SUBSET Row] /\ \A r \in Rooms : KeysDiffer(table'[r])
      BY <1>1, <1>4, <1>7 DEF TableInv
<1>9. TableInv'
      BY <1>1, <1>3, <1>8 DEF TableInv
<1>10. CASE \E x \in table[m.room] : x.key = row.key
  <2>1. table' = table
        BY <1>1, <1>4, <1>10 DEF TableInv, AfterInsert
  <2> QED
        BY <1>9, <2>1
<1>11. CASE \A x \in table[m.room] : x.key # row.key
  <2>1. table' = [table EXCEPT ![m.room] = table[m.room] \cup {row}]
        BY <1>1, <1>11 DEF AfterInsert
  <2>2. Records!Begin(m.room, Session(m.event), m.event)
        BY <1>6, <1>11, <2>1 DEF Records!Begin
  <2> QED
        BY <1>4, <1>6, <1>9, <2>2 DEF Records!RecordsNext
<1> QED
      BY <1>10, <1>11

\* The update of PREPARING ends the broadcast that is the newest now.
LEMMA UpdateEnds ==
  ASSUME AccountInv, TableInv, UpdateRow
  PROVE  TableInv' /\ Records!RecordsNext
<1> DEFINE m == worker.msg
           row == worker.row
           ended == [row EXCEPT !.status = Ended, !.end = EndTime(m)]
           rest == {x \in table[m.room] : x.key # row.key}
<1>1. /\ worker.at = "update" /\ worker' = [at |-> "clean", msg |-> m]
      /\ table' = [table EXCEPT ![m.room] = rest \cup {ended}]
      /\ EndTime(m) >= row.start
      /\ UNCHANGED happened
      BY DEF UpdateRow, SetRows, EndsInTime, upstream
<1>2. m \in Message /\ row \in Row
      BY <1>1, IdleAt DEF AccountInv, WorkerType
<1>3. m.room \in Rooms /\ m.event \in 0..MaxEvents /\ worker'.at = "clean"
      BY <1>1, <1>2, PipelineAssumption DEF Message
<1>4. EndTime(m) \in 0..MaxEvents
      BY <1>3, PipelineAssumption DEF EndTime, TableInv
<1>5. ended \in Row /\ ended.key = row.key
  <2>1. EndTime(m) \in Nat
        BY <1>4, PipelineAssumption
  <2> QED
        BY <1>2, <2>1 DEF Row
<1>6. /\ NewestLiving(row, table[m.room])
      /\ KeysDiffer(table[m.room]) /\ table[m.room] \subseteq Row
      BY <1>1, <1>3 DEF TableInv
<1>7. rest = table[m.room] \ {row}
      BY <1>6 DEF KeysDiffer, NewestLiving
<1>8. Records!End(m.room, row, EndTime(m))
  <2>1. \A y \in Records!Running(table[m.room]) : y.start <= row.start
        BY <1>6 DEF NewestLiving, Records!Running, Living
  <2> QED
        BY <1>1, <1>7, <2>1 DEF Records!End, Ended
<1>9. row \in Records!Running(table[m.room])
      BY <1>6 DEF NewestLiving, Records!Running, Living
<1>10. Records!RecordsNext
      BY <1>3, <1>4, <1>8, <1>9 DEF Records!RecordsNext
<1> HIDE DEF m, row, ended
<1>11. rest \cup {ended} \subseteq Row /\ KeysDiffer(rest \cup {ended})
      BY <1>5, <1>6 DEF KeysDiffer
<1> HIDE DEF rest
<1>12. table' \in [Rooms -> SUBSET Row] /\ \A r \in Rooms : KeysDiffer(table'[r])
      BY <1>1, <1>3, <1>11 DEF TableInv
<1> QED
      BY <1>1, <1>3, <1>10, <1>12 DEF TableInv

\* Steps that leave the records alone.
LEMMA RowsStay ==
  ASSUME TableInv, UNCHANGED table,
         happened' \in [Rooms -> Nat], \A r \in Rooms : happened'[r] <= MaxEvents,
         worker'.at # "update" \/ UNCHANGED worker
  PROVE  TableInv'
BY DEF TableInv

\* Every step begins a broadcast, ends the newest one, or leaves the records alone.
LEMMA TableStep ==
  ASSUME AccountInv, TableInv, [ViewerPipelineNext]_<<vars, viewerVars>>
  PROVE  TableInv' /\ (Records!RecordsNext \/ UNCHANGED table)
<1>1. CASE HandleLive
      BY <1>1, InsertBegins
<1>2. CASE UpdateRow
      BY <1>2, UpdateEnds
<1>3. CASE SelectLiving
  <2>1. UNCHANGED <<table, happened>> /\ worker.at = "PREPARING"
        BY <1>3 DEF SelectLiving
  <2>2. CASE Finish
        BY <2>1, <2>2, IdleAt, RowsStay DEF Finish, TableInv
  <2>3. ASSUME NEW row \in {x \in table[worker.msg.room] : x.status = Living},
               IsNewest(row, {x \in table[worker.msg.room] : x.status = Living}),
               worker' = [at |-> "update", msg |-> worker.msg, row |-> row]
        PROVE  TableInv'
    <3>1. worker'.row = row /\ worker'.msg = worker.msg
          BY <2>3
    <3>2. NewestLiving(row, table[worker.msg.room])
          BY <2>3 DEF NewestLiving, IsNewest
    <3> QED
          BY <2>1, <3>1, <3>2 DEF TableInv
  <2> QED
        BY <1>3, <2>1, <2>2, <2>3 DEF SelectLiving
<1>4. CASE Take
  <2>1. Head(channel) \in Tasks /\ worker'.at = Head(channel).cmd /\ UNCHANGED <<table, happened>>
        BY <1>4 DEF Take, AccountInv, upstream
  <2>2. worker'.at # "update"
        BY <2>1, MessageType DEF Tasks, ViewerMessage, Danmu, SuperChat
  <2> QED
        BY <2>1, <2>2, RowsStay DEF TableInv
<1>5. CASE Finish /\ UNCHANGED <<table, happened>>
      BY <1>5, IdleAt, RowsStay DEF Finish, TableInv
<1>6. CASE UNCHANGED <<worker, table, happened>>
      BY <1>6, RowsStay DEF TableInv
<1>7. ASSUME NEW r \in Rooms, Happen(r)
      PROVE  UNCHANGED <<worker, table>> /\ TableInv'
  <2>1. UNCHANGED <<worker, table>> /\ happened' \in [Rooms -> Nat]
        BY <1>7 DEF Happen, TableInv
  <2>2. \A s \in Rooms : happened'[s] <= MaxEvents
        BY <1>7, PipelineAssumption DEF Happen, TableInv
  <2> QED
        BY <2>1, <2>2, RowsStay
<1>8. CASE LiveNext
      BY <1>6, <1>7, <1>8 DEF LiveNext, Dispatch, Suppress, Receive, ReaderStep, upstream
<1>9. CASE ViewerNext \/ \E t \in recent : Forget(t)
      BY <1>6, <1>9 DEF ViewerNext, DispatchViewer, Receive, MinuteTurns, DayPasses, CheckByBV, vars, Forget
<1>10. CASE FailHandler \/ UpdateRejected \/ Clean \/ HandleDanmu \/ HandleSc \/ ViewerHandlerFails
      BY <1>5, <1>10 DEF FailHandler, UpdateRejected, Clean, HandleDanmu, HandleSc, ViewerHandlerFails,
         HandlerReturns
<1> QED
      BY <1>1, <1>2, <1>3, <1>4, <1>6, <1>8, <1>9, <1>10
         DEF ViewerPipelineNext, ViewerWorkerStep, WorkerStep, vars
-----------------------------------------------------------------------------
\* The danmus counted.
Of(S, r, u) == {v \in S : v[1] = r /\ v[2] = u}
CountInv ==
  /\ IsFiniteSet(counted)
  /\ score \in [Rooms -> [Uids -> Nat]]
  /\ \A r \in Rooms, u \in Uids : <<r, u>> \notin again => score[r][u] = Cardinality(Of(counted, r, u))

\* A message nobody counted this minute raises the score of its sender.
LEMMA CountKeeps ==
  ASSUME CountInv, NEW m \in Danmu, Value(m) \notin minuteSet, Count(m) PROVE CountInv'
<1> DEFINE v == Value(m)
<1>1. /\ m.room \in Rooms /\ m.uid \in Uids /\ v[1] = m.room /\ v[2] = m.uid
      BY DEF Danmu, Value
<1>2. /\ counted' = counted \cup {v} /\ score' = [score EXCEPT ![m.room][m.uid] = @ + 1]
      /\ again \subseteq again'
      /\ v \in counted => <<m.room, m.uid>> \in again'
      BY DEF Count
<1> HIDE DEF v
<1>3. IsFiniteSet(counted')
      BY <1>2, FS_AddElement DEF CountInv
<1>4. score' \in [Rooms -> [Uids -> Nat]]
      BY <1>1, <1>2 DEF CountInv
<1>5. ASSUME NEW r \in Rooms, NEW u \in Uids, <<r, u>> \notin again'
      PROVE  score'[r][u] = Cardinality(Of(counted', r, u))
  <2>1. score[r][u] = Cardinality(Of(counted, r, u))
        BY <1>2, <1>5 DEF CountInv
  <2>2. CASE r = m.room /\ u = m.uid
    <3>1. v \notin Of(counted, r, u)
          BY <1>2, <1>5, <2>2 DEF Of
    <3>2. Of(counted', r, u) = Of(counted, r, u) \cup {v}
          BY <1>1, <1>2, <2>2 DEF Of
    <3>3. IsFiniteSet(Of(counted, r, u))
      <4>1. Of(counted, r, u) \in SUBSET counted
            BY DEF Of
      <4> QED
            BY <4>1, FS_Subset DEF CountInv
    <3>4. Cardinality(Of(counted', r, u)) = Cardinality(Of(counted, r, u)) + 1
          BY <3>1, <3>2, <3>3, FS_AddElement
    <3>5. score'[r][u] = score[r][u] + 1
          BY <1>1, <1>2, <2>2 DEF CountInv
    <3> QED
          BY <2>1, <3>4, <3>5
  <2>3. CASE ~(r = m.room /\ u = m.uid)
    <3>1. Of(counted', r, u) = Of(counted, r, u)
          BY <1>1, <1>2, <2>3 DEF Of
    <3>2. score'[r][u] = score[r][u]
          BY <1>1, <1>2, <2>3 DEF CountInv
    <3> QED
          BY <2>1, <3>1, <3>2
  <2> QED
        BY <2>2, <2>3
<1> QED
      BY <1>3, <1>4, <1>5 DEF CountInv

\* The scores begin anew.
LEMMA DayPassesKeeps == ASSUME CountInv, DayPasses PROVE CountInv'
<1>1. /\ counted' = {} /\ again' = {}
      /\ score' = [r \in Rooms |-> [u \in Uids |-> 0]]
      BY DEF DayPasses
<1>2. \A r, u : Of(counted', r, u) = {}
      BY <1>1 DEF Of
<1> QED
      BY <1>1, <1>2, FS_EmptySet DEF CountInv

\* Every step keeps the scores in line with the messages counted.
LEMMA CountStep ==
  ASSUME AccountInv, CountInv, [ViewerPipelineNext]_<<vars, viewerVars>> PROVE CountInv'
<1>1. CASE HandleDanmu
  <2>1. worker.msg \in Danmu
        BY <1>1, IdleAt DEF HandleDanmu, AccountInv, WorkerType
  <2>2. CASE UNCHANGED danmuVars
        BY <2>2 DEF danmuVars, CountInv
  <2>3. CASE Value(worker.msg) \notin minuteSet /\ Count(worker.msg)
        BY <2>1, <2>3, CountKeeps
  <2> QED
        BY <1>1, <2>2, <2>3 DEF HandleDanmu, StatisticsDanmu
<1>2. CASE DayPasses
      BY <1>2, DayPassesKeeps
<1>3. CASE UNCHANGED <<score, counted, again>>
      BY <1>3 DEF CountInv
<1> QED
      BY <1>1, <1>2, <1>3
         DEF ViewerPipelineNext, LiveNext, ViewerNext, ViewerWorkerStep, DispatchViewer, MinuteTurns,
             CheckByBV, HandleSc, ViewerHandlerFails, viewerVars, danmuVars

-----------------------------------------------------------------------------
\* The super chats stored, and what is cached of their number.
Ids(rows) == {x[1] : x \in rows}
AtMost(e, rows) == e = Bv!None \/ (e.data \in Nat /\ e.data <= Cardinality(Ids(rows)))
Distinct(rows) ==
  IsFiniteSet(rows) /\ IsFiniteSet(Ids(rows)) /\ Cardinality(rows) = Cardinality(Ids(rows))
ScInv ==
  /\ DOMAIN scRows = Rooms /\ DOMAIN bvCached = Rooms /\ DOMAIN bvFill = Rooms
  /\ \A r \in Rooms : /\ Distinct(scRows[r])
                       /\ AtMost(bvCached[r], scRows[r]) /\ AtMost(bvFill[r], scRows[r])

\* An insert never doubles a row, nor loses one.
LEMMA InsertDistinct ==
  ASSUME NEW rows, NEW s, Distinct(rows)
  PROVE  /\ Distinct(InsertOnlySc(rows, s))
         /\ Cardinality(Ids(rows)) \in Nat /\ Cardinality(Ids(InsertOnlySc(rows, s))) \in Nat
         /\ Cardinality(Ids(rows)) <= Cardinality(Ids(InsertOnlySc(rows, s)))
<1>1. Cardinality(Ids(rows)) \in Nat
      BY FS_CardinalityType DEF Distinct
<1>2. CASE \E x \in rows : x[1] = s
      BY <1>1, <1>2 DEF InsertOnlySc
<1>3. CASE ~\E x \in rows : x[1] = s
  <2> DEFINE new == <<s, Cardinality(rows) + 1>>
  <2>1. InsertOnlySc(rows, s) = rows \cup {new}
        BY <1>3 DEF InsertOnlySc, InsertSc
  <2>2. new[1] = s
        OBVIOUS
  <2> HIDE DEF new
  <2>3. Ids(rows \cup {new}) = Ids(rows) \cup {s} /\ s \notin Ids(rows) /\ new \notin rows
        BY <1>3, <2>2 DEF Ids
  <2>4. /\ IsFiniteSet(rows \cup {new}) /\ Cardinality(rows \cup {new}) = Cardinality(rows) + 1
        BY <2>3, FS_AddElement DEF Distinct
  <2>5. /\ IsFiniteSet(Ids(rows) \cup {s})
        /\ Cardinality(Ids(rows) \cup {s}) = Cardinality(Ids(rows)) + 1
        BY <2>3, FS_AddElement DEF Distinct
  <2>6. Distinct(rows \cup {new})
    <3>1. Cardinality(rows) = Cardinality(Ids(rows))
          BY DEF Distinct
    <3> QED
          BY <2>3, <2>4, <2>5, <3>1 DEF Distinct
  <2>7. Cardinality(Ids(InsertOnlySc(rows, s))) = Cardinality(Ids(rows)) + 1
        BY <2>1, <2>3, <2>5
  <2> QED
        BY <1>1, <2>1, <2>6, <2>7
<1> QED
      BY <1>2, <1>3

\* A paid message arrives, perhaps again.
LEMMA HandleScKeeps == ASSUME AccountInv, ScInv, HandleSc PROVE ScInv'
<1> DEFINE r == worker.msg.room
           s == worker.msg.sc
<1>1. UNCHANGED <<bvCached, bvFill>>
      BY DEF HandleSc
<1>2. r \in Rooms
  <2>1. worker.msg \in SuperChat
        BY IdleAt DEF HandleSc, AccountInv, WorkerType
  <2> QED
        BY <2>1 DEF SuperChat
<1>3. CASE scRows' = scRows
      BY <1>1, <1>3 DEF ScInv
<1>4. CASE scRows' = [scRows EXCEPT ![r] = InsertOnlySc(scRows[r], s)]
  <2>1. DOMAIN scRows' = Rooms /\ scRows'[r] = InsertOnlySc(scRows[r], s)
        BY <1>2, <1>4 DEF ScInv
  <2>2. \A q \in Rooms : q # r => scRows'[q] = scRows[q]
        BY <1>4 DEF ScInv
  <2> HIDE DEF r, s
  <2>3. Distinct(scRows[r])
        BY <1>2 DEF ScInv
  <2>4. /\ Distinct(scRows'[r])
        /\ Cardinality(Ids(scRows[r])) \in Nat /\ Cardinality(Ids(scRows'[r])) \in Nat
        /\ Cardinality(Ids(scRows[r])) <= Cardinality(Ids(scRows'[r]))
        BY <2>1, <2>3, InsertDistinct
  <2>5. ASSUME NEW e, AtMost(e, scRows[r]) PROVE AtMost(e, scRows'[r])
        BY <2>4, <2>5 DEF AtMost
  <2> QED
        BY <1>1, <1>2, <2>1, <2>2, <2>4, <2>5 DEF ScInv
<1> QED
      BY <1>3, <1>4 DEF HandleSc

\* CheckByBV reads through its cache.
LEMMA CheckKeeps == ASSUME ScInv, NEW r \in Rooms, CheckByBV(r) PROVE ScInv'
<1>1. UNCHANGED scRows
      BY DEF CheckByBV
<1>2. CASE Bv!Miss(r, Cardinality(scRows[r]), FALSE)
  <2> DEFINE e == Bv!Entry(Cardinality(scRows[r]), FALSE)
  <2>1. bvFill' = [bvFill EXCEPT ![r] = e] /\ UNCHANGED bvCached
        BY <1>2 DEF Bv!Miss
  <2>2. e.data = Cardinality(scRows[r])
        BY DEF Bv!Entry
  <2> HIDE DEF e
  <2>3. AtMost(e, scRows[r])
        BY <2>2, FS_CardinalityType DEF ScInv, AtMost, Distinct
  <2> QED
        BY <1>1, <2>1, <2>3 DEF ScInv
<1>3. AtMost(Bv!None, scRows[r])
      BY DEF AtMost
<1>4. CASE Bv!CacheStep(r)
      BY <1>1, <1>3, <1>4 DEF Bv!CacheStep, Bv!Store, Bv!StoreFails, Bv!Expire, ScInv
<1> QED
      BY <1>2, <1>4 DEF CheckByBV

\* Every step keeps the paid messages and what CheckByBV knows of them.
LEMMA ScStep ==
  ASSUME AccountInv, ScInv, [ViewerPipelineNext]_<<vars, viewerVars>> PROVE ScInv'
<1>1. CASE HandleSc
      BY <1>1, HandleScKeeps
<1>2. ASSUME NEW r \in Rooms, CheckByBV(r) PROVE ScInv'
      BY <1>2, CheckKeeps
<1>3. CASE UNCHANGED scVars
      BY <1>3 DEF scVars, ScInv
<1> QED
      BY <1>1, <1>2, <1>3
         DEF ViewerPipelineNext, LiveNext, ViewerNext, ViewerWorkerStep, DispatchViewer, MinuteTurns,
             DayPasses, HandleDanmu, ViewerHandlerFails, viewerVars
-----------------------------------------------------------------------------
\* The two cached queries of a room.
RoomKeys == UNION {KeysOf(r) : r \in Rooms}
Shaped(e) == e = None \/ "raced" \in DOMAIN e
Sound(e, answer) == e = None \/ e.raced = TRUE \/ e.data = answer
Cleaning(r) == worker # Idle /\ worker.at = "clean" /\ worker.msg.room = r

CacheType ==
  /\ DOMAIN cached = RoomKeys /\ DOMAIN fill = RoomKeys
  /\ \A k \in RoomKeys : Shaped(cached[k]) /\ Shaped(fill[k])
\* An answer on its way is the present one or raced; one in Redis may also be
\* about to be cleared.
FillSound(r) ==
  Sound(fill[LatestKey(r)], Newest(table[r])) /\ Sound(fill[WeekKey(r)], WeekRows(r))
CachedSound(r) ==
  Sound(cached[LatestKey(r)], Newest(table[r])) /\ Sound(cached[WeekKey(r)], WeekRows(r))
StaleInv == CacheType /\ \A r \in Rooms : FillSound(r) /\ (Cleaning(r) \/ CachedSound(r))

\* An entry a writer overtook stays an entry, and says so.
LEMMA RacedIs ==
  ASSUME NEW e, Shaped(e)
  PROVE  /\ Shaped(Raced(e))
         /\ Raced(e) = None \/ Raced(e).raced = TRUE
BY DEF Shaped, Raced
\* What a fill stores is what the table answers.
LEMMA EntryIs ==
  ASSUME NEW answer PROVE Shaped(Entry(answer, FALSE)) /\ Sound(Entry(answer, FALSE), answer)
BY DEF Shaped, Entry, Sound
\* The two keys of a room differ from each other and from other rooms'.
LEMMA KeysAre ==
  /\ \A r \in Rooms : LatestKey(r) \in RoomKeys /\ WeekKey(r) \in RoomKeys
  /\ \A r \in Rooms : LatestKey(r) \in KeysOf(r) /\ WeekKey(r) \in KeysOf(r)
  /\ \A r, q : LatestKey(r) # WeekKey(q) /\ (r # q => LatestKey(r) \notin KeysOf(q) /\ WeekKey(r) \notin KeysOf(q))
BY DEF LatestKey, WeekKey, KeysOf, RoomKeys

\* A handler's statement overtakes the queries in flight, and its cleaning is due.
LEMMA StatementKeeps ==
  ASSUME StaleInv, TableInv, NEW r \in Rooms, NEW rows, SetRows(r, rows), UNCHANGED <<cached, happened>>,
         \A q \in Rooms : ~Cleaning(q), Cleaning(r)'
  PROVE  StaleInv'
<1>1. /\ table' = [table EXCEPT ![r] = rows]
      /\ fill' = [k \in RoomKeys |-> IF k \in KeysOf(r) THEN Raced(fill[k]) ELSE fill[k]]
      BY DEF SetRows, OvertakeAll, RoomKeys
<1>2. CacheType'
      BY <1>1, RacedIs DEF StaleInv, CacheType
<1>3. FillSound(r)'
  <2>1. fill'[LatestKey(r)] = Raced(fill[LatestKey(r)]) /\ fill'[WeekKey(r)] = Raced(fill[WeekKey(r)])
        BY <1>1, KeysAre
  <2>2. Shaped(fill[LatestKey(r)]) /\ Shaped(fill[WeekKey(r)])
        BY KeysAre DEF StaleInv, CacheType
  <2>3. /\ fill'[LatestKey(r)] = None \/ fill'[LatestKey(r)].raced = TRUE
        /\ fill'[WeekKey(r)] = None \/ fill'[WeekKey(r)].raced = TRUE
        BY <2>1, <2>2, RacedIs
  <2> QED
        BY <2>3 DEF FillSound, Sound
<1>4. ASSUME NEW q \in Rooms, q # r PROVE FillSound(q)' /\ CachedSound(q)'
  <2>1. fill'[LatestKey(q)] = fill[LatestKey(q)] /\ fill'[WeekKey(q)] = fill[WeekKey(q)]
        BY <1>1, <1>4, KeysAre
  <2>2. table'[q] = table[q]
        BY <1>1, <1>4 DEF TableInv
  <2> QED
        BY <2>1, <2>2 DEF StaleInv, FillSound, CachedSound, WeekRows
<1> QED
      BY <1>2, <1>3, <1>4 DEF StaleInv

\* The handler deletes the keys of its room.
LEMMA CleanKeeps == ASSUME AccountInv, StaleInv, Clean PROVE StaleInv'
<1>1. UNCHANGED <<table, fill, happened>> /\ worker # Idle /\ worker.at = "clean"
      BY IdleAt DEF Clean
<1>2. PICK r \in Rooms : worker.msg.room = r
      BY <1>1, MessageType DEF AccountInv, WorkerType
<1>3. /\ DOMAIN cached' = RoomKeys
      /\ \A k \in RoomKeys : cached'[k] \in {None, cached[k], Raced(cached[k])}
      /\ \A k \in RoomKeys \cap KeysOf(r) : cached'[k] \in {None, Raced(cached[k])}
      BY <1>2 DEF Clean, InvalidateAll, RoomKeys
<1>4. ASSUME NEW e, NEW f, NEW answer, f \in {None, e, Raced(e)}, Shaped(e), Sound(e, answer)
      PROVE  Sound(f, answer)
      BY <1>4, RacedIs DEF Sound
<1>5. ASSUME NEW e, NEW f, NEW answer, f \in {None, Raced(e)}, Shaped(e)
      PROVE  Sound(f, answer)
      BY <1>5, RacedIs DEF Sound
<1>6. \A k \in RoomKeys : Shaped(cached[k])
      BY DEF StaleInv, CacheType
<1>7. CachedSound(r)'
  <2>1. /\ Sound(cached'[LatestKey(r)], Newest(table[r]))
        /\ Sound(cached'[WeekKey(r)], WeekRows(r))
        BY <1>2, <1>3, <1>5, <1>6, KeysAre
  <2>2. WeekRows(r)' = WeekRows(r) /\ Newest(table[r])' = Newest(table[r])
        BY <1>1 DEF WeekRows
  <2> QED
        BY <2>1, <2>2 DEF CachedSound
<1>8. ASSUME NEW q \in Rooms, q # r PROVE CachedSound(q)'
  <2>1. CachedSound(q)
        BY <1>1, <1>2, <1>8 DEF StaleInv, Cleaning
  <2>2. /\ Sound(cached'[LatestKey(q)], Newest(table[q]))
        /\ Sound(cached'[WeekKey(q)], WeekRows(q))
        BY <1>3, <1>4, <1>6, <2>1, KeysAre DEF CachedSound
  <2> QED
        BY <1>1, <2>2 DEF CachedSound, WeekRows, Sound
<1>9. \A q \in Rooms : FillSound(q)'
      BY <1>1 DEF StaleInv, FillSound, WeekRows
<1>10. CacheType'
      BY <1>1, <1>3, <1>6, RacedIs DEF StaleInv, CacheType, Shaped
<1>11. \A q \in Rooms : CachedSound(q)'
      BY <1>7, <1>8
<1> QED
      BY <1>9, <1>10, <1>11 DEF StaleInv
\* A step of the worker that touches neither the rows nor the entries, and leaves
\* no cleaning undone.
LEMMA CacheStays ==
  ASSUME StaleInv, UNCHANGED <<table, happened, cached, fill>>,
         \A r \in Rooms : Cleaning(r) => Cleaning(r)'
  PROVE  StaleInv'
<1>1. CacheType'
      BY DEF StaleInv, CacheType
<1>2. ASSUME NEW r \in Rooms
      PROVE  /\ FillSound(r)' <=> FillSound(r)
             /\ CachedSound(r)' <=> CachedSound(r)
      BY DEF FillSound, CachedSound, WeekRows
<1> QED
      BY <1>1, <1>2 DEF StaleInv

\* The key of a week gone by is not read again: that of the new week holds nothing.
LEMMA HappenKeeps ==
  ASSUME StaleInv, TableInv, NEW r \in Rooms, Happen(r) PROVE StaleInv'
<1>1. /\ UNCHANGED <<table, worker>> /\ happened' = [happened EXCEPT ![r] = @ + 1]
      /\ happened[r] \in Nat
      BY DEF Happen, TableInv
<1>2. \A q \in Rooms : Cleaning(q)' <=> Cleaning(q)
      BY <1>1 DEF Cleaning
<1>3. ASSUME NEW q \in Rooms, q # r PROVE WeekRows(q)' = WeekRows(q)
      BY <1>1, <1>3 DEF WeekRows, TableInv
<1>4. CASE happened[r] + 1 = NextWeek
  <2>1. /\ cached' = [cached EXCEPT ![WeekKey(r)] = None]
        /\ fill' = [fill EXCEPT ![WeekKey(r)] = None]
        BY <1>4 DEF Happen
  <2>2. CacheType'
        BY <2>1 DEF StaleInv, CacheType, Shaped
  <2>3. \A q \in Rooms : q # r => WeekKey(q) # WeekKey(r)
        BY DEF WeekKey
  <2>4. /\ cached'[WeekKey(r)] = None /\ fill'[WeekKey(r)] = None
        /\ \A q \in Rooms : /\ cached'[LatestKey(q)] = cached[LatestKey(q)]
                            /\ fill'[LatestKey(q)] = fill[LatestKey(q)]
        /\ \A q \in Rooms : q # r => /\ cached'[WeekKey(q)] = cached[WeekKey(q)]
                                     /\ fill'[WeekKey(q)] = fill[WeekKey(q)]
        BY <2>1, <2>3, KeysAre DEF StaleInv, CacheType
  <2>5. \A answer : Sound(None, answer)
        BY DEF Sound
  <2>6. ASSUME NEW q \in Rooms PROVE FillSound(q)' /\ (CachedSound(q) => CachedSound(q)')
    <3>1. Newest(table[q])' = Newest(table[q]) /\ FillSound(q)
          BY <1>1 DEF StaleInv
    <3>2. CASE q = r
          BY <2>4, <2>5, <3>1, <3>2 DEF FillSound, CachedSound
    <3>3. CASE q # r
          BY <1>3, <2>4, <3>1, <3>3 DEF FillSound, CachedSound
    <3> QED
          BY <3>2, <3>3
  <2> QED
        BY <1>2, <2>2, <2>6 DEF StaleInv
<1>5. CASE happened[r] + 1 # NextWeek
  <2>1. UNCHANGED <<cached, fill>>
        BY <1>5 DEF Happen
  <2>2. CacheType'
        BY <2>1 DEF StaleInv, CacheType
  <2>3. ASSUME NEW q \in Rooms
        PROVE  WeekRows(q)' = WeekRows(q) /\ Newest(table[q])' = Newest(table[q])
    <3>1. CASE q = r
      <4>1. happened'[q] = happened[q] + 1
            BY <1>1, <3>1 DEF TableInv
      <4>2. WeekOf(happened'[q]) = WeekOf(happened[q])
            BY <1>1, <1>5, <3>1, <4>1, PipelineAssumption DEF WeekOf
      <4> QED
            BY <1>1, <4>2 DEF WeekRows
    <3> QED
          BY <1>1, <1>3, <3>1
  <2>4. ASSUME NEW q \in Rooms
        PROVE  (FillSound(q) => FillSound(q)') /\ (CachedSound(q) => CachedSound(q)')
        BY <2>1, <2>3 DEF FillSound, CachedSound
  <2> QED
        BY <1>2, <2>2, <2>4 DEF StaleInv
<1> QED
      BY <1>4, <1>5

\* A read, from the cache or through the database.
LEMMA ReaderKeeps ==
  ASSUME StaleInv, NEW r \in Rooms, ReaderStep(r) PROVE StaleInv'
<1>1. UNCHANGED <<table, worker, happened>>
      BY DEF ReaderStep, upstream
<1>2. ASSUME NEW q \in Rooms
      PROVE  /\ WeekRows(q)' = WeekRows(q) /\ Newest(table[q])' = Newest(table[q])
             /\ Cleaning(q)' <=> Cleaning(q)
      BY <1>1 DEF WeekRows, Cleaning
<1>3. \A answer : Sound(None, answer)
      BY DEF Sound
<1>4. ASSUME NEW k \in RoomKeys, CacheStep(k) PROVE StaleInv'
  <2>1. CacheType'
        BY <1>4 DEF CacheStep, Store, StoreFails, Expire, StaleInv, CacheType, Shaped
  <2>2. \A j \in RoomKeys : cached'[j] \in {None, cached[j], fill[j]} /\ fill'[j] \in {None, fill[j]}
        BY <1>4 DEF CacheStep, Store, StoreFails, Expire, StaleInv, CacheType
  <2>3. ASSUME NEW q \in Rooms PROVE FillSound(q)' /\ (CachedSound(q) => CachedSound(q)')
    <3>1. FillSound(q)
          BY DEF StaleInv
    <3>2. /\ cached'[LatestKey(q)] \in {None, cached[LatestKey(q)], fill[LatestKey(q)]}
          /\ cached'[WeekKey(q)] \in {None, cached[WeekKey(q)], fill[WeekKey(q)]}
          /\ fill'[LatestKey(q)] \in {None, fill[LatestKey(q)]}
          /\ fill'[WeekKey(q)] \in {None, fill[WeekKey(q)]}
          BY <2>2, KeysAre
    <3> QED
          BY <1>2, <1>3, <3>1, <3>2 DEF FillSound, CachedSound
  <2> QED
        BY <1>2, <2>1, <2>3 DEF StaleInv
<1>5. ASSUME NEW k \in RoomKeys, NEW answer, Miss(k, answer, FALSE),
             k = LatestKey(r) => answer = Newest(table[r]), k = WeekKey(r) => answer = WeekRows(r),
             k \in KeysOf(r)
      PROVE  StaleInv'
  <2> DEFINE e == Entry(answer, FALSE)
  <2>1. fill' = [fill EXCEPT ![k] = e] /\ UNCHANGED cached
        BY <1>5 DEF Miss
  <2>2. Shaped(e) /\ Sound(e, answer)
        BY EntryIs
  <2> HIDE DEF e
  <2>3. CacheType'
        BY <2>1, <2>2 DEF StaleInv, CacheType
  <2>4. ASSUME NEW q \in Rooms PROVE FillSound(q)' /\ (CachedSound(q) => CachedSound(q)')
    <3>1. FillSound(q)
          BY DEF StaleInv
    <3>2. /\ fill'[LatestKey(q)] = IF LatestKey(q) = k THEN e ELSE fill[LatestKey(q)]
          /\ fill'[WeekKey(q)] = IF WeekKey(q) = k THEN e ELSE fill[WeekKey(q)]
          BY <2>1, KeysAre DEF StaleInv, CacheType
    <3>3. CASE q = r
          BY <1>2, <1>5, <2>1, <2>2, <3>1, <3>2, <3>3 DEF FillSound, CachedSound
    <3>4. CASE q # r
          BY <1>2, <1>5, <2>1, <3>1, <3>2, <3>4, KeysAre DEF FillSound, CachedSound
    <3> QED
          BY <3>3, <3>4
  <2> QED
        BY <1>2, <2>3, <2>4 DEF StaleInv
<1>6. CASE GetLatestByRoomID(r)
      BY <1>5, <1>6, KeysAre DEF GetLatestByRoomID
<1>7. CASE GetCurrentWeekByRoomID(r)
      BY <1>5, <1>7, KeysAre DEF GetCurrentWeekByRoomID
<1>8. ASSUME NEW k \in KeysOf(r), CacheStep(k) PROVE StaleInv'
      BY <1>4, <1>8 DEF RoomKeys
<1> QED
      BY <1>6, <1>7, <1>8 DEF ReaderStep

\* Every step keeps what the caches may be stale by.
LEMMA StaleStep ==
  ASSUME AccountInv, TableInv, StaleInv, [ViewerPipelineNext]_<<vars, viewerVars>> PROVE StaleInv'
<1>0. ASSUME worker.at # "clean" PROVE \A r \in Rooms : ~Cleaning(r)
      BY <1>0 DEF Cleaning
<1>1. CASE HandleLive
  <2>1. /\ worker.at = "LIVE" /\ worker' = [worker EXCEPT !.at = "clean"]
        /\ UNCHANGED <<cached, happened>>
        BY <1>1 DEF HandleLive, upstream
  <2>2. worker \in [at : {"LIVE", "PREPARING", "clean"}, msg : Message]
        BY <2>1, IdleAt DEF AccountInv, WorkerType
  <2>3. worker'.at = "clean" /\ worker'.msg = worker.msg
        BY <2>1, <2>2
  <2>4. PICK r \in Rooms : worker.msg.room = r
        BY <2>2, MessageType
  <2>5. Cleaning(r)'
        BY <2>3, <2>4, IdleAt DEF Cleaning
  <2>6. SetRows(r, AfterInsert(table[r], NewRow(worker.msg)))
        BY <1>1, <2>4 DEF HandleLive
  <2> QED
        BY <1>0, <2>1, <2>5, <2>6, StatementKeeps
<1>2. CASE UpdateRow
  <2>1. /\ worker.at = "update" /\ worker' = [at |-> "clean", msg |-> worker.msg]
        /\ UNCHANGED <<cached, happened>>
        BY <1>2 DEF UpdateRow, upstream
  <2>2. worker.msg \in Message
        BY <2>1, IdleAt DEF AccountInv, WorkerType
  <2>3. worker'.at = "clean" /\ worker'.msg = worker.msg
        BY <2>1
  <2>4. PICK r \in Rooms : worker.msg.room = r
        BY <2>2, MessageType
  <2>5. Cleaning(r)'
        BY <2>3, <2>4, IdleAt DEF Cleaning
  <2>6. PICK rows : SetRows(r, rows)
        BY <1>2, <2>4 DEF UpdateRow
  <2> QED
        BY <1>0, <2>1, <2>5, <2>6, StatementKeeps
<1>3. CASE Clean
      BY <1>3, CleanKeeps
<1>4. CASE Take \/ FailHandler \/ SelectLiving \/ UpdateRejected
      BY <1>0, <1>4, IdleAt, CacheStays DEF Take, FailHandler, SelectLiving, UpdateRejected, upstream
<1>5. CASE HandleDanmu \/ HandleSc \/ ViewerHandlerFails
      BY <1>0, <1>5, CacheStays DEF HandleDanmu, HandleSc, ViewerHandlerFails, HandlerReturns
<1>6. CASE UNCHANGED <<table, happened, cached, fill, worker>>
      BY <1>6, CacheStays DEF Cleaning
<1>7. CASE LiveNext
      BY <1>6, <1>7, HappenKeeps, ReaderKeeps DEF LiveNext, Dispatch, Suppress, Receive
<1>8. CASE ViewerNext \/ \E t \in recent : Forget(t)
      BY <1>6, <1>8 DEF ViewerNext, DispatchViewer, Receive, MinuteTurns, DayPasses, CheckByBV, vars, Forget
<1> QED
      BY <1>1, <1>2, <1>3, <1>4, <1>5, <1>6, <1>7, <1>8
         DEF ViewerPipelineNext, ViewerWorkerStep, WorkerStep, vars

-----------------------------------------------------------------------------
\* The history of a room.

\* The records after the first e events, with what makes them countable.
Shows(rows, e) == Exact(rows, e) /\ IsFiniteSet(rows)

\* A live command of room r.
Mine(m, r) == m.cmd \in {"LIVE", "PREPARING"} /\ m.room = r
\* Once events 1..b are handled the commands in the queue q bring r to event top:
\* none comes before the one it follows, the missing ones are all there, and one
\* without a time is the first of its event.
LineUp(q, r, b, top) ==
  /\ b <= top
  /\ \A i \in 1..Len(q) : Mine(q[i], r) =>
       /\ q[i].event <= top
       /\ q[i].event <= b + 1 \/ \E j \in 1..(i - 1) : Mine(q[j], r) /\ q[j].event = q[i].event - 1
       /\ ~q[i].stamped => /\ q[i].event > b
                           /\ \A j \in 1..(i - 1) : Mine(q[j], r) => q[j].event # q[i].event
  /\ \A v \in (b + 1)..top : \E i \in 1..Len(q) : Mine(q[i], r) /\ q[i].event = v

\* The halves of an event's number.
LEMMA Halves ==
  ASSUME NEW e \in Nat
  PROVE  /\ Session(e) \in Nat /\ Session(e + 1) \in Nat
         /\ IsLive(e) => 2 * Session(e) = e + 1 /\ Session(e + 1) = Session(e) /\ ~IsLive(e + 1)
         /\ ~IsLive(e) => 2 * Session(e) = e /\ Session(e + 1) = Session(e) + 1 /\ IsLive(e + 1)
BY DEF Session, IsLive
\* What the queue says is about numbers.
LEMMA CommandType ==
  ASSUME NEW q \in Seq(Tasks), NEW i \in 1..Len(q), NEW r, Mine(q[i], r)
  PROVE  q[i] \in Message /\ q[i].event \in Nat
BY PipelineAssumption DEF Mine, Tasks, ViewerMessage, Danmu, SuperChat, Message

\* A new command takes its place at the end.
LEMMA LineUpAppend ==
  ASSUME NEW q \in Seq(Tasks), NEW m \in Tasks, NEW r, NEW b \in Nat, NEW top \in Nat,
         NEW new \in Nat, LineUp(q, r, b, top),
         \/ ~Mine(m, r) /\ new = top
         \/ Mine(m, r) /\ m.event = top + 1 /\ new = top + 1
         \/ Mine(m, r) /\ m.event \in Nat /\ m.event <= top /\ m.stamped /\ new = top
  PROVE  LineUp(Append(q, m), r, b, new)
<1> DEFINE p == Append(q, m)
<1>1. /\ Len(q) \in Nat /\ Len(p) = Len(q) + 1 /\ p[Len(q) + 1] = m
      /\ \A i \in 1..Len(q) : p[i] = q[i]
      OBVIOUS
<1> HIDE DEF p
<1>0. \A i \in 1..Len(q) : Mine(q[i], r) => q[i].event \in Nat
      BY CommandType
<1>2. top <= new /\ b <= new
      BY DEF LineUp
<1>3. ASSUME NEW i \in 1..Len(q), Mine(p[i], r)
      PROVE  /\ p[i].event <= new
             /\ p[i].event <= b + 1 \/ \E j \in 1..(i - 1) : Mine(p[j], r) /\ p[j].event = p[i].event - 1
             /\ ~p[i].stamped => /\ p[i].event > b
                                 /\ \A j \in 1..(i - 1) : Mine(p[j], r) => p[j].event # p[i].event
  <2>1. p[i] = q[i] /\ Mine(q[i], r)
        BY <1>1, <1>3
  <2>2. q[i].event \in Nat
        BY <1>0, <2>1
  <2>3. \A j \in 1..(i - 1) : j \in 1..Len(q) /\ p[j] = q[j]
        BY <1>1
  <2>4. /\ q[i].event <= top
        /\ q[i].event <= b + 1 \/ \E j \in 1..(i - 1) : Mine(q[j], r) /\ q[j].event = q[i].event - 1
        /\ ~q[i].stamped => /\ q[i].event > b
                            /\ \A j \in 1..(i - 1) : Mine(q[j], r) => q[j].event # q[i].event
        BY <2>1 DEF LineUp
  <2>5. q[i].event <= new
        BY <1>2, <2>2, <2>4
  <2> QED
        BY <2>1, <2>3, <2>4, <2>5
<1>4. ASSUME Mine(m, r)
      PROVE  /\ m.event <= new
             /\ m.event <= b + 1 \/ \E j \in 1..Len(q) : Mine(p[j], r) /\ p[j].event = m.event - 1
             /\ ~m.stamped => /\ m.event > b
                              /\ \A j \in 1..Len(q) : Mine(p[j], r) => p[j].event # m.event
  <2>1. m.event \in Nat /\ m.event <= new /\ m.event <= top + 1 /\ b <= top
        BY <1>4 DEF LineUp
  <2>2. ASSUME ~(m.event <= b + 1)
        PROVE  \E j \in 1..Len(q) : Mine(p[j], r) /\ p[j].event = m.event - 1
    <3>1. m.event - 1 \in (b + 1)..top
          BY <2>1, <2>2
    <3>2. PICK j \in 1..Len(q) : Mine(q[j], r) /\ q[j].event = m.event - 1
          BY <3>1 DEF LineUp
    <3> QED
          BY <1>1, <3>2
  <2>3. ASSUME ~m.stamped
        PROVE  m.event > b /\ \A j \in 1..Len(q) : Mine(p[j], r) => p[j].event # m.event
    <3>1. m.event = top + 1
          BY <1>4, <2>3
    <3>2. ASSUME NEW j \in 1..Len(q), Mine(p[j], r) PROVE p[j].event \in Nat /\ p[j].event <= top
      <4>1. p[j] = q[j]
            BY <1>1
      <4> QED
            BY <1>0, <3>2, <4>1 DEF LineUp
    <3> QED
          BY <2>1, <3>1, <3>2
  <2> QED
        BY <2>1, <2>2, <2>3
<1>5. ASSUME NEW v \in (b + 1)..new
      PROVE  \E i \in 1..Len(p) : Mine(p[i], r) /\ p[i].event = v
  <2>1. CASE v \in (b + 1)..top
    <3>1. PICK i \in 1..Len(q) : Mine(q[i], r) /\ q[i].event = v
          BY <2>1 DEF LineUp
    <3> QED
          BY <1>1, <3>1
  <2>2. CASE v = top + 1 /\ new = top + 1
    <3>1. Mine(m, r) /\ m.event = v
          BY <2>2
    <3> QED
          BY <1>1, <3>1
  <2> QED
        BY <2>1, <2>2
<1>6. \A i \in 1..Len(p) : i \in 1..Len(q) \/ (i = Len(q) + 1 /\ i - 1 = Len(q))
      BY <1>1
<1>7. LineUp(p, r, b, new)
      BY <1>1, <1>2, <1>3, <1>4, <1>5, <1>6 DEF LineUp
<1> QED
      BY <1>7 DEF p

\* The first command leaves the queue to be handled.
LEMMA LineUpTail ==
  ASSUME NEW q \in Seq(Tasks), q # <<>>, NEW r, NEW b \in Nat, NEW top \in Nat, LineUp(q, r, b, top)
  PROVE  LET h == Head(q)
         IN /\ ~Mine(h, r) => LineUp(Tail(q), r, b, top)
            /\ Mine(h, r) =>
                 /\ h \in Message /\ h.event \in Nat /\ h.event <= b + 1 /\ h.event <= top
                 /\ h.stamped \/ h.event = b + 1
                 /\ LineUp(Tail(q), r, IF h.event = b + 1 THEN b + 1 ELSE b, top)
<1> DEFINE h == Head(q)
           p == Tail(q)
           c == IF Mine(h, r) /\ h.event = b + 1 THEN b + 1 ELSE b
<1>1. /\ Len(q) \in Nat /\ Len(q) >= 1 /\ Len(p) = Len(q) - 1 /\ q[1] = h
      /\ \A i \in 1..Len(p) : p[i] = q[i + 1] /\ i + 1 \in 1..Len(q)
      OBVIOUS
<1> HIDE DEF h, p
<1>2. ASSUME Mine(h, r)
      PROVE  /\ h \in Message /\ h.event \in Nat /\ h.event <= b + 1 /\ h.event <= top
             /\ h.stamped \/ h.event = b + 1
  <2>1. 1 \in 1..Len(q)
        BY <1>1
  <2>2. h \in Message /\ h.event \in Nat
        BY <1>1, <1>2, <2>1, CommandType
  <2>3. h.event <= top /\ h.event <= b + 1 /\ (~h.stamped => h.event > b)
        BY <1>1, <1>2, <2>1 DEF LineUp
  <2> QED
        BY <2>2, <2>3
<1>3. c \in Nat /\ b <= c /\ c <= top
      BY <1>2 DEF LineUp
<1>4. ASSUME NEW i \in 1..Len(p), Mine(p[i], r)
      PROVE  /\ p[i].event <= top
             /\ p[i].event <= c + 1 \/ \E j \in 1..(i - 1) : Mine(p[j], r) /\ p[j].event = p[i].event - 1
             /\ ~p[i].stamped => /\ p[i].event > c
                                 /\ \A j \in 1..(i - 1) : Mine(p[j], r) => p[j].event # p[i].event
  <2> DEFINE k == i + 1
  <2>1. k \in 1..Len(q) /\ p[i] = q[k] /\ Mine(q[k], r) /\ q[k].event \in Nat /\ q[k].event <= top
        BY <1>1, <1>4, CommandType DEF LineUp
  <2>2. \A j \in 1..(i - 1) : p[j] = q[j + 1] /\ j + 1 \in 1..(k - 1)
        BY <1>1
  <2>3. /\ q[k].event <= b + 1 \/ \E j \in 1..(k - 1) : Mine(q[j], r) /\ q[j].event = q[k].event - 1
        /\ ~q[k].stamped => /\ q[k].event > b
                            /\ \A j \in 1..(k - 1) : Mine(q[j], r) => q[j].event # q[k].event
        BY <2>1 DEF LineUp
  <2>4. ASSUME NEW j \in 1..(k - 1), Mine(q[j], r), q[j].event = q[k].event - 1
        PROVE  p[i].event <= c + 1 \/ \E l \in 1..(i - 1) : Mine(p[l], r) /\ p[l].event = p[i].event - 1
    <3>1. CASE j = 1
          BY <1>1, <1>2, <1>3, <2>1, <2>4, <3>1
    <3>2. CASE j # 1
      <4>1. j - 1 \in 1..(i - 1) /\ p[j - 1] = q[j]
            BY <1>1, <3>2
      <4> QED
            BY <2>1, <2>4, <4>1
    <3> QED
          BY <3>1, <3>2
  <2>5. p[i].event <= c + 1 \/ \E l \in 1..(i - 1) : Mine(p[l], r) /\ p[l].event = p[i].event - 1
        BY <1>3, <2>1, <2>3, <2>4
  <2>6. ASSUME ~p[i].stamped
        PROVE  p[i].event > c /\ \A j \in 1..(i - 1) : Mine(p[j], r) => p[j].event # p[i].event
    <3>1. q[k].event > b /\ \A j \in 1..(k - 1) : Mine(q[j], r) => q[j].event # q[k].event
          BY <2>1, <2>3, <2>6
    <3>2. \A j \in 1..(i - 1) : Mine(p[j], r) => p[j].event # p[i].event
          BY <2>1, <2>2, <3>1
    <3>3. Mine(h, r) => h.event # q[k].event
      <4>1. 1 \in 1..(k - 1)
            OBVIOUS
      <4> QED
            BY <1>1, <3>1, <4>1
    <3>4. q[k].event > c
          BY <2>1, <3>1, <3>3
    <3> QED
          BY <2>1, <3>2, <3>4
  <2> QED
        BY <2>1, <2>5, <2>6
<1>5. ASSUME NEW v \in (c + 1)..top
      PROVE  \E i \in 1..Len(p) : Mine(p[i], r) /\ p[i].event = v
  <2>1. v \in (b + 1)..top /\ v > c
        BY <1>3
  <2>2. PICK k \in 1..Len(q) : Mine(q[k], r) /\ q[k].event = v
        BY <2>1 DEF LineUp
  <2>3. k # 1
        BY <1>1, <1>2, <2>1, <2>2
  <2>4. k - 1 \in 1..Len(p) /\ p[k - 1] = q[k]
        BY <1>1, <2>3
  <2> QED
        BY <2>2, <2>4
<1>6. LineUp(p, r, c, top)
  <2> HIDE DEF c
  <2> QED
      BY <1>3, <1>4, <1>5 DEF LineUp
<1> QED
      BY <1>2, <1>6 DEF h, p

\* LIVE adds the session it starts, unless its row is there.
LEMMA ShowsLive ==
  ASSUME NEW rows \in SUBSET Row, NEW e \in Nat, Shows(rows, e), NEW m \in Message,
         m.cmd = "LIVE", m.event <= e + 1
  PROVE  Shows(AfterInsert(rows, NewRow(m)), IF m.event = e + 1 THEN e + 1 ELSE e)
<1> DEFINE k == Session(m.event)
           row == NewRow(m)
<1>1. m.event \in Nat /\ m.event >= 1 /\ IsLive(m.event)
      BY PipelineAssumption DEF Message, Cmd
<1>2. k \in Nat /\ 2 * k = m.event + 1
      BY <1>1, Halves
<1>3. row.key = k /\ row.start = m.event /\ row.status = Living /\ row.end = 0
      BY DEF NewRow
<1> HIDE DEF k, row
<1>4. /\ {x.key : x \in rows} = 1..Session(e) /\ IsFiniteSet(rows) /\ Cardinality(rows) = Session(e)
      /\ \A x \in rows : /\ x.key \in Nat /\ x.start \in Nat
                         /\ x.key \in 1..Session(e) /\ x.start = 2 * x.key - 1
                         /\ x.status = Living <=> x.start = e
                         /\ x.status = Ended => x.end >= 2 * x.key
  <2>1. {x.key : x \in rows} = 1..Session(e)
        BY DEF Shows, Exact
  <2> QED
        BY <2>1 DEF Shows, Exact, Row
<1>5. CASE m.event = e + 1
  <2>1. /\ Session(e) \in Nat /\ Session(e + 1) = k /\ k = Session(e) + 1 /\ 2 * Session(e) = e
        BY <1>1, <1>2, <1>5, Halves DEF k
  <2>2. \A x \in rows : x.key # k
        BY <1>4, <2>1
  <2>3. AfterInsert(rows, row) = rows \cup {row}
        BY <1>3, <2>2 DEF AfterInsert
  <2>4. row \notin rows
        BY <1>3, <2>2
  <2>5. IsFiniteSet(rows \cup {row}) /\ Cardinality(rows \cup {row}) = Session(e + 1)
    <3>1. IsFiniteSet(rows \cup {row}) /\ Cardinality(rows \cup {row}) = Cardinality(rows) + 1
          BY <1>4, <2>4, FS_AddElement
    <3> QED
          BY <1>4, <2>1, <3>1
  <2>6. {x.key : x \in rows \cup {row}} = {x.key : x \in rows} \cup {k}
        BY <1>3
  <2>7. {x.key : x \in rows \cup {row}} = 1..Session(e + 1)
        BY <1>4, <2>1, <2>6
  <2>8. ASSUME NEW x \in rows \cup {row}
        PROVE  /\ x.start = 2 * x.key - 1
               /\ x.status = Living <=> x.start = e + 1
               /\ x.status = Ended => x.end >= 2 * x.key
    <3>1. CASE x = row
          BY <1>2, <1>3, <1>5, <3>1 DEF Living, Ended
    <3>2. CASE x \in rows
          BY <1>4, <2>1, <3>2
    <3> QED
          BY <3>1, <3>2
  <2> QED
        BY <1>5, <2>3, <2>5, <2>7, <2>8 DEF Shows, Exact, row
<1>6. CASE m.event # e + 1
  <2>1. Session(e) \in Nat /\ (2 * Session(e) = e \/ 2 * Session(e) = e + 1)
        BY Halves
  <2>2. k \in 1..Session(e)
        BY <1>1, <1>2, <1>6, <2>1
  <2>3. \E x \in rows : x.key = k
        BY <1>4, <2>2
  <2> QED
        BY <1>3, <1>6, <2>3 DEF AfterInsert, row
<1> QED
      BY <1>5, <1>6

\* The living row is the last session, and only its own end ends it.
LEMMA ShowsLiving ==
  ASSUME NEW rows \in SUBSET Row, NEW e \in Nat, Shows(rows, e), NEW row \in rows, row.status = Living
  PROVE  row.start = e /\ IsLive(e) /\ row.key = Session(e) /\ row.key \in Nat
<1>1. row.key \in Nat /\ row.start \in Nat /\ row.start = 2 * row.key - 1 /\ row.start = e
      BY DEF Shows, Exact, Row
<1>2. \/ IsLive(e) /\ Session(e) \in Nat /\ 2 * Session(e) = e + 1
      \/ Session(e) \in Nat /\ 2 * Session(e) = e
      BY Halves
<1> QED
      BY <1>1, <1>2
\* While the last event is a start its row is living.
LEMMA LivingShows ==
  ASSUME NEW rows \in SUBSET Row, NEW e \in Nat, Shows(rows, e), IsLive(e)
  PROVE  \E row \in rows : row.status = Living
<1>1. Session(e) \in Nat /\ 2 * Session(e) = e + 1
      BY Halves
<1>2. Session(e) \in 1..Session(e)
      BY <1>1
<1>3. PICK row \in rows : row.key = Session(e)
      BY <1>2 DEF Shows, Exact
<1>4. row.start = e
      BY <1>1, <1>3 DEF Shows, Exact
<1> QED
      BY <1>4 DEF Shows, Exact
\* PREPARING ends it.
LEMMA ShowsEnd ==
  ASSUME NEW rows \in SUBSET Row, NEW e \in Nat, Shows(rows, e), KeysDiffer(rows),
         NEW row \in rows, row.status = Living, NEW t \in Nat, t >= e + 1
  PROVE  Shows({x \in rows : x.key # row.key} \cup {[row EXCEPT !.status = Ended, !.end = t]}, e + 1)
<1> DEFINE ended == [row EXCEPT !.status = Ended, !.end = t]
           rest == {x \in rows : x.key # row.key}
<1>1. row.start = e /\ IsLive(e) /\ row.key = Session(e) /\ row.key \in Nat
      BY ShowsLiving
<1>2. 2 * Session(e) = e + 1 /\ Session(e + 1) = Session(e)
      BY <1>1, Halves
<1>3. ended.key = row.key /\ ended.start = row.start /\ ended.status = Ended /\ ended.end = t
      BY DEF Row
<1>4. /\ {x.key : x \in rows} = 1..Session(e) /\ IsFiniteSet(rows) /\ Cardinality(rows) = Session(e)
      /\ \A x \in rows : /\ x.key \in Nat /\ x.start = 2 * x.key - 1
                         /\ x.status = Living <=> x.start = e
                         /\ x.status = Ended => x.end >= 2 * x.key
                         /\ x.status \in {Living, Ended}
      BY DEF Shows, Exact, Row
<1> HIDE DEF ended
<1>5. rest = rows \ {row} /\ ended \notin rest
      BY <1>3 DEF KeysDiffer
<1>6. IsFiniteSet(rest \cup {ended}) /\ Cardinality(rest \cup {ended}) = Session(e + 1)
  <2>1. IsFiniteSet(rest) /\ Cardinality(rest) = Session(e) - 1
    <3>1. IsFiniteSet(rows \ {row}) /\ Cardinality(rows \ {row}) = Cardinality(rows) - 1
          BY <1>4, FS_RemoveElement
    <3> QED
          BY <1>4, <1>5, <3>1
  <2> HIDE DEF rest
  <2>2. IsFiniteSet(rest \cup {ended}) /\ Cardinality(rest \cup {ended}) = Cardinality(rest) + 1
        BY <1>5, <2>1, FS_AddElement
  <2>3. Session(e) \in Nat
        BY <1>1
  <2> QED
        BY <1>2, <2>1, <2>2, <2>3
<1>7. {x.key : x \in rest \cup {ended}} = {x.key : x \in rows}
      BY <1>3, <1>5
<1>8. ASSUME NEW x \in rest \cup {ended}
      PROVE  /\ x.start = 2 * x.key - 1
             /\ x.status = Living <=> x.start = e + 1
             /\ x.status = Ended => x.end >= 2 * x.key
  <2>1. CASE x = ended
        BY <1>1, <1>2, <1>3, <2>1 DEF Living, Ended
  <2>2. CASE x \in rest
    <3>1. x \in rows /\ x.key # row.key
          BY <2>2
    <3>2. e = 2 * row.key - 1 /\ x.start = 2 * x.key - 1 /\ x.key \in Nat
          BY <1>1, <1>4, <3>1
    <3>4. x.start # e
          BY <1>1, <3>1, <3>2
    <3>3. x.start # e + 1
          BY <1>2, <1>4, <3>1
    <3> QED
          BY <1>4, <3>1, <3>3, <3>4
  <2> QED
        BY <2>1, <2>2
<1> HIDE DEF rest
<1>9. Shows(rest \cup {ended}, e + 1)
      BY <1>2, <1>4, <1>6, <1>7, <1>8 DEF Shows, Exact
<1> QED
      BY <1>9 DEF rest, ended

\* The worker is about to handle a live command of room r.
Working(r) == worker.at \in {"LIVE", "PREPARING", "update"} /\ worker.msg.room = r
\* The records show e events; the command under way and those in the channel lead
\* on from there to all that was received.
HistOf(r, e) ==
  /\ Shows(table[r], e)
  /\ Working(r) => /\ worker.msg.event <= e + 1 /\ worker.msg.event <= inOrder[r]
                   /\ worker.msg.stamped \/ worker.msg.event = e + 1
  /\ LineUp(channel, r, IF Working(r) /\ worker.msg.event = e + 1 THEN e + 1 ELSE e, inOrder[r])
Handles ==
  /\ worker.at \in {"LIVE", "PREPARING"} => worker.msg.cmd = worker.at
  /\ worker.at = "update" => worker.msg.cmd = "PREPARING"
HistType == inOrder \in [Rooms -> Nat] /\ faithful \in [Rooms -> BOOLEAN]
HistInv ==
  /\ HistType /\ Handles
  /\ \A r \in Rooms : inOrder[r] <= happened[r]
  /\ \A r \in Rooms : faithful[r] => \E e \in Nat : HistOf(r, e)

\* Steps that leave room r alone.
LEMMA HistStays ==
  ASSUME NEW r, NEW e \in Nat, HistOf(r, e),
         table'[r] = table[r], channel' = channel, inOrder'[r] = inOrder[r],
         UNCHANGED worker \/ (~Working(r) /\ ~Working(r)')
  PROVE  HistOf(r, e)'
BY DEF HistOf, Working
\* Steps that leave every room alone, but that more may have happened.
LEMMA HistElsewhere ==
  ASSUME HistInv, UNCHANGED <<table, channel, inOrder, faithful>>,
         \A r \in Rooms : inOrder[r] <= happened'[r],
         \/ UNCHANGED worker
         \/ /\ worker.at \notin {"LIVE", "PREPARING", "update"}
            /\ worker'.at \notin {"LIVE", "PREPARING", "update"}
  PROVE  HistInv'
<1>1. \A r \in Rooms : UNCHANGED worker \/ (~Working(r) /\ ~Working(r)')
      BY DEF Working
<1>2. \A r \in Rooms : \A e \in Nat : HistOf(r, e) => HistOf(r, e)'
      BY <1>1, HistStays
<1> QED
      BY <1>2 DEF HistInv, HistType, Handles
\* Steps of a handler on room r.
LEMMA HistAt ==
  ASSUME HistInv, NEW r \in Rooms, UNCHANGED <<channel, happened, inOrder>>,
         HistType', Handles',
         \A s \in Rooms \ {r} : /\ table'[s] = table[s] /\ faithful'[s] = faithful[s]
                                /\ ~Working(s) /\ ~Working(s)',
         faithful'[r] => \E e \in Nat : HistOf(r, e)'
  PROVE  HistInv'
<1>1. \A s \in Rooms \ {r} : \A e \in Nat : HistOf(s, e) => HistOf(s, e)'
      BY HistStays
<1> QED
      BY <1>1 DEF HistInv

\* The handlers of LIVE and PREPARING.
LEMMA HistHandles ==
  ASSUME AccountInv, TableInv, HistInv,
         FailHandler \/ HandleLive \/ SelectLiving \/ UpdateRow \/ UpdateRejected
  PROVE  HistInv'
<1> DEFINE m == worker.msg
           here == worker.at \in {"LIVE", "PREPARING", "update"}
<1>1. here /\ UNCHANGED <<channel, happened, inOrder>>
      BY DEF FailHandler, HandleLive, SelectLiving, UpdateRow, UpdateRejected, upstream
<1>2. m \in Message
      BY <1>1, IdleAt DEF AccountInv, WorkerType
<1>0. PICK r \in Rooms : r = m.room
      BY <1>2, MessageType
<1>3. /\ r \in Rooms /\ m.event \in Nat /\ m.stamped \in BOOLEAN
      /\ (m.cmd = "PREPARING" => ~IsLive(m.event))
      BY <1>2, MessageType DEF Message, Cmd
<1>4. /\ table[r] \in SUBSET Row /\ KeysDiffer(table[r])
      /\ happened[r] \in Nat /\ inOrder[r] \in Nat /\ inOrder[r] <= happened[r]
      BY <1>3 DEF TableInv, HistInv, HistType
<1>5. Working(r) /\ \A s \in Rooms \ {r} : ~Working(s)
      BY <1>0, <1>1 DEF Working
<1>6. ASSUME worker' = Idle \/ (worker'.at \in {"clean", "update"} /\ worker'.msg = m)
      PROVE  \A s \in Rooms \ {r} : ~Working(s)'
      BY <1>0, <1>6, IdleAt DEF Working
\* What is known of r's history before the step.
<1>7. ASSUME NEW e \in Nat, HistOf(r, e)
      PROVE  /\ Shows(table[r], e) /\ m.event <= e + 1 /\ m.event <= inOrder[r]
             /\ m.stamped \/ m.event = e + 1
             /\ LineUp(channel, r, IF m.event = e + 1 THEN e + 1 ELSE e, inOrder[r])
      BY <1>5, <1>7 DEF HistOf
\* What is to be shown of it after a step that is the handler's last on the rows.
<1>8. ASSUME NEW e \in Nat, Shows(table'[r], e), worker'.at \notin {"LIVE", "PREPARING", "update"},
             LineUp(channel, r, e, inOrder[r])
      PROVE  HistOf(r, e)'
      BY <1>1, <1>8 DEF HistOf, Working
<1>9. CASE FailHandler
  <2>1. worker' = Idle /\ UNCHANGED table /\ faithful' = [faithful EXCEPT ![r] = FALSE]
        BY <1>0, <1>9 DEF FailHandler, Finish, Mangle
  <2>2. HistType' /\ Handles' /\ faithful'[r] = FALSE
        BY <1>1, <1>3, <2>1, IdleAt DEF HistInv, HistType, Handles
  <2>3. \A s \in Rooms \ {r} : faithful'[s] = faithful[s]
        BY <2>1 DEF HistInv, HistType
  <2> HIDE DEF m
  <2> QED
        BY <1>1, <1>3, <1>5, <1>6, <2>1, <2>2, <2>3, HistAt
<1>10. CASE HandleLive
  <2>1. /\ worker.at = "LIVE" /\ worker' = [worker EXCEPT !.at = "clean"] /\ UNCHANGED faithful
        /\ table' = [table EXCEPT ![r] = AfterInsert(table[r], NewRow(m))]
        BY <1>0, <1>10 DEF HandleLive, SetRows, upstream
  <2>2. worker'.at = "clean" /\ worker'.msg = m
    <3>1. worker \in [at : {"LIVE", "PREPARING", "clean"}, msg : Message]
          BY <2>1, IdleAt DEF AccountInv, WorkerType
    <3> QED
          BY <2>1, <3>1
  <2>3. m.cmd = "LIVE"
        BY <2>1 DEF HistInv, Handles
  <2>4. table'[r] = AfterInsert(table[r], NewRow(m)) /\ \A s \in Rooms \ {r} : table'[s] = table[s]
        BY <1>0, <1>3, <2>1 DEF TableInv
  <2>5. ASSUME NEW e \in Nat, HistOf(r, e) PROVE \E f \in Nat : HistOf(r, f)'
    <3> DEFINE f == IF m.event = e + 1 THEN e + 1 ELSE e
    <3>1. f \in Nat
          OBVIOUS
    <3>2. Shows(table'[r], f) /\ LineUp(channel, r, f, inOrder[r])
          BY <1>2, <1>4, <1>7, <2>3, <2>4, <2>5, ShowsLive
    <3> HIDE DEF f
    <3> QED
          BY <1>8, <2>2, <3>1, <3>2
  <2>6. HistType' /\ Handles'
        BY <1>1, <2>1, <2>2 DEF HistInv, HistType, Handles
  <2>7. faithful'[r] => \E e \in Nat : HistOf(r, e)'
        BY <1>3, <2>1, <2>5 DEF HistInv
  <2> HIDE DEF m
  <2> QED
        BY <1>1, <1>3, <1>5, <1>6, <2>1, <2>2, <2>4, <2>6, <2>7, HistAt
<1>11. CASE SelectLiving
  <2>1. worker.at = "PREPARING" /\ UNCHANGED <<table, faithful>>
        BY <1>11 DEF SelectLiving
  <2>2. m.cmd = "PREPARING" /\ ~IsLive(m.event)
        BY <1>3, <2>1 DEF HistInv, Handles
  <2>3. CASE worker' = Idle /\ {x \in table[r] : x.status = Living} = {}
    <3>1. ASSUME NEW e \in Nat, HistOf(r, e) PROVE HistOf(r, e)'
      <4>1. m.event # e + 1
        <5>1. ~IsLive(e)
              BY <1>4, <1>7, <2>3, <3>1, LivingShows
        <5> QED
              BY <2>2, <5>1, Halves
      <4>2. Shows(table'[r], e) /\ LineUp(channel, r, e, inOrder[r])
            BY <1>7, <2>1, <3>1, <4>1
      <4> QED
            BY <1>8, <2>3, <4>2, IdleAt
    <3>2. HistType' /\ Handles'
          BY <1>1, <2>1, <2>3, IdleAt DEF HistInv, HistType, Handles
    <3>3. faithful'[r] => \E e \in Nat : HistOf(r, e)'
          BY <1>3, <2>1, <3>1 DEF HistInv
    <3> HIDE DEF m
    <3> QED
          BY <1>1, <1>3, <1>5, <1>6, <2>1, <2>3, <3>2, <3>3, HistAt
  <2>4. CASE \E row \in table[r] : worker' = [at |-> "update", msg |-> m, row |-> row]
    <3>1. worker'.at = "update" /\ worker'.msg = m
          BY <2>4
    <3>2. ASSUME NEW e \in Nat, HistOf(r, e) PROVE HistOf(r, e)'
          BY <1>1, <1>5, <2>1, <3>1, <3>2 DEF HistOf, Working
    <3>3. HistType' /\ Handles'
          BY <1>1, <2>1, <2>2, <3>1 DEF HistInv, HistType, Handles
    <3>4. faithful'[r] => \E e \in Nat : HistOf(r, e)'
          BY <1>3, <2>1, <3>2 DEF HistInv
    <3> HIDE DEF m
    <3> QED
          BY <1>1, <1>3, <1>5, <1>6, <2>1, <3>1, <3>3, <3>4, HistAt
  <2> QED
        BY <1>0, <1>11, <2>3, <2>4 DEF SelectLiving, Finish
<1>12. CASE UpdateRow \/ UpdateRejected
  <2> DEFINE row == worker.row
             t == EndTime(m)
  <2>1. worker.at = "update" /\ UNCHANGED faithful
        BY <1>12 DEF UpdateRow, UpdateRejected, upstream
  <2>2. m.cmd = "PREPARING" /\ ~IsLive(m.event)
        BY <1>3, <2>1 DEF HistInv, Handles
  <2>3. row \in table[r] /\ row.status = Living
        BY <1>0, <2>1 DEF TableInv, NewestLiving
  <2>4. t \in Nat /\ t = (IF m.stamped THEN m.event ELSE happened[r]) /\ (EndsInTime(m, row) <=> t >= row.start)
        BY <1>0, <1>3, <1>4 DEF EndTime, EndsInTime
  <2> HIDE DEF t
\* The statement is accepted exactly when the command ends the last session.
  <2>5. ASSUME NEW e \in Nat, HistOf(r, e)
        PROVE  /\ row.start = e
               /\ EndsInTime(m, row) => m.event = e + 1 /\ t >= e + 1
               /\ ~EndsInTime(m, row) => m.event # e + 1
    <3> HIDE DEF row
    <3>1. row.start = e /\ IsLive(e)
          BY <1>4, <1>7, <2>3, <2>5, ShowsLiving
    <3>2. m.event # e
          BY <2>2, <3>1
    <3>3. m.event = e + 1 => t >= e + 1
          BY <1>3, <1>4, <1>7, <2>4, <2>5
    <3>4. m.event # e + 1 => t < e
          BY <1>3, <1>7, <2>4, <2>5, <3>2
    <3> QED
          BY <2>4, <3>1, <3>3, <3>4
  <2>6. CASE UpdateRow
    <3>1. /\ EndsInTime(m, row) /\ worker' = [at |-> "clean", msg |-> m]
          /\ table' = [table EXCEPT ![r] = {x \in table[r] : x.key # row.key} \cup
                                           {[row EXCEPT !.status = Ended, !.end = t]}]
          BY <1>0, <2>6 DEF UpdateRow, SetRows, t
    <3>2. /\ table'[r] = {x \in table[r] : x.key # row.key} \cup {[row EXCEPT !.status = Ended, !.end = t]}
          /\ \A s \in Rooms \ {r} : table'[s] = table[s]
          BY <1>0, <1>3, <3>1 DEF TableInv
    <3>3. worker'.at = "clean" /\ worker'.msg = m
          BY <3>1
    <3>4. ASSUME NEW e \in Nat, HistOf(r, e) PROVE HistOf(r, e + 1)'
      <4>1. m.event = e + 1 /\ t >= e + 1
            BY <2>5, <3>1, <3>4
      <4>2. Shows(table'[r], e + 1)
        <5>1. Shows(table[r], e) /\ table[r] \in SUBSET Row /\ KeysDiffer(table[r])
              BY <1>4, <1>7, <3>4
        <5> HIDE DEF row
        <5>2. t \in Nat /\ t >= e + 1 /\ row \in table[r] /\ row.status = Living
              BY <2>3, <2>4, <4>1
        <5>3. Shows({x \in table[r] : x.key # row.key} \cup {[row EXCEPT !.status = Ended, !.end = t]}, e + 1)
              BY <5>1, <5>2, ShowsEnd
        <5> QED
              BY <3>2, <5>3
      <4>3. LineUp(channel, r, e + 1, inOrder[r])
            BY <1>7, <3>4, <4>1
      <4> QED
            BY <1>8, <3>3, <4>2, <4>3
    <3>5. HistType' /\ Handles'
          BY <1>1, <2>1, <3>3 DEF HistInv, HistType, Handles
    <3>6. ASSUME faithful'[r] PROVE \E e \in Nat : HistOf(r, e)'
      <4>1. PICK e \in Nat : HistOf(r, e)
            BY <1>3, <2>1, <3>6 DEF HistInv
      <4>2. e + 1 \in Nat /\ HistOf(r, e + 1)'
            BY <3>4, <4>1
      <4> QED
            BY <4>2
    <3> HIDE DEF m
    <3> QED
          BY <1>1, <1>3, <1>5, <1>6, <2>1, <3>2, <3>3, <3>5, <3>6, HistAt
  <2>7. CASE UpdateRejected
    <3>1. ~EndsInTime(m, row) /\ worker' = Idle /\ UNCHANGED table
          BY <2>7 DEF UpdateRejected, Finish
    <3>2. ASSUME NEW e \in Nat, HistOf(r, e) PROVE HistOf(r, e)'
      <4>1. Shows(table'[r], e) /\ LineUp(channel, r, e, inOrder[r])
            BY <1>7, <2>5, <3>1, <3>2
      <4> QED
            BY <1>8, <3>1, <4>1, IdleAt
    <3>3. HistType' /\ Handles'
          BY <1>1, <2>1, <3>1, IdleAt DEF HistInv, HistType, Handles
    <3>4. faithful'[r] => \E e \in Nat : HistOf(r, e)'
          BY <1>3, <2>1, <3>2 DEF HistInv
    <3> HIDE DEF m
    <3> QED
          BY <1>1, <1>3, <1>5, <1>6, <2>1, <3>1, <3>3, <3>4, HistAt
  <2> QED
        BY <1>12, <2>6, <2>7
<1> QED
      BY <1>9, <1>10, <1>11, <1>12

\* The worker takes the next command.
LEMMA HistTakes == ASSUME AccountInv, HistInv, Take, UNCHANGED happened PROVE HistInv'
<1> DEFINE h == Head(channel)
<1>1. /\ worker = Idle /\ channel # <<>> /\ worker' = [at |-> h.cmd, msg |-> h]
      /\ channel' = Tail(channel) /\ UNCHANGED <<table, inOrder, faithful>>
      BY DEF Take, upstream
<1>2. channel \in Seq(Tasks) /\ h \in Tasks
      BY <1>1 DEF AccountInv
<1>3. worker'.at = h.cmd /\ worker'.msg = h
      BY <1>1
<1>4. h.cmd # "update" /\ \A r : Working(r)' <=> Mine(h, r)
      BY <1>2, <1>3, MessageType DEF Working, Mine, Tasks, ViewerMessage, Danmu, SuperChat
<1>5. ASSUME NEW r \in Rooms, NEW e \in Nat, HistOf(r, e) PROVE HistOf(r, e)'
  <2>1. Shows(table[r], e) /\ LineUp(channel, r, e, inOrder[r]) /\ inOrder[r] \in Nat
        BY <1>1, <1>5, IdleAt DEF HistOf, Working, HistInv, HistType
  <2>2. /\ ~Mine(h, r) => LineUp(channel', r, e, inOrder[r])
        /\ Mine(h, r) =>
             /\ h.event <= e + 1 /\ h.event <= inOrder[r] /\ (h.stamped \/ h.event = e + 1)
             /\ LineUp(channel', r, IF h.event = e + 1 THEN e + 1 ELSE e, inOrder[r])
        BY <1>1, <1>2, <2>1, LineUpTail
  <2> HIDE DEF h
  <2>3. /\ (Working(r)' <=> Mine(h, r)) /\ worker'.msg = h
        /\ table' = table /\ inOrder' = inOrder
        BY <1>1, <1>3, <1>4
  <2> QED
        BY <2>1, <2>2, <2>3 DEF HistOf
<1>6. HistType' /\ Handles'
      BY <1>1, <1>3, <1>4 DEF HistInv, HistType, Handles
<1> QED
      BY <1>1, <1>5, <1>6 DEF HistInv

\* A command arrives: the channel takes it, or it is lost and with it the claim.
LEMMA HistReceives ==
  ASSUME AccountInv, TableInv, HistInv, NEW m \in Message, Dispatch(m) \/ Suppress(m)
  PROVE  HistInv'
<1>1. /\ m.event <= happened[m.room]
      /\ UNCHANGED <<happened, worker, table>>
      /\ \/ Ghosts(m, Len(channel) < Capacity) /\ Offer(m)
         \/ Ghosts(m, FALSE) /\ UNCHANGED channel
      BY DEF Dispatch, Suppress, Receive
<1>2. PICK r \in Rooms : r = m.room
      BY MessageType
<1>3. m.event \in Nat /\ m \in Tasks /\ \A s : Mine(m, s) <=> s = r
      BY <1>2, MessageType DEF Mine, Tasks
<1>4. inOrder \in [Rooms -> Nat] /\ faithful \in [Rooms -> BOOLEAN] /\ channel \in Seq(Tasks)
      /\ happened \in [Rooms -> Nat]
      BY DEF HistInv, HistType, AccountInv, TableInv
<1> DEFINE next == inOrder[r] + 1
           top == IF m.event = next THEN next ELSE inOrder[r]
<1>5. PICK kept \in BOOLEAN :
        /\ inOrder' = [inOrder EXCEPT ![r] = top]
        /\ faithful' = [faithful EXCEPT ![r] =
             @ /\ ((m.event = next /\ kept) \/ (m.event < next /\ m.stamped))]
        /\ channel' = Append(channel, m) \/ (~kept /\ UNCHANGED channel)
  <2>0. ASSUME NEW K \in BOOLEAN, Ghosts(m, K)
        PROVE  /\ inOrder' = [inOrder EXCEPT ![r] = top]
               /\ faithful' = [faithful EXCEPT ![r] =
                    @ /\ ((m.event = next /\ K) \/ (m.event < next /\ m.stamped))]
        BY <1>2, <2>0 DEF Ghosts
  <2>1. CASE Ghosts(m, FALSE) /\ UNCHANGED channel
        BY <2>0, <2>1
  <2>2. CASE Ghosts(m, Len(channel) < Capacity) /\ Offer(m)
    <3>1. channel' = Append(channel, m) \/ (~(Len(channel) < Capacity) /\ UNCHANGED channel)
          BY <2>2, <1>4, PipelineAssumption DEF Offer
    <3> DEFINE K == Len(channel) < Capacity
    <3>2. K \in BOOLEAN /\ Ghosts(m, K) /\ (channel' = Append(channel, m) \/ (~K /\ UNCHANGED channel))
          BY <2>2, <3>1
    <3> HIDE DEF K
    <3> QED
          BY <2>0, <3>2
  <2> QED
        BY <1>1, <2>1, <2>2
<1>6. /\ top \in Nat /\ inOrder[r] <= top /\ top <= happened[r]
      BY <1>1, <1>2, <1>3, <1>4 DEF HistInv
<1>7. /\ inOrder'[r] = top /\ \A s \in Rooms \ {r} : inOrder'[s] = inOrder[s] /\ faithful'[s] = faithful[s]
      /\ inOrder' \in [Rooms -> Nat] /\ faithful' \in [Rooms -> BOOLEAN]
      /\ faithful'[r] => faithful[r] /\ ((m.event = next /\ kept) \/ (m.event < next /\ m.stamped))
  <2> HIDE DEF top
  <2> QED
      BY <1>4, <1>5, <1>6
\* The command reaches the end of the channel, or is another one of its event.
<1>8. ASSUME NEW s \in Rooms, NEW b \in Nat, LineUp(channel, s, b, inOrder[s]), faithful'[s]
      PROVE  LineUp(channel', s, b, inOrder'[s])
  <2>1. CASE s # r
    <3>1. inOrder'[s] = inOrder[s] /\ ~Mine(m, s) /\ inOrder[s] \in Nat
          BY <1>3, <1>4, <1>7, <2>1
    <3> HIDE DEF next, top
    <3>2. LineUp(Append(channel, m), s, b, inOrder[s])
          BY <1>3, <1>4, <1>8, <3>1, LineUpAppend
    <3> QED
          BY <1>5, <1>8, <3>1, <3>2
  <2>2. CASE s = r
    <3>1. Mine(m, r) /\ ((m.event = next /\ kept) \/ (m.event < next /\ m.stamped))
          BY <1>3, <1>7, <1>8, <2>2
    <3>2. CASE m.event = next /\ kept
      <4>1. channel' = Append(channel, m) /\ top = inOrder[r] + 1 /\ m.event = inOrder[r] + 1
            BY <1>5, <3>2
      <4>2. inOrder[r] \in Nat
            BY <1>4
      <4> HIDE DEF next, top
      <4>3. LineUp(Append(channel, m), r, b, top)
            BY <1>3, <1>4, <1>6, <1>8, <2>2, <3>1, <4>1, <4>2, LineUpAppend
      <4> QED
            BY <1>7, <2>2, <4>1, <4>3
    <3>3. CASE m.event < next /\ m.stamped
      <4>1. inOrder[r] \in Nat
            BY <1>4
      <4>2. top = inOrder[r] /\ m.event <= inOrder[r] /\ m.stamped
            BY <1>3, <3>3, <4>1
      <4> HIDE DEF next, top
      <4>3. LineUp(Append(channel, m), r, b, inOrder[r])
            BY <1>3, <1>4, <1>8, <2>2, <3>1, <4>1, <4>2, LineUpAppend
      <4> QED
            BY <1>5, <1>7, <1>8, <2>2, <4>2, <4>3
    <3> QED
          BY <3>1, <3>2, <3>3
  <2> QED
        BY <2>1, <2>2
<1>9. ASSUME NEW s \in Rooms, NEW e \in Nat, HistOf(s, e), faithful'[s]
      PROVE  HistOf(s, e)'
  <2> DEFINE b == IF Working(s) /\ worker.msg.event = e + 1 THEN e + 1 ELSE e
  <2>1. b \in Nat
        OBVIOUS
  <2>2. Shows(table[s], e) /\ LineUp(channel, s, b, inOrder[s])
        /\ (Working(s) => /\ worker.msg.event <= e + 1 /\ worker.msg.event <= inOrder[s]
                          /\ worker.msg.stamped \/ worker.msg.event = e + 1)
        BY <1>9 DEF HistOf
  <2>3. LineUp(channel', s, b, inOrder'[s])
    <3> HIDE DEF b
    <3> QED
        BY <1>8, <1>9, <2>1, <2>2
  <2>4. inOrder[s] \in Nat /\ inOrder'[s] \in Nat /\ inOrder[s] <= inOrder'[s]
    <3> HIDE DEF top, next
    <3>1. CASE s = r
          BY <1>4, <1>6, <1>7, <3>1
    <3>2. CASE s # r
          BY <1>4, <1>7, <3>2
    <3> QED
          BY <3>1, <3>2
  <2>5. Working(s) => worker.msg.event \in Nat
        BY MessageType, IdleAt DEF Working, AccountInv, WorkerType
  <2>6. Working(s) => worker.msg.event <= inOrder'[s]
        BY <2>2, <2>4, <2>5
  <2>7. (Working(s)' <=> Working(s)) /\ worker' = worker /\ table' = table
        BY <1>1 DEF Working
  <2> QED
        BY <2>2, <2>3, <2>6, <2>7 DEF HistOf
<1>10. \A s \in Rooms : faithful'[s] => faithful[s]
      BY <1>7
<1>11. \A s \in Rooms : inOrder'[s] <= happened'[s]
  <2> HIDE DEF top, next
  <2> QED
      BY <1>1, <1>6, <1>7 DEF HistInv
<1>12. HistType' /\ Handles'
      BY <1>1, <1>7 DEF HistInv, HistType, Handles
<1> HIDE DEF top, next
<1> QED
      BY <1>9, <1>10, <1>11, <1>12 DEF HistInv

\* The commands of viewers take places of their own.
LEMMA HistViewers ==
  ASSUME AccountInv, HistInv, NEW m \in ViewerMessage, DispatchViewer(m) PROVE HistInv'
<1>1. UNCHANGED <<happened, worker, table, inOrder, faithful>> /\ Offer(m)
      BY DEF DispatchViewer, Receive
<1>2. m \in Tasks /\ \A r : ~Mine(m, r)
      BY DEF Mine, Tasks, ViewerMessage, Danmu, SuperChat
<1>3. channel \in Seq(Tasks) /\ inOrder \in [Rooms -> Nat]
      BY DEF AccountInv, HistInv, HistType
<1>4. ASSUME NEW r \in Rooms, NEW e \in Nat, HistOf(r, e) PROVE HistOf(r, e)'
  <2> DEFINE b == IF Working(r) /\ worker.msg.event = e + 1 THEN e + 1 ELSE e
  <2>1. b \in Nat /\ inOrder[r] \in Nat
        BY <1>3
  <2>2. LineUp(channel, r, b, inOrder[r])
        BY <1>4 DEF HistOf
  <2> HIDE DEF b
  <2>3. LineUp(Append(channel, m), r, b, inOrder[r])
        BY <1>2, <1>3, <2>1, <2>2, LineUpAppend
  <2>4. LineUp(channel', r, b, inOrder[r])
        BY <1>1, <2>2, <2>3 DEF Offer
  <2> QED
        BY <1>1, <1>4, <2>4 DEF HistOf, Working, b
<1> QED
      BY <1>1, <1>4 DEF HistInv, HistType, Handles

\* Every step keeps the history of every room that has lost nothing.
LEMMA HistStep ==
  ASSUME AccountInv, TableInv, HistInv, [ViewerPipelineNext]_<<vars, viewerVars>> PROVE HistInv'
<1>1. ASSUME UNCHANGED <<table, channel, inOrder, faithful, happened>>,
             \/ UNCHANGED worker
             \/ /\ worker.at \in {"DANMU_MSG", "SUPER_CHAT_MESSAGE", "clean"}
                /\ worker' = Idle
      PROVE  HistInv'
  <2>1. \A r \in Rooms : inOrder[r] <= happened'[r]
        BY <1>1 DEF HistInv
  <2> QED
        BY <1>1, <2>1, IdleAt, HistElsewhere
<1>2. ASSUME NEW q \in Rooms, Happen(q) PROVE HistInv'
  <2>1. UNCHANGED <<table, channel, inOrder, faithful, worker>>
        /\ happened' = [happened EXCEPT ![q] = @ + 1] /\ happened \in [Rooms -> Nat]
        BY <1>2 DEF Happen, TableInv
  <2>2. \A r \in Rooms : inOrder[r] <= happened'[r]
        BY <2>1 DEF HistInv, HistType
  <2> QED
        BY <2>1, <2>2, HistElsewhere
<1>3. CASE LiveNext
      BY <1>1, <1>2, <1>3, HistReceives DEF LiveNext, ReaderStep, upstream
<1>4. CASE ViewerNext
      BY <1>1, <1>4, HistViewers DEF ViewerNext, MinuteTurns, DayPasses, CheckByBV, vars
<1>5. CASE (\E t \in recent : Forget(t)) \/ Clean \/ HandleDanmu \/ HandleSc \/ ViewerHandlerFails
      BY <1>1, <1>5 DEF Forget, Clean, HandleDanmu, HandleSc, ViewerHandlerFails, HandlerReturns, Finish
<1>6. CASE Take
  <2>1. UNCHANGED happened
        BY <1>6 DEF Take, upstream
  <2> QED
        BY <1>6, <2>1, HistTakes
<1>7. CASE FailHandler \/ HandleLive \/ SelectLiving \/ UpdateRow \/ UpdateRejected
      BY <1>7, HistHandles
<1>8. CASE UNCHANGED <<vars, viewerVars>>
      BY <1>1, <1>8 DEF vars
<1> QED
      BY <1>3, <1>4, <1>5, <1>6, <1>7, <1>8 DEF ViewerPipelineNext, ViewerWorkerStep, WorkerStep

-----------------------------------------------------------------------------
(* The codec: where each call of ParsePacket stands in its frame.           *)

Calls == [of : Frames, end : Nat, offset : Nat, messages : Seq(Commands)]

\* A call stands before the i-th packet of its frame, or behind the last.
Stands(c, i) ==
  /\ i \in 1..Len(c.of.start)
  /\ c.offset = c.of.start[i] /\ c.offset <= c.end
  /\ c.messages = c.of.said[i]
\* Its frame ended within the i-th packet.
CutWithin(c, i) ==
  /\ i \in 1..Len(c.of.packets)
  /\ c.of.start[i] < c.end /\ c.end < c.of.start[i + 1]
  /\ c.offset = c.of.start[i + 1]
  /\ c.messages \in {c.of.said[i], Append(c.of.said[i], "UNKNOWN")}
InPlace(c) ==
  /\ c.end <= Len(c.of.cells)
  /\ \E i \in Nat : Stands(c, i) \/ CutWithin(c, i)
\* The caller of d stands before the packet d unpacks, which it has whole.
Calling(c, d, i) ==
  /\ Stands(c, i) /\ i \in 1..Len(c.of.packets) /\ c.of.start[i + 1] <= c.end
  /\ c.of.packets[i].says = AllOf(d.of)
  /\ d.end = Len(d.of.cells)
CodecInv ==
  /\ calls \in Seq(Calls)
  /\ \A j \in 1..Len(calls) : InPlace(calls[j])
  /\ \A j \in 1..(Len(calls) - 1) : \E i \in Nat : Calling(calls[j], calls[j + 1], i)

\* The offsets of a frame's packets are numbers that grow up to its end.
LEMMA FrameOffsets ==
  ASSUME NEW f \in Frames
  PROVE  /\ Len(f.packets) \in Nat /\ Len(f.cells) \in Nat
         /\ Len(f.start) = Len(f.packets) + 1 /\ DOMAIN f.start = 1..Len(f.start)
         /\ f.start[1] = 0 /\ f.start[Len(f.packets) + 1] = Len(f.cells)
         /\ \A i \in 1..(Len(f.packets) + 1) : f.start[i] \in Nat /\ f.start[i] <= Len(f.cells)
         /\ \A i, j \in 1..(Len(f.packets) + 1) : i < j => f.start[i] < f.start[j]
<1>1. WellPacked(f)
  BY FrameAssumption
<1>2. /\ Len(f.packets) \in Nat
      /\ f.start \in Seq(0..Len(f.cells)) /\ Len(f.start) = Len(f.packets) + 1
      /\ f.start[1] = 0 /\ f.start[Len(f.packets) + 1] = Len(f.cells)
      /\ \A i, j \in 1..(Len(f.packets) + 1) : i < j => f.start[i] < f.start[j]
  BY <1>1 DEF WellPacked
<1>3. Len(f.cells) \in Nat
  BY <1>1 DEF WellPacked
<1>4. \A i \in 1..Len(f.start) : f.start[i] \in 0..Len(f.cells)
  BY <1>2
<1>5. QED
  BY <1>2, <1>3, <1>4

\* What is said before each packet of a frame is a sequence of commands.
LEMMA FrameSaid ==
  ASSUME NEW f \in Frames
  PROVE  /\ f.said[1] = <<>> /\ AllOf(f) = f.said[Len(f.packets) + 1]
         /\ \A i \in 1..(Len(f.packets) + 1) : f.said[i] \in Seq(Commands)
<1>1. WellPacked(f) /\ Len(f.packets) \in Nat
  BY FrameAssumption, FrameOffsets
<1>2. f.said \in Seq(Seq(Commands)) /\ Len(f.said) = Len(f.packets) + 1 /\ f.said[1] = <<>>
  BY <1>1 DEF WellPacked
<1>3. QED
  BY <1>1, <1>2 DEF AllOf

\* A packet of a frame is between two of its offsets.
LEMMA FramePacket ==
  ASSUME NEW f \in Frames, NEW i \in 1..Len(f.packets)
  PROVE  /\ f.packets[i] \in Packets
         /\ f.start[i + 1] = f.start[i] + f.packets[i].header.len
         /\ f.cells[f.start[i] + 1] = f.packets[i].header
         /\ SubSeq(f.cells, f.start[i] + 2, f.start[i + 1]) = f.packets[i].body
         /\ f.said[i + 1] = f.said[i] \o f.packets[i].says
<1>1. WellPacked(f)
  BY FrameAssumption
<1>2. f.packets \in Seq(Packets)
  BY <1>1 DEF WellPacked
<1>3. f.packets[i] \in Packets
  BY <1>2
<1>4. QED
  BY <1>1, <1>3 DEF WellPacked

\* A packet that is whole says what ParseBody finds, or what the frame says that
\* comes out of it.
LEMMA PacketSays ==
  ASSUME NEW p \in Packets
  PROVE  /\ p.header.len = 1 + Len(p.body) /\ Len(p.body) \in Nat
         /\ p.says \in Seq(Commands)
         /\ Decompresses(p.header, p.body) =>
              p.body[1].frame \in Frames /\ p.says = AllOf(p.body[1].frame)
         /\ ~Decompresses(p.header, p.body) => ParseBody(p.header, p.body) = p.says
<1> USE DEF MakePacket, Decompresses, ParseBody, ParseJSONMessage, Json, Packed, Formats,
            OpHeartbeatReply, OpSendMsgReply, OpAuthReply, ProtoVerNormal, ProtoVerHeartbeat,
            ProtoVerDeflate, ProtoVerBrotli, ProtoVerUnknown
<1>1. CASE \E n \in Names : p = MakePacket(OpSendMsgReply, ProtoVerNormal, Json(n), <<n>>)
  BY <1>1 DEF Commands
<1>2. CASE p = MakePacket(OpSendMsgReply, ProtoVerNormal, <<>>, <<>>)
  BY <1>2
<1>3. CASE p = MakePacket(OpSendMsgReply, ProtoVerUnknown, Json("any"), <<>>)
  BY <1>3
<1>4. CASE p = MakePacket(OpHeartbeatReply, ProtoVerHeartbeat, <<[popularity |-> 1]>>, <<"_HEARTBEAT">>)
  BY <1>4 DEF Commands
<1>5. CASE p = MakePacket(OpAuthReply, ProtoVerHeartbeat, Json("any"), <<>>)
  BY <1>5
<1>6. ASSUME NEW f \in Frames, NEW v \in Formats, NEW ver \in Formats, p = Compressed(f, v, ver)
      PROVE  /\ p.header.len = 1 + Len(p.body) /\ Len(p.body) \in Nat
             /\ p.says \in Seq(Commands)
             /\ Decompresses(p.header, p.body) =>
                  p.body[1].frame \in Frames /\ p.says = AllOf(p.body[1].frame)
             /\ ~Decompresses(p.header, p.body) => ParseBody(p.header, p.body) = p.says
  <2>1. AllOf(f) \in Seq(Commands)
    <3>1. /\ Len(f.packets) \in Nat /\ AllOf(f) = f.said[Len(f.packets) + 1]
          /\ \A i \in 1..(Len(f.packets) + 1) : f.said[i] \in Seq(Commands)
      BY FrameOffsets, FrameSaid
    <3>2. QED
      BY <3>1
  <2>2. /\ p.header = [len |-> 2, op |-> 5, ver |-> v]
        /\ p.body = <<[zip |-> ver, frame |-> f]>>
        /\ p.says = IF v = ver THEN AllOf(f) ELSE <<>>
    BY <1>6 DEF Compressed
  <2>3. QED
    BY <2>1, <2>2
<1>7. QED
  BY <1>1, <1>2, <1>3, <1>4, <1>5, <1>6 DEF Packets, Simple

\* A packet whose body was cut is one unknown command, or none.
LEMMA CutSays ==
  ASSUME NEW p \in Packets, NEW S, NEW body \in Seq(S), Len(body) < Len(p.body)
  PROVE  /\ ~Decompresses(p.header, body)
         /\ ParseBody(p.header, body) \in {<<>>, <<"UNKNOWN">>}
<1> USE DEF MakePacket, Decompresses, ParseBody, ParseJSONMessage, Json, Packed, Formats,
            OpHeartbeatReply, OpSendMsgReply, OpAuthReply, ProtoVerNormal, ProtoVerHeartbeat,
            ProtoVerDeflate, ProtoVerBrotli, ProtoVerUnknown
<1>1. Len(body) \in Nat /\ (Len(body) = 0 => body = <<>>)
  OBVIOUS
<1>2. CASE \E n \in Names : p = MakePacket(OpSendMsgReply, ProtoVerNormal, Json(n), <<n>>)
  BY <1>1, <1>2
<1>3. CASE p = MakePacket(OpSendMsgReply, ProtoVerNormal, <<>>, <<>>)
  BY <1>1, <1>3
<1>4. CASE p = MakePacket(OpSendMsgReply, ProtoVerUnknown, Json("any"), <<>>)
  BY <1>1, <1>4
<1>5. CASE p = MakePacket(OpHeartbeatReply, ProtoVerHeartbeat, <<[popularity |-> 1]>>, <<"_HEARTBEAT">>)
  BY <1>1, <1>5
<1>6. CASE p = MakePacket(OpAuthReply, ProtoVerHeartbeat, Json("any"), <<>>)
  BY <1>1, <1>6
<1>7. CASE \E f \in Frames, v \in Formats, ver \in Formats : p = Compressed(f, v, ver)
  BY <1>1, <1>7 DEF Compressed
<1>8. QED
  BY <1>2, <1>3, <1>4, <1>5, <1>6, <1>7 DEF Packets, Simple

\* What the loop reads of the packet it stands before.
LEMMA AtPacket ==
  ASSUME NEW c \in Calls, InPlace(c), ~Done(c)
  PROVE  \E i \in 1..Len(c.of.packets) :
           LET p == c.of.packets[i]
           IN /\ Stands(c, i) /\ Header(c) = p.header
              /\ Passed(c, <<>>).offset = c.of.start[i + 1]
              /\ IF c.of.start[i + 1] <= c.end THEN Body(c) = p.body
                 ELSE /\ \E S : Body(c) \in Seq(S)
                      /\ Len(Body(c)) < Len(p.body)
<1> DEFINE f == c.of
<1>1. f \in Frames /\ c.end \in Nat /\ c.offset \in Nat /\ c.offset < c.end /\ c.end <= Len(f.cells)
  BY DEF Calls, InPlace, Done
<1>2. PICK i \in Nat : Stands(c, i) \/ CutWithin(c, i)
  BY DEF InPlace
<1>3. /\ Len(f.packets) \in Nat /\ Len(f.start) = Len(f.packets) + 1 /\ Len(f.cells) \in Nat
      /\ f.start[Len(f.packets) + 1] = Len(f.cells)
      /\ \A k \in 1..(Len(f.packets) + 1) : f.start[k] \in Nat /\ f.start[k] <= Len(f.cells)
  BY <1>1, FrameOffsets
<1>4. Stands(c, i)
  BY <1>1, <1>2, <1>3 DEF CutWithin
<1>5. i \in 1..Len(f.packets)
  BY <1>1, <1>4, <1>3 DEF Stands
<1> DEFINE p == f.packets[i]
<1>6. /\ f.start[i] \in Nat /\ f.start[i + 1] \in Nat /\ f.start[i + 1] <= Len(f.cells)
      /\ p \in Packets
      /\ f.start[i + 1] = f.start[i] + p.header.len /\ f.cells[f.start[i] + 1] = p.header
      /\ SubSeq(f.cells, f.start[i] + 2, f.start[i + 1]) = p.body
      /\ p.header.len = 1 + Len(p.body) /\ Len(p.body) \in Nat
  <2>1. f.start[i] \in Nat /\ f.start[i + 1] \in Nat /\ f.start[i + 1] <= Len(f.cells)
    <3>1. i \in 1..(Len(f.packets) + 1) /\ i + 1 \in 1..(Len(f.packets) + 1)
      BY <1>5, <1>3
    <3>2. QED
      BY <1>3, <3>1
  <2>2. /\ p \in Packets
        /\ f.start[i + 1] = f.start[i] + p.header.len /\ f.cells[f.start[i] + 1] = p.header
        /\ SubSeq(f.cells, f.start[i] + 2, f.start[i + 1]) = p.body
    BY <1>1, <1>5, FramePacket
  <2>3. p.header.len = 1 + Len(p.body) /\ Len(p.body) \in Nat
    BY <2>2, PacketSays
  <2>4. QED
    BY <2>1, <2>2, <2>3
<1>7. Header(c) = p.header
  BY <1>4, <1>6 DEF Header, Stands
<1>8. Passed(c, <<>>).offset = f.start[i + 1]
  BY <1>4, <1>6, <1>7 DEF Passed, Stands, Calls
<1>9. CASE f.start[i + 1] <= c.end
  <2>1. Body(c) = p.body
    <3>1. c.offset + Header(c).len = f.start[i + 1] /\ c.offset = f.start[i]
      BY <1>4, <1>6, <1>7 DEF Stands
    <3>2. Cut(f.start[i + 1], c.end) = f.start[i + 1]
      BY <1>1, <1>6, <1>9 DEF Cut
    <3>3. QED
      BY <1>6, <3>1, <3>2 DEF Body
  <2>2. QED
    BY <1>4, <1>5, <1>7, <1>8, <1>9, <2>1
<1>10. CASE ~(f.start[i + 1] <= c.end)
  <2>1. Body(c) = SubSeq(f.cells, f.start[i] + 2, c.end)
    <3>1. c.offset + Header(c).len = f.start[i + 1] /\ c.offset = f.start[i]
      BY <1>4, <1>6, <1>7 DEF Stands
    <3>2. Cut(f.start[i + 1], c.end) = c.end
      BY <1>1, <1>6, <1>10 DEF Cut
    <3>3. QED
      BY <3>1, <3>2 DEF Body
  <2>2. f.cells \in Seq({f.cells[j] : j \in DOMAIN f.cells})
    BY <1>1, FrameAssumption DEF WellPacked
  <2>3. Body(c) \in Seq({f.cells[j] : j \in DOMAIN f.cells}) /\ Len(Body(c)) < Len(p.body)
    <3> DEFINE m == f.start[i] + 2
               T == {f.cells[j] : j \in DOMAIN f.cells}
    <3>1. c.offset = f.start[i] /\ f.start[i] \in Nat /\ c.end \in Nat
      BY <1>1, <1>4, <1>6 DEF Stands
    <3>2. f.start[i] < c.end
      BY <1>1, <3>1
    <3>3. m \in Nat /\ m >= 2 /\ m <= c.end + 1 /\ c.end <= Len(f.cells)
      BY <1>1, <3>1, <3>2
    <3>4. f.start[i + 1] = f.start[i] + p.header.len /\ p.header.len = 1 + Len(p.body)
      BY <1>6
    <3>5. Len(p.body) \in Nat /\ f.start[i] \in Nat
      BY <1>6
    <3> DEFINE k == Len(p.body)
               o == f.start[i]
    <3>6. f.start[i + 1] = o + (1 + k)
      BY <3>4
    <3>7. c.end - m + 1 < k
      <4>1. c.end < f.start[i + 1]
        BY <1>1, <1>6, <1>10
      <4>2. c.end < o + (1 + k)
        BY <3>6, <4>1
      <4>3. m = o + 2 /\ k \in Nat /\ o \in Nat
        BY <3>5
      <4> HIDE DEF k, o, m
      <4>4. QED
        BY <3>1, <4>2, <4>3
    <3> HIDE DEF m, T
    <3>8. f.cells \in Seq(T)
      BY <2>2 DEF T
    <3>9. SubSeq(f.cells, m, c.end) \in Seq(T) /\ Len(SubSeq(f.cells, m, c.end)) = c.end - m + 1
      BY <1>1, <1>3, <3>3, <3>8
    <3>10. QED
      BY <2>1, <3>7, <3>9 DEF m, T
  <2>4. QED
    BY <1>4, <1>5, <1>7, <1>8, <1>10, <2>3
<1>11. QED
  BY <1>9, <1>10

\* The innermost call moves on, and those that wait for it go on waiting.
LEMMA LastMoves ==
  ASSUME CodecInv, calls # <<>>, NEW d \in Calls, InPlace(d),
         d.of = Current.of, d.end = Current.end, calls' = [calls EXCEPT ![Len(calls)] = d]
  PROVE  CodecInv'
<1>1. /\ calls \in Seq(Calls) /\ calls' \in Seq(Calls)
      /\ Len(calls) \in Nat /\ Len(calls) > 0 /\ Len(calls') = Len(calls)
      /\ calls'[Len(calls)] = d
      /\ \A j \in 1..(Len(calls) - 1) : calls'[j] = calls[j]
  BY DEF CodecInv
<1>2. Len(calls) \in Nat /\ Len(calls) > 0
  BY <1>1
<1>3. ASSUME NEW j \in 1..Len(calls) PROVE InPlace(calls'[j])
  <2>1. CASE j = Len(calls)
    BY <1>1, <2>1
  <2>2. CASE j # Len(calls)
    <3>1. InPlace(calls[j])
      BY DEF CodecInv
    <3>2. j \in 1..(Len(calls) - 1)
      BY <1>2, <2>2
    <3>3. QED
      BY <1>1, <3>1, <3>2
  <2>3. QED
    BY <2>1, <2>2
<1>4. ASSUME NEW j \in 1..(Len(calls) - 1) PROVE \E i \in Nat : Calling(calls'[j], calls'[j + 1], i)
  <2>1. PICK i \in Nat : Calling(calls[j], calls[j + 1], i)
    BY DEF CodecInv
  <2>2. calls'[j + 1].of = calls[j + 1].of /\ calls'[j + 1].end = calls[j + 1].end
    <3>1. CASE j + 1 = Len(calls)
      BY <1>1, <3>1 DEF Current
    <3>2. CASE j + 1 # Len(calls)
      <4>1. j + 1 \in 1..(Len(calls) - 1)
        BY <1>2, <3>2
      <4>2. QED
        BY <1>1, <4>1
    <3>3. QED
      BY <3>1, <3>2
  <2>3. Calling(calls'[j], calls'[j + 1], i)
    BY <1>1, <2>1, <2>2 DEF Calling
  <2>4. QED
    BY <2>3
<1>5. QED
  BY <1>1, <1>3, <1>4 DEF CodecInv

\* A packet is passed: it was whole, and what it says is found; or it was cut.
LEMMA PassedInPlace ==
  ASSUME NEW c \in Calls, InPlace(c), NEW i \in 1..Len(c.of.packets), Stands(c, i),
         Header(c) = c.of.packets[i].header, NEW found \in Seq(Commands),
         \/ c.of.start[i + 1] <= c.end /\ found = c.of.packets[i].says
         \/ /\ c.of.start[i] < c.end /\ c.end < c.of.start[i + 1]
            /\ found \in {<<>>, <<"UNKNOWN">>}
  PROVE  /\ Passed(c, found) \in Calls /\ InPlace(Passed(c, found))
         /\ Passed(c, found).of = c.of /\ Passed(c, found).end = c.end
<1> DEFINE f == c.of
           d == Passed(c, found)
<1>1. f \in Frames /\ c.end \in Nat /\ c.end <= Len(f.cells)
  BY DEF Calls, InPlace
<1>2. /\ Len(f.packets) \in Nat /\ Len(f.start) = Len(f.packets) + 1
      /\ \A k \in 1..(Len(f.packets) + 1) : f.start[k] \in Nat
  BY <1>1, FrameOffsets
<1>3. \A k \in 1..(Len(f.packets) + 1) : f.said[k] \in Seq(Commands)
  BY <1>1, FrameSaid
<1>4. /\ f.said[i + 1] = f.said[i] \o f.packets[i].says
      /\ f.start[i + 1] = f.start[i] + Header(c).len
  BY <1>1, FramePacket
<1>5. /\ c.messages = f.said[i] /\ f.said[i] \in Seq(Commands)
      /\ i + 1 \in 1..Len(f.start) /\ i \in Nat
      /\ c.offset = f.start[i] /\ f.start[i + 1] \in Nat
  BY <1>2, <1>3 DEF Stands
<1>6. /\ d.of = f /\ d.end = c.end /\ d.offset = f.start[i + 1]
      /\ d.messages = f.said[i] \o found /\ d \in Calls
  <2>1. c = [of |-> f, end |-> c.end, offset |-> f.start[i], messages |-> f.said[i]]
    BY <1>5 DEF Calls
  <2> DEFINE e == [of |-> f, end |-> c.end, offset |-> f.start[i + 1], messages |-> f.said[i] \o found]
  <2>2. d = e
    <3>1. d = [c EXCEPT !.offset = c.offset + Header(c).len, !.messages = c.messages \o found]
      BY DEF Passed
    <3>2. d = [c EXCEPT !.offset = f.start[i + 1], !.messages = f.said[i] \o found]
      BY <1>5, <1>4, <3>1
    <3>3. QED
      BY <2>1, <3>2
  <2>3. f.said[i] \o found \in Seq(Commands)
    BY <1>5
  <2>4. QED
    BY <1>1, <1>5, <2>2, <2>3 DEF Calls
<1> HIDE DEF d
<1>7. CASE f.start[i + 1] <= c.end /\ found = f.packets[i].says
  <2>1. Stands(d, i + 1)
    <3>1. i + 1 \in 1..Len(d.of.start) /\ d.offset = d.of.start[i + 1] /\ d.offset <= d.end
      BY <1>5, <1>6, <1>7
    <3>2. d.messages = d.of.said[i + 1]
      BY <1>6, <1>7, <1>4
    <3>3. QED
      BY <3>1, <3>2 DEF Stands
  <2>2. QED
    BY <1>5, <1>6, <2>1 DEF InPlace, d
<1>8. CASE /\ f.start[i] < c.end /\ c.end < f.start[i + 1]
           /\ found \in {<<>>, <<"UNKNOWN">>}
  <2>1. d.messages \in {f.said[i], Append(f.said[i], "UNKNOWN")}
    <3>1. d.messages = f.said[i] \o found /\ f.said[i] \in Seq(Commands)
      BY <1>5, <1>6
    <3>2. CASE found = <<>>
      BY <3>1, <3>2
    <3>3. CASE found = <<"UNKNOWN">>
      BY <3>1, <3>3
    <3>4. QED
      BY <1>8, <3>2, <3>3
  <2>2. CutWithin(d, i)
    BY <1>6, <1>8, <2>1 DEF CutWithin
  <2>3. QED
    BY <1>5, <1>6, <2>2 DEF InPlace, d
<1>9. QED
  BY <1>7, <1>8

\* One turn of the loop.
LEMMA ParseNextKeeps == ASSUME CodecInv, ParseNext PROVE CodecInv'
<1> DEFINE c == Current
           found == ParseBody(Header(c), Body(c))
<1>1. /\ calls # <<>> /\ ~Done(c) /\ ~Decompresses(Header(c), Body(c))
      /\ calls' = [calls EXCEPT ![Len(calls)] = Passed(c, found)]
  BY DEF ParseNext
<1>2. c \in Calls /\ InPlace(c)
  BY <1>1 DEF CodecInv, Current
<1> HIDE DEF c
<1>3. PICK i \in 1..Len(c.of.packets) :
        LET p == c.of.packets[i]
        IN /\ Stands(c, i) /\ Header(c) = p.header
           /\ IF c.of.start[i + 1] <= c.end THEN Body(c) = p.body
              ELSE /\ \E S : Body(c) \in Seq(S)
                   /\ Len(Body(c)) < Len(p.body)
  BY <1>1, <1>2, AtPacket
<1>4. c.of.packets[i] \in Packets /\ c.of.start[i + 1] \in Nat /\ c.end \in Nat
  <2>1. c.of \in Frames /\ c.end \in Nat
    BY <1>2 DEF Calls
  <2>2. /\ Len(c.of.packets) \in Nat
        /\ \A k \in 1..(Len(c.of.packets) + 1) : c.of.start[k] \in Nat
    BY <2>1, FrameOffsets
  <2>3. c.of.packets[i] \in Packets
    BY <2>1, FramePacket
  <2>4. QED
    BY <2>1, <2>2, <2>3
<1>5. /\ found \in Seq(Commands)
      /\ \/ c.of.start[i + 1] <= c.end /\ found = c.of.packets[i].says
         \/ /\ c.of.start[i] < c.end /\ c.end < c.of.start[i + 1]
            /\ found \in {<<>>, <<"UNKNOWN">>}
  <2>1. CASE c.of.start[i + 1] <= c.end
    BY <1>1, <1>3, <1>4, <2>1, PacketSays
  <2>2. CASE ~(c.of.start[i + 1] <= c.end)
    <3>1. found \in {<<>>, <<"UNKNOWN">>}
      BY <1>3, <1>4, <2>2, CutSays
    <3>2. c.of.start[i] < c.end
      BY <1>1, <1>2, <1>3 DEF Done, Stands, Calls
    <3>3. found \in Seq(Commands)
      <4>1. "UNKNOWN" \in Commands
        BY DEF Commands
      <4>2. <<>> \in Seq(Commands)
        OBVIOUS
      <4>3. <<"UNKNOWN">> \in Seq(Commands)
        BY <4>1
      <4>4. QED
        BY <3>1, <4>2, <4>3
    <3>4. QED
      BY <1>4, <2>2, <3>1, <3>2, <3>3
  <2>3. QED
    BY <2>1, <2>2
<1> HIDE DEF found
<1>6. /\ Passed(c, found) \in Calls /\ InPlace(Passed(c, found))
      /\ Passed(c, found).of = c.of /\ Passed(c, found).end = c.end
  BY <1>2, <1>3, <1>5, PassedInPlace
<1>7. QED
  BY <1>1, <1>6, LastMoves DEF c

\* ParsePacket calls itself for a compressed packet that is whole.
LEMMA ParseInnerKeeps == ASSUME CodecInv, ParseInner PROVE CodecInv'
<1> DEFINE c == Current
           inner == Body(c)[1].frame
           d == Call(inner, Len(inner.cells))
<1>1. /\ calls # <<>> /\ ~Done(c) /\ Decompresses(Header(c), Body(c)) /\ calls' = Append(calls, d)
  BY DEF ParseInner
<1>2. c \in Calls /\ InPlace(c)
  BY <1>1 DEF CodecInv, Current
<1> HIDE DEF c
<1>3. PICK i \in 1..Len(c.of.packets) :
        LET p == c.of.packets[i]
        IN /\ Stands(c, i) /\ Header(c) = p.header
           /\ IF c.of.start[i + 1] <= c.end THEN Body(c) = p.body
              ELSE /\ \E S : Body(c) \in Seq(S)
                   /\ Len(Body(c)) < Len(p.body)
  BY <1>1, <1>2, AtPacket
<1>4. c.of.packets[i] \in Packets /\ i \in Nat
  <2>1. c.of \in Frames
    BY <1>2 DEF Calls
  <2>2. c.of.packets[i] \in Packets
    BY <2>1, FramePacket
  <2>3. Len(c.of.packets) \in Nat
    BY <2>1, FrameOffsets
  <2>4. QED
    BY <2>2, <2>3
<1>5. c.of.start[i + 1] <= c.end /\ Body(c) = c.of.packets[i].body
  BY <1>1, <1>3, <1>4, CutSays
<1>6. inner \in Frames /\ c.of.packets[i].says = AllOf(inner)
  BY <1>1, <1>3, <1>4, <1>5, PacketSays
<1> HIDE DEF inner
<1>7. /\ d \in Calls /\ d.of = inner /\ d.end = Len(inner.cells) /\ d.offset = 0 /\ d.messages = <<>>
  BY <1>6, FrameOffsets, FrameSaid, FramePacket DEF Call, Calls
<1>8. Stands(d, 1) /\ d.end <= Len(d.of.cells)
  BY <1>6, <1>7, FrameOffsets, FrameSaid, FramePacket DEF Stands
<1>9. InPlace(d) /\ Calling(c, d, i)
  BY <1>3, <1>5, <1>6, <1>7, <1>8 DEF InPlace, Calling
<1> HIDE DEF d
<1>10. /\ calls \in Seq(Calls) /\ calls' \in Seq(Calls) /\ Len(calls) \in Nat /\ Len(calls) > 0
       /\ Len(calls') = Len(calls) + 1 /\ calls'[Len(calls) + 1] = d
       /\ calls'[Len(calls)] = c
       /\ \A j \in 1..Len(calls) : calls'[j] = calls[j]
  BY <1>1, <1>7 DEF CodecInv, c, Current
<1>11. \A j \in 1..Len(calls') : InPlace(calls'[j])
  BY <1>9, <1>10 DEF CodecInv
<1>12. \A j \in 1..(Len(calls') - 1) : \E k \in Nat : Calling(calls'[j], calls'[j + 1], k)
  <2>1. TAKE j \in 1..(Len(calls') - 1)
  <2>2. CASE j = Len(calls)
    BY <1>4, <1>9, <1>10, <2>2
  <2>3. CASE j # Len(calls)
    <3>1. j \in 1..(Len(calls) - 1) /\ calls'[j] = calls[j] /\ calls'[j + 1] = calls[j + 1]
      BY <1>10, <2>3
    <3>2. QED
      BY <3>1 DEF CodecInv
  <2>4. QED
    BY <2>2, <2>3
<1>13. QED
  BY <1>10, <1>11, <1>12 DEF CodecInv

\* A call that has come to the end of a whole frame has found all it says.
LEMMA WholeIsAll ==
  ASSUME NEW d \in Calls, InPlace(d), Done(d), d.end = Len(d.of.cells)
  PROVE  d.messages = AllOf(d.of)
<1> DEFINE f == d.of
<1>1. f \in Frames /\ d.end \in Nat /\ d.offset \in Nat /\ d.offset >= d.end
  BY DEF Calls, Done
<1>2. PICK i \in Nat : Stands(d, i) \/ CutWithin(d, i)
  BY DEF InPlace
<1>3. /\ Len(f.packets) \in Nat /\ Len(f.start) = Len(f.packets) + 1 /\ Len(f.cells) \in Nat
      /\ f.start[Len(f.packets) + 1] = Len(f.cells)
      /\ \A k \in 1..(Len(f.packets) + 1) : f.start[k] \in Nat /\ f.start[k] <= Len(f.cells)
      /\ \A k, j \in 1..(Len(f.packets) + 1) : k < j => f.start[k] < f.start[j]
  BY <1>1, FrameOffsets
<1>4. Stands(d, i)
  <2>1. SUFFICES ASSUME CutWithin(d, i) PROVE FALSE
    BY <1>2
  <2>2. i + 1 \in 1..(Len(f.packets) + 1) /\ d.end < f.start[i + 1]
    BY <1>3, <2>1 DEF CutWithin
  <2>3. f.start[i + 1] \in Nat /\ f.start[i + 1] <= Len(f.cells)
    BY <1>3, <2>2
  <2>4. QED
    BY <1>3, <2>2, <2>3
<1>5. f.start[i] = f.start[Len(f.packets) + 1] /\ i \in 1..(Len(f.packets) + 1)
  BY <1>1, <1>4, <1>3 DEF Stands
<1>6. i = Len(f.packets) + 1
  <2>1. ~(i < Len(f.packets) + 1)
    BY <1>5, <1>3
  <2>2. QED
    BY <1>5, <1>3, <2>1
<1>7. QED
  BY <1>1, <1>4, <1>6, FrameSaid DEF Stands

\* The caller appends what the call returns and passes the packet.
LEMMA ReturnInnerKeeps == ASSUME CodecInv, ReturnInner PROVE CodecInv'
<1> DEFINE n == Len(calls) - 1
           c == calls[n]
           d == Current
           e == Passed(c, d.messages)
<1>1. /\ n \in Nat /\ n > 0 /\ Len(calls) = n + 1 /\ Done(d)
      /\ calls' = [SubSeq(calls, 1, n) EXCEPT ![n] = e]
  <2>1. n > 0 /\ Done(d) /\ calls' = [SubSeq(calls, 1, n) EXCEPT ![n] = Passed(@, d.messages)]
    BY DEF ReturnInner
  <2>2. calls \in Seq(Calls) /\ n \in Nat /\ Len(calls) = n + 1
    BY <2>1 DEF CodecInv
  <2>3. SubSeq(calls, 1, n)[n] = c
    BY <2>1, <2>2
  <2>4. calls' = [SubSeq(calls, 1, n) EXCEPT ![n] = Passed(SubSeq(calls, 1, n)[n], d.messages)]
    BY <2>1
  <2>5. QED
    BY <2>1, <2>2, <2>3, <2>4
<1>2. c \in Calls /\ InPlace(c) /\ d \in Calls /\ InPlace(d)
  BY <1>1 DEF CodecInv, Current
<1>3. PICK i \in Nat : Calling(c, d, i)
  BY <1>1 DEF CodecInv, Current
<1>4. d.messages = AllOf(d.of)
  BY <1>1, <1>2, <1>3, WholeIsAll DEF Calling
<1>5. /\ i \in 1..Len(c.of.packets) /\ Stands(c, i) /\ c.of.start[i + 1] <= c.end
      /\ d.messages = c.of.packets[i].says /\ d.messages \in Seq(Commands)
  BY <1>2, <1>3, <1>4 DEF Calling, Calls
<1>6. Header(c) = c.of.packets[i].header
  BY <1>2, <1>5, FrameOffsets, FrameSaid, FramePacket DEF Header, Stands, Calls
<1>7. e \in Calls /\ InPlace(e) /\ e.of = c.of /\ e.end = c.end
  BY <1>2, <1>5, <1>6, PassedInPlace
<1> HIDE DEF e, c, d
<1>8. /\ calls' \in Seq(Calls) /\ Len(calls') = n /\ calls'[n] = e
      /\ \A j \in 1..(n - 1) : calls'[j] = calls[j]
  <2> DEFINE s == SubSeq(calls, 1, n)
  <2>1. calls \in Seq(Calls)
    BY DEF CodecInv
  <2>2. /\ s \in Seq(Calls) /\ Len(s) = n
        /\ \A j \in 1..n : s[j] = calls[j]
    BY <1>1, <2>1
  <2> HIDE DEF s
  <2>3. calls' = [s EXCEPT ![n] = e]
    BY <1>1 DEF s
  <2>4. n \in Nat /\ n > 0 /\ e \in Calls
    BY <1>1, <1>7
  <2> HIDE DEF n
  <2>5. calls' \in Seq(Calls) /\ Len(calls') = n
    BY <2>2, <2>3, <2>4
  <2>6. calls'[n] = e
    BY <2>2, <2>3, <2>4
  <2>7. ASSUME NEW j \in 1..(n - 1) PROVE calls'[j] = calls[j]
    BY <2>2, <2>3, <2>4
  <2>8. QED
    BY <2>5, <2>6, <2>7
<1>9. n \in Nat /\ n > 0 /\ Len(calls) = n + 1
  BY <1>1
<1>10. ASSUME NEW j \in 1..n PROVE InPlace(calls'[j])
  <2>1. CASE j = n
    BY <1>7, <1>8, <2>1
  <2>2. CASE j # n
    <3> HIDE DEF n
    <3>1. j \in 1..(n - 1) /\ j \in 1..Len(calls)
      BY <1>9, <2>2
    <3>2. InPlace(calls[j])
      BY <3>1 DEF CodecInv
    <3>3. QED
      BY <1>8, <3>1, <3>2
  <2>3. QED
    BY <2>1, <2>2
<1>11. ASSUME NEW j \in 1..(n - 1) PROVE \E k \in Nat : Calling(calls'[j], calls'[j + 1], k)
  <2>1. PICK k \in Nat : Calling(calls[j], calls[j + 1], k)
    BY <1>1 DEF CodecInv
  <2>2. calls'[j + 1].of = calls[j + 1].of /\ calls'[j + 1].end = calls[j + 1].end
    <3>1. CASE j + 1 = n
      BY <1>7, <1>8, <3>1 DEF c
    <3>2. CASE j + 1 # n
      <4> HIDE DEF n
      <4>1. j + 1 \in 1..(n - 1)
        BY <1>9, <3>2
      <4>2. QED
        BY <1>8, <4>1
    <3>3. QED
      BY <3>1, <3>2
  <2>3. Calling(calls'[j], calls'[j + 1], k)
    BY <1>8, <2>1, <2>2 DEF Calling
  <2>4. QED
    BY <2>3
<1>12. QED
  BY <1>8, <1>10, <1>11 DEF CodecInv

\* The first call of a message, and the end of it.
LEMMA OutermostKeeps == ASSUME CodecInv, ReadMessage \/ HandOn PROVE CodecInv'
<1>1. CASE ReadMessage
  <2>1. PICK f \in Frames : \E end \in 0..Len(f.cells) : calls' = <<Call(f, end)>>
    BY <1>1 DEF ReadMessage
  <2>2. PICK end \in 0..Len(f.cells) : calls' = <<Call(f, end)>>
    BY <2>1
  <2> DEFINE c == Call(f, end)
  <2>3. /\ c \in Calls /\ c.of = f /\ c.end = end /\ c.offset = 0 /\ c.messages = <<>>
        /\ end <= Len(f.cells)
    BY <2>2, FrameOffsets, FrameSaid, FramePacket DEF Call, Calls
  <2>4. Stands(c, 1)
    BY <2>3, FrameOffsets, FrameSaid, FramePacket DEF Stands
  <2>5. InPlace(c)
    BY <2>3, <2>4 DEF InPlace
  <2> HIDE DEF c
  <2>6. calls' = <<c>>
    BY <2>2 DEF c
  <2>7. QED
    BY <2>3, <2>5, <2>6 DEF CodecInv
<1>2. CASE HandOn
  BY <1>2 DEF HandOn, CodecInv
<1>3. QED
  BY <1>1, <1>2

\* Every step of the codec keeps its invariant.
LEMMA CodecStep == CodecInv /\ [CodecNext]_calls => CodecInv'
<1> SUFFICES ASSUME CodecInv, [CodecNext]_calls PROVE CodecInv'
  OBVIOUS
<1>1. CASE UNCHANGED calls
  BY <1>1 DEF CodecInv
<1>2. QED
  BY <1>1, OutermostKeeps, ParseNextKeeps, ParseInnerKeeps, ReturnInnerKeeps DEF CodecNext

\* The invariant is what Unpacks promises.
LEMMA InvUnpacks == CodecInv => Unpacks
<1> SUFFICES ASSUME CodecInv, calls # <<>>, Done(calls[1])
             PROVE  LET c == calls[1]
                        f == c.of
                    IN \E k \in DOMAIN f.start :
                         /\ f.start[k] <= c.end
                         /\ \A j \in DOMAIN f.start : k < j => c.end < f.start[j]
                         /\ \/ c.messages = f.said[k]
                            \/ c.end < Len(f.cells) /\ c.messages = Append(f.said[k], "UNKNOWN")
  BY DEF Unpacks
<1> DEFINE c == calls[1]
           f == c.of
<1>1. c \in Calls /\ InPlace(c) /\ Done(c)
  BY DEF CodecInv
<1> HIDE DEF c
<1>2. f \in Frames /\ c.end \in Nat /\ c.offset \in Nat /\ c.offset >= c.end
  BY <1>1 DEF Calls, Done
<1>3. PICK i \in Nat : Stands(c, i) \/ CutWithin(c, i)
  BY <1>1 DEF InPlace
<1>4. /\ Len(f.packets) \in Nat /\ Len(f.start) = Len(f.packets) + 1 /\ Len(f.cells) \in Nat
      /\ DOMAIN f.start = 1..Len(f.start)
      /\ \A k \in 1..(Len(f.packets) + 1) : f.start[k] \in Nat /\ f.start[k] <= Len(f.cells)
      /\ \A k, j \in 1..(Len(f.packets) + 1) : k < j => f.start[k] < f.start[j]
  BY <1>2, FrameOffsets
<1>5. CASE Stands(c, i)
  <2>1. i \in DOMAIN f.start /\ f.start[i] = c.end /\ c.messages = f.said[i]
    BY <1>2, <1>4, <1>5 DEF Stands
  <2>2. \A j \in DOMAIN f.start : i < j => c.end < f.start[j]
    BY <1>4, <2>1
  <2>3. f.start[i] <= c.end
    BY <1>2, <2>1
  <2>4. QED
    BY <2>1, <2>2, <2>3 DEF c
<1>6. CASE CutWithin(c, i)
  <2>1. /\ i \in DOMAIN f.start /\ i + 1 \in DOMAIN f.start
        /\ f.start[i] <= c.end /\ c.end < f.start[i + 1]
        /\ c.messages \in {f.said[i], Append(f.said[i], "UNKNOWN")}
    BY <1>2, <1>4, <1>6 DEF CutWithin
  <2>2. ASSUME NEW j \in DOMAIN f.start, i < j PROVE c.end < f.start[j]
    <3>1. i \in Nat /\ j \in Nat /\ (j = i + 1 \/ i + 1 < j)
      BY <1>4, <2>1, <2>2
    <3>2. f.start[i + 1] <= f.start[j] /\ f.start[j] \in Nat /\ f.start[i + 1] \in Nat
      BY <1>4, <2>1, <3>1
    <3>3. QED
      BY <1>2, <2>1, <3>2
  <2>3. c.end < Len(f.cells)
    <3>1. f.start[i + 1] \in Nat /\ f.start[i + 1] <= Len(f.cells)
      BY <1>4, <2>1
    <3>2. QED
      BY <1>2, <1>4, <2>1, <3>1
  <2>4. QED
    BY <2>1, <2>2, <2>3 DEF c
<1>7. QED
  BY <1>3, <1>5, <1>6

-----------------------------------------------------------------------------
\* What the steps keep within bounds.
BoundInv ==
  /\ Len(channel) <= Capacity /\ offered <= MaxOffered
  /\ minuteSet \subseteq counted /\ counted \subseteq Rooms \X Uids \X Seconds

\* A command is queued only where there is room.
LEMMA ReceiveBounds ==
  ASSUME AccountInv, BoundInv, NEW m, NEW text, Receive(m, text), UNCHANGED <<minuteSet, counted>>
  PROVE  BoundInv'
<1>1. /\ offered' = offered + 1 /\ offered < MaxOffered /\ offered \in Nat /\ MaxOffered \in Nat
      /\ Capacity \in Nat
      BY PipelineAssumption DEF Receive, AccountInv
<1>2. Len(channel') <= Capacity
  <2>1. CASE Len(channel) < Capacity /\ channel' = Append(channel, m)
    <3>1. Len(channel') = Len(channel) + 1 /\ Len(channel) \in Nat
          BY <2>1 DEF AccountInv
    <3> QED
          BY <1>1, <2>1, <3>1
  <2> QED
        BY <2>1 DEF Receive, Offer, BoundInv
<1> QED
      BY <1>1, <1>2 DEF BoundInv

\* Every step keeps the bounds.
LEMMA BoundStep ==
  ASSUME AccountInv, BoundInv, [ViewerPipelineNext]_<<vars, viewerVars>> PROVE BoundInv'
<1>1. CASE UNCHANGED <<offered, channel, minuteSet, counted>>
      BY <1>1 DEF BoundInv
<1>2. ASSUME NEW m, NEW text, Receive(m, text), UNCHANGED viewerVars PROVE BoundInv'
      BY <1>2, ReceiveBounds DEF viewerVars, danmuVars
<1>3. CASE Take /\ UNCHANGED viewerVars
  <2>1. Len(channel') = Len(channel) - 1 /\ Len(channel) \in Nat /\ UNCHANGED offered
        BY <1>3 DEF Take, upstream, AccountInv
  <2> QED
        BY <1>3, <2>1, PipelineAssumption DEF BoundInv, viewerVars, danmuVars
<1>4. CASE HandleDanmu
  <2>1. UNCHANGED <<offered, channel>>
        BY <1>4 DEF HandleDanmu, HandlerReturns
  <2>2. CASE UNCHANGED danmuVars
        BY <2>1, <2>2 DEF BoundInv, danmuVars
  <2>3. CASE Count(worker.msg)
    <3>1. worker.msg \in Danmu
          BY <1>4 DEF HandleDanmu, AccountInv, WorkerType, Idle
    <3>2. Value(worker.msg) \in Rooms \X Uids \X Seconds
          BY <3>1 DEF Value, Danmu
    <3> QED
          BY <2>1, <2>3, <3>2 DEF BoundInv, Count
  <2> QED
        BY <1>4, <2>2, <2>3 DEF HandleDanmu, StatisticsDanmu
<1>5. CASE MinuteTurns \/ DayPasses
      BY <1>5 DEF MinuteTurns, DayPasses, BoundInv, vars
<1>6. CASE "LIVE" \in sent /\ LiveNext
  <2>1. ASSUME NEW m \in Message, Dispatch(m) PROVE BoundInv'
        BY <1>2, <1>6, <2>1 DEF Dispatch, LiveNext
  <2>2. ASSUME NEW m \in Message, Suppress(m) PROVE BoundInv'
        BY <1>1, <1>6, <2>2 DEF Suppress, LiveNext, viewerVars, danmuVars
  <2>3. ASSUME NEW r \in Rooms, Happen(r) \/ ReaderStep(r) PROVE BoundInv'
        BY <1>1, <1>6, <2>3 DEF Happen, ReaderStep, LiveNext, viewerVars, danmuVars, upstream
  <2> QED
        BY <1>6, <2>1, <2>2, <2>3 DEF LiveNext
<1>7. CASE ViewerNext
  <2>1. ASSUME NEW m, DispatchViewer(m) PROVE BoundInv'
        BY <1>2, <2>1 DEF DispatchViewer
  <2>2. ASSUME NEW r, CheckByBV(r) PROVE BoundInv'
        BY <1>1, <2>2 DEF CheckByBV, vars, danmuVars
  <2> QED
        BY <1>5, <1>7, <2>1, <2>2 DEF ViewerNext
<1>8. CASE (\E t \in recent : Forget(t)) /\ UNCHANGED viewerVars
      BY <1>1, <1>8 DEF Forget, viewerVars, danmuVars
<1>9. CASE ViewerWorkerStep
      BY <1>1, <1>3, <1>4, <1>9
         DEF ViewerWorkerStep, WorkerStep, FailHandler, HandleLive, SelectLiving, UpdateRow,
             UpdateRejected, Clean, HandleSc, ViewerHandlerFails, HandlerReturns, upstream,
             viewerVars, danmuVars
<1> QED
      BY <1>1, <1>6, <1>7, <1>8, <1>9 DEF ViewerPipelineNext, vars, viewerVars, danmuVars

-----------------------------------------------------------------------------
\* The steps the worker has before it at most: four for a command that waits,
\* since it has to be taken, and those left of the handler under way.
Left ==
  CASE worker.at = "PREPARING" -> 3
    [] worker.at \in {"LIVE", "update"} -> 2
    [] worker.at \in {"clean", "DANMU_MSG", "SUPER_CHAT_MESSAGE"} -> 1
    [] OTHER -> 0
Backlog == 4 * Len(channel) + Left

\* The places of the worker.
LEMMA LeftIs ==
  ASSUME AccountInv
  PROVE  /\ Left \in 0..3 /\ Len(channel) \in Nat /\ Backlog \in Nat
         /\ worker = Idle => Left = 0
         /\ worker.at = "PREPARING" => Left = 3
         /\ worker.at \in {"LIVE", "update"} => Left = 2
         /\ worker.at \in {"clean", "DANMU_MSG", "SUPER_CHAT_MESSAGE"} => Left = 1
<1>1. Left \in 0..3
      BY DEF Left
<1>2. Len(channel) \in Nat
      BY DEF AccountInv
<1> QED
      BY <1>1, <1>2, IdleAt DEF Left, Backlog

\* A step of the worker leaves less to do.
LEMMA WorkerLowers ==
  ASSUME AccountInv, ViewerWorkerStep, AccountInv' PROVE Backlog' < Backlog
<1>1. /\ Left \in 0..3 /\ Len(channel) \in Nat
      /\ Left' \in 0..3 /\ Len(channel)' \in Nat
  <2>1. Left' \in 0..3
        BY DEF Left
  <2>2. Len(channel)' \in Nat
        BY DEF AccountInv
  <2> QED
        BY <2>1, <2>2, LeftIs
<1>2. CASE Take
  <2>1. Len(channel)' = Len(channel) - 1 /\ worker = Idle
        BY <1>2 DEF Take, AccountInv
  <2> QED
        BY <1>1, <2>1, LeftIs DEF Backlog
<1>3. ASSUME UNCHANGED channel, Left' < Left PROVE Backlog' < Backlog
      BY <1>1, <1>3 DEF Backlog
<1>4. ASSUME worker' = Idle
      PROVE  Left' = 0
      BY <1>4, IdleAt DEF Left
<1>5. CASE FailHandler \/ UpdateRejected \/ Clean
      BY <1>3, <1>4, <1>5, LeftIs DEF FailHandler, UpdateRejected, Clean, Finish
<1>6. CASE HandleDanmu \/ HandleSc \/ ViewerHandlerFails
      BY <1>3, <1>4, <1>6, LeftIs DEF HandleDanmu, HandleSc, ViewerHandlerFails, HandlerReturns, Finish
<1>7. CASE HandleLive
  <2>1. worker.at = "LIVE" /\ worker' = [worker EXCEPT !.at = "clean"] /\ UNCHANGED channel
        BY <1>7 DEF HandleLive
  <2>2. "at" \in DOMAIN worker
        BY <2>1, IdleAt DEF AccountInv, WorkerType
  <2>3. worker'.at = "clean"
        BY <2>1, <2>2
  <2> QED
        BY <1>3, <2>1, <2>3, LeftIs DEF Left
<1>8. CASE SelectLiving
  <2>1. worker.at = "PREPARING" /\ UNCHANGED channel
        BY <1>8 DEF SelectLiving
  <2>2. CASE worker' = Idle
        BY <1>3, <1>4, <2>1, <2>2, LeftIs
  <2>3. ASSUME NEW row, worker' = [at |-> "update", msg |-> worker.msg, row |-> row]
        PROVE  Backlog' < Backlog
    <3>1. worker'.at = "update"
          BY <2>3
    <3>2. Left' = 2
          BY <3>1 DEF Left
    <3> QED
          BY <1>3, <2>1, <3>2, LeftIs
  <2> QED
        BY <1>8, <2>2, <2>3 DEF SelectLiving, Finish
<1>9. CASE UpdateRow
      BY <1>3, <1>9, LeftIs DEF UpdateRow, Left
<1> QED
      BY <1>2, <1>5, <1>6, <1>7, <1>8, <1>9 DEF ViewerWorkerStep, WorkerStep

\* Any other step leaves as much to do, but that a command may be queued.
LEMMA OthersKeep ==
  ASSUME AccountInv, AccountInv', [ViewerPipelineNext]_<<vars, viewerVars>>
  PROVE  \/ ViewerWorkerStep
         \/ UNCHANGED <<offered, worker, channel>>
         \/ offered' = offered + 1 /\ UNCHANGED worker /\ Len(channel)' <= Len(channel) + 1
<1>1. ASSUME NEW m, NEW text, Receive(m, text)
      PROVE  offered' = offered + 1 /\ UNCHANGED worker /\ Len(channel)' <= Len(channel) + 1
      BY <1>1 DEF Receive, Offer, AccountInv
<1>2. CASE "LIVE" \in sent /\ LiveNext
  <2>1. ASSUME NEW m \in Message, Dispatch(m) \/ Suppress(m)
        PROVE  \/ UNCHANGED <<offered, worker, channel>>
               \/ offered' = offered + 1 /\ UNCHANGED worker /\ Len(channel)' <= Len(channel) + 1
        BY <1>1, <2>1 DEF Dispatch, Suppress
  <2>2. ASSUME NEW r \in Rooms, Happen(r) \/ ReaderStep(r)
        PROVE  UNCHANGED <<offered, worker, channel>>
        BY <2>2 DEF Happen, ReaderStep, upstream
  <2> QED
        BY <1>2, <2>1, <2>2 DEF LiveNext
<1>3. CASE ViewerNext
      BY <1>1, <1>3 DEF ViewerNext, DispatchViewer, MinuteTurns, DayPasses, CheckByBV, vars
<1>4. CASE \E t \in recent : Forget(t)
      BY <1>4 DEF Forget
<1> QED
      BY <1>2, <1>3, <1>4 DEF ViewerPipelineNext, vars

-----------------------------------------------------------------------------
IInv == AccountInv /\ BoundInv /\ TableInv /\ HistInv /\ CountInv /\ ScInv /\ StaleInv

\* The invariant holds at the start.
LEMMA InitIInv == ViewerPipelineInit => IInv
<1> SUFFICES ASSUME ViewerPipelineInit PROVE IInv
    OBVIOUS
<1>1. AccountInv
      BY DEF ViewerPipelineInit, Init, AccountInv, WorkerType, NothingUncounted
<1>2. TableInv
      BY IdleAt, PipelineAssumption DEF ViewerPipelineInit, Init, TableInv, KeysDiffer
<1>3. CountInv
  <2>1. \A r, u : Of({}, r, u) = {}
        BY DEF Of
  <2> QED
        BY <2>1, FS_EmptySet DEF ViewerPipelineInit, ViewerInit, CountInv
<1>4. ScInv
  <2>1. Ids({}) = {}
        BY DEF Ids
  <2> QED
        BY <2>1, FS_EmptySet DEF ViewerPipelineInit, ViewerInit, Bv!CacheInit, ScInv, Distinct, AtMost
<1>5. StaleInv
  <2>1. DOMAIN cached = RoomKeys /\ DOMAIN fill = RoomKeys
        BY DEF ViewerPipelineInit, Init, CacheInit, RoomKeys
  <2>2. \A k \in RoomKeys : cached[k] = None /\ fill[k] = None
        BY DEF ViewerPipelineInit, Init, CacheInit, RoomKeys
  <2> QED
        BY <2>1, <2>2, KeysAre DEF StaleInv, CacheType, Shaped, Sound, FillSound, CachedSound
<1>6. HistInv
  <2>1. Shows({}, 0)
    <3>1. Session(0) = 0
          BY DEF Session
    <3> QED
          BY <3>1, FS_EmptySet DEF Shows, Exact
  <2>2. \A r \in Rooms : LineUp(<<>>, r, 0, 0)
        BY DEF LineUp
  <2>3. \A r \in Rooms : HistOf(r, 0)
        BY <2>1, <2>2, IdleAt DEF ViewerPipelineInit, Init, HistOf, Working
  <2> QED
        BY <2>3, IdleAt DEF ViewerPipelineInit, Init, HistInv, HistType, Handles
<1>7. BoundInv
  <2>1. Len(<<>>) = 0
        OBVIOUS
  <2> QED
        BY <2>1, PipelineAssumption DEF ViewerPipelineInit, Init, ViewerInit, BoundInv
<1> QED
      BY <1>1, <1>2, <1>3, <1>4, <1>5, <1>6, <1>7 DEF IInv

\* The parts together.
LEMMA StepIInv == IInv /\ [ViewerPipelineNext]_<<vars, viewerVars>> => IInv'
BY AccountStep, BoundStep, TableStep, HistStep, CountStep, ScStep, StaleStep DEF IInv

\* IInv is inductive.
LEMMA Invariance == ViewerPipelineSpec => []IInv
BY InitIInv, StepIInv, PTL DEF ViewerPipelineSpec

\* What the codec does is no step of the pipeline, nor the other way round.
THEOREM CodecStandsApart ==
  PipelineSpec => ViewerPipelineSpec /\ CodecInit /\ [][CodecNext]_calls
<1>1. PipelineInit => ViewerPipelineInit /\ CodecInit
      BY DEF PipelineInit
<1>2. [PipelineNext]_<<vars, viewerVars, calls>> => [ViewerPipelineNext]_<<vars, viewerVars>>
      BY DEF PipelineNext
<1>3. [PipelineNext]_<<vars, viewerVars, calls>> => [CodecNext]_calls
      BY DEF PipelineNext
<1> QED
      BY <1>1, <1>2, <1>3, PTL DEF PipelineSpec, ViewerPipelineSpec

\* Every message of a frame is found once and in order, however its packets are
\* nested and wherever the frame is cut.
THEOREM FramesAreUnpacked == PipelineSpec => []Unpacks
<1>1. CodecInit => CodecInv
      BY DEF CodecInit, CodecInv
<1> QED
      BY <1>1, CodecStep, InvUnpacks, CodecStandsApart, PTL

\* The variables keep their types, and a channel of any capacity is never
\* overfilled, whatever the rooms send.
THEOREM TypeCorrect == PipelineSpec => []TypeOK
<1>1. IInv => TypeOK
  <2> SUFFICES ASSUME IInv PROVE TypeOK
      OBVIOUS
  <2>1. MaxEvents \in Nat /\ MaxOffered \in Nat
        BY PipelineAssumption
  <2>2. happened \in [Rooms -> 0..MaxEvents] /\ table \in [Rooms -> SUBSET Row]
        BY <2>1 DEF IInv, TableInv
  <2>3. inOrder \in [Rooms -> 0..MaxEvents] /\ faithful \in [Rooms -> BOOLEAN]
    <3>1. \A r \in Rooms : inOrder[r] \in Nat /\ inOrder[r] <= happened[r] /\ happened[r] \in 0..MaxEvents
          BY <2>2 DEF IInv, HistInv, HistType
    <3>2. \A r \in Rooms : inOrder[r] \in 0..MaxEvents
          BY <2>1, <3>1
    <3> QED
          BY <3>2 DEF IInv, HistInv, HistType
  <2>4. offered \in 0..MaxOffered
        BY <2>1 DEF IInv, AccountInv, BoundInv
  <2> QED
        BY <2>2, <2>3, <2>4 DEF IInv, AccountInv, BoundInv, CountInv, WorkerType, Tasks, TypeOK
<1> QED
      BY <1>1, Invariance, CodecStandsApart, PTL

\* What a step does to what is left.
HandlingAdvances ==
  /\ ViewerWorkerStep => Backlog' < Backlog
  /\ Backlog' + 4 * (MaxOffered - offered') <= Backlog + 4 * (MaxOffered - offered)
\* The part of ChannelDrains that needs no fairness: every step of the worker, the
\* failure of a handler included, leaves less to do, and nothing leaves more but a
\* command that is offered.
THEOREM HandlingEnds ==
  PipelineSpec => /\ [](Backlog \in Nat)
                  /\ [][HandlingAdvances]_<<vars, viewerVars>>
<1>1. IInv => Backlog \in Nat
      BY LeftIs DEF IInv
<1>2. IInv /\ [ViewerPipelineNext]_<<vars, viewerVars>> => [HandlingAdvances]_<<vars, viewerVars>>
  <2> SUFFICES ASSUME IInv, [ViewerPipelineNext]_<<vars, viewerVars>>
               PROVE  HandlingAdvances
      OBVIOUS
  <2>1. AccountInv /\ AccountInv'
        BY AccountStep DEF IInv
  <2>2. /\ Len(channel) \in Nat /\ Len(channel)' \in Nat /\ Left \in Nat /\ Left' \in Nat
        /\ offered \in Nat /\ offered' \in Nat /\ MaxOffered \in Nat
    <3>1. Left' \in Nat
          BY DEF Left
    <3>2. Len(channel)' \in Nat /\ offered' \in Nat
          BY <2>1 DEF AccountInv
    <3> QED
          BY <2>1, <3>1, <3>2, LeftIs, PipelineAssumption DEF AccountInv
  <2>3. CASE ViewerWorkerStep
    <3>1. Backlog' < Backlog
          BY <2>1, <2>3, WorkerLowers
    <3>2. UNCHANGED offered
          BY <2>3 DEF ViewerWorkerStep, WorkerStep, Take, FailHandler, HandleLive, SelectLiving,
             UpdateRow, UpdateRejected, Clean, HandleDanmu, HandleSc, ViewerHandlerFails,
             HandlerReturns, upstream
    <3> QED
          BY <2>2, <3>1, <3>2 DEF HandlingAdvances, Backlog
  <2>4. CASE ~ViewerWorkerStep /\ UNCHANGED <<offered, worker, channel>>
    <3>1. Left' = Left
          BY <2>4 DEF Left
    <3> QED
          BY <2>2, <2>4, <3>1 DEF HandlingAdvances, Backlog
  <2>5. CASE /\ ~ViewerWorkerStep
             /\ offered' = offered + 1 /\ UNCHANGED worker /\ Len(channel)' <= Len(channel) + 1
    <3>1. Left' = Left
          BY <2>5 DEF Left
    <3> QED
          BY <2>2, <2>5, <3>1 DEF HandlingAdvances, Backlog
  <2> QED
        BY <2>1, <2>3, <2>4, <2>5, OthersKeep
<1> QED
      BY <1>1, <1>2, Invariance, CodecStandsApart, PTL DEF ViewerPipelineSpec

\* Every command offered to the channel is waiting, under way, or counted.
THEOREM AccountsBalance == PipelineSpec => []NothingUncounted
<1>1. IInv => NothingUncounted
      BY DEF IInv, AccountInv
<1> QED
      BY <1>1, Invariance, CodecStandsApart, PTL

\* The table changes as if each handler were one atomic statement on the records.
THEOREM PipelineImplementsRecords == PipelineSpec => ImplementsRecords
<1>1. ViewerPipelineInit => Records!RecordsInit
      BY DEF ViewerPipelineInit, Init, Records!RecordsInit
<1>2. IInv /\ [ViewerPipelineNext]_<<vars, viewerVars>> => [Records!RecordsNext]_table
      BY TableStep DEF IInv
<1> QED
      BY <1>1, <1>2, Invariance, CodecStandsApart, PTL
         DEF ViewerPipelineSpec, ImplementsRecords, Records!RecordsSpec

\* So no command, in whatever order and however often it is handled, reopens an
\* ended row or moves its end.
THEOREM EndsAreFinal == PipelineSpec => Records!EndedIsFinal
<1>1. [Records!RecordsNext]_table =>
        [\A r \in Rooms : \A x \in table[r] : x.status = "ended" => x \in table'[r]]_table
  <2>1. SUFFICES ASSUME [Records!RecordsNext]_table, NEW r \in Rooms, NEW x \in table[r],
                        x.status = "ended"
                 PROVE  UNCHANGED table \/ x \in table'[r]
        OBVIOUS
  <2>2. ASSUME NEW s, NEW t, NEW key, Records!Begin(s, key, t) PROVE x \in table'[r]
        BY <2>2 DEF Records!Begin
  <2>3. ASSUME NEW s, NEW t, NEW y \in Records!Running(table[s]), Records!End(s, y, t)
        PROVE  x \in table'[r]
        BY <2>1, <2>3 DEF Records!End, Records!Running
  <2> QED
        BY <2>1, <2>2, <2>3 DEF Records!RecordsNext
<1> QED
      BY <1>1, PipelineImplementsRecords, PTL
         DEF ImplementsRecords, Records!RecordsSpec, Records!EndedIsFinal

\* A room none of whose commands was lost shows, once they are handled, exactly the
\* broadcasts that happened, however late and however often they were delivered.
THEOREM HistoryIsExact == PipelineSpec => []ExactHistory
<1>1. ASSUME IInv, NEW r \in Rooms, faithful[r], Settled(r)
      PROVE  Exact(table[r], inOrder[r])
  <2>1. PICK e \in Nat : HistOf(r, e)
        BY <1>1 DEF IInv, HistInv
  <2>2. ~Working(r) /\ \A i \in 1..Len(channel) : ~Mine(channel[i], r)
        BY <1>1, IdleAt DEF Settled, Working, Mine, IInv, AccountInv
  <2>3. Shows(table[r], e) /\ LineUp(channel, r, e, inOrder[r]) /\ inOrder[r] \in Nat
        BY <1>1, <2>1, <2>2 DEF HistOf, IInv, HistInv, HistType
  <2>4. e <= inOrder[r] /\ (e + 1)..inOrder[r] = {}
        BY <2>2, <2>3 DEF LineUp
  <2>5. e = inOrder[r]
        BY <2>3, <2>4
  <2> QED
        BY <2>3, <2>5 DEF Shows
<1>2. IInv => ExactHistory
      BY <1>1 DEF ExactHistory
<1> QED
      BY <1>2, Invariance, CodecStandsApart, PTL

\* The scores count each danmu once but for one delivered again in a later minute,
\* and a cached number of super chats is at most the number of different ones.
THEOREM CountsAreRight == PipelineSpec => []CountedOnce
<1>1. IInv => CountedOnce
      BY DEF IInv, CountInv, ScInv, CountedOnce, Of, Ids, AtMost
<1> QED
      BY <1>1, Invariance, CodecStandsApart, PTL
\* Outside a handler's cleaning, a cached answer of either query is the table's,
\* unless a statement overtook the query or the cleaning failed.
THEOREM CacheFollowsTable == PipelineSpec => []StaleOnlyByRace
<1>1. ASSUME NEW k, NEW answer, Sound(cached[k], answer) PROVE Fresh(k, answer)
      BY <1>1 DEF Sound, Fresh
<1>2. IInv => StaleOnlyByRace
      BY <1>1 DEF IInv, StaleInv, CachedSound, Cleaning, StaleOnlyByRace
<1> QED
      BY <1>2, Invariance, CodecStandsApart, PTL
=============================================================================
