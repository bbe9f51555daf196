--------------------------- MODULE TreeholeProofs ---------------------------
(***************************************************************************)
(* Safety of the treehole for any number of staff, topics and submissions, *)
(* as NavSpec runs it: what the job closes, how the limit is passed, and   *)
(* what a submission's page shows.                                         *)
(***************************************************************************)
EXTENDS TreeholeNavigation, TLAPS, FiniteSetTheorems, FunctionTheorems

Clean == [at |-> "clean"]
Steps == {Idle, Clean} \cup Creating

\* What the program counters say of an operation.
LEMMA StepAt ==
  /\ Idle.at = "idle" /\ Clean.at = "clean"
  /\ \A x \in Creating : x.at \in {"insert", "commit"} /\ x.others \in BOOLEAN
  /\ \A x \in Steps : x.at \in {"insert", "commit"} => x \in Creating
BY DEF Idle, Clean, Creating, Steps

\* A type-correct state with other rows, requests or job is type-correct.
LEMMA Retyped ==
  ASSUME TypeOK, UNCHANGED <<now, crew>>, topics' \in Seq(Row), Len(topics') <= crew.topics,
         op' \in [Staff -> Steps], excused' \in BOOLEAN,
         job'.at = "update" => job'.moment \in 0..now
  PROVE  TypeOK'
<1>1. Row' = Row /\ Creating' = Creating
      BY DEF Row, Windows, Creating
<1>2. crew' \in Crews /\ now' \in 0..crew'.until
      BY DEF TypeOK
<1>3. topics' \in Seq(Row') /\ Len(topics') <= crew'.topics
      BY <1>1
<1>4. op' \in [Staff -> {Idle, [at |-> "clean"]} \cup Creating']
      BY <1>1 DEF Steps, Clean
<1>5. job'.at = "update" => job'.moment \in 0..now'
  <2>1. now' = now
        OBVIOUS
  <2> QED
        BY <2>1
<1> QED
      BY <1>2, <1>3, <1>4, <1>5 DEF TypeOK

\* One row is rewritten.
LEMMA WriteTypes ==
  ASSUME TypeOK, NEW p \in Staff, NEW t \in DOMAIN topics, NEW row \in Row, Write(p, t, row)
  PROVE  TypeOK'
<1>1. /\ topics' = [topics EXCEPT ![t] = row] /\ op' = [op EXCEPT ![p] = Clean]
      /\ excused' = (excused \/ (row.active /\ ~topics[t].active)) /\ UNCHANGED <<now, job, crew>>
      BY DEF Write, At, Clean
<1>2. topics' \in Seq(Row) /\ Len(topics') = Len(topics)
      BY <1>1 DEF TypeOK
<1>3. op' \in [Staff -> Steps]
      BY <1>1 DEF TypeOK, Steps, Clean
<1>4. excused' \in BOOLEAN
      BY <1>1
<1> QED
      BY <1>1, <1>2, <1>3, <1>4, Retyped DEF TypeOK

\* The operations of the staff keep the types.
LEMMA StaffTypes ==
  ASSUME TypeOK, NEW p \in Staff, StaffStep(p) PROVE TypeOK'
<1>0. op \in [Staff -> Steps] /\ topics \in Seq(Row) /\ Len(topics) <= crew.topics /\ excused \in BOOLEAN
      BY DEF TypeOK, Steps, Clean
<1>1. CASE CreateCounts(p)
  <2>1. PICK w \in Windows : op' = [op EXCEPT ![p] = [at |-> "insert", win |-> w, others |-> FALSE]]
        BY <1>1 DEF CreateCounts, Begin, At
  <2>2. [at |-> "insert", win |-> w, others |-> FALSE] \in Steps
        BY DEF Steps, Creating
  <2>3. op' \in [Staff -> Steps]
        BY <1>0, <2>1, <2>2
  <2> QED
        BY <1>0, <1>1, <2>3, Retyped DEF CreateCounts, Begin, TypeOK
<1>2. CASE CreateInserts(p)
  <2>1. op' = [op EXCEPT ![p] = [op[p] EXCEPT !.at = "commit"]] /\ op[p] \in Creating
        BY <1>0, <1>2, StepAt DEF CreateInserts, At
  <2>2. [op[p] EXCEPT !.at = "commit"] \in Steps
        BY <2>1 DEF Steps, Creating
  <2>3. op' \in [Staff -> Steps]
        BY <1>0, <2>1, <2>2
  <2> QED
        BY <1>0, <1>2, <2>3, Retyped DEF CreateInserts, TypeOK
<1>3. CASE CreateCommits(p)
  <2>1. /\ op[p] \in Creating /\ op' = Missed([op EXCEPT ![p] = Idle]) /\ Len(topics) < crew.topics
        /\ topics' = Append(topics, [active |-> TRUE, win |-> op[p].win])
        /\ excused' = (excused \/ op[p].others) /\ UNCHANGED <<now, job, crew>>
        BY <1>0, <1>3, StepAt DEF CreateCommits
  <2>2. [active |-> TRUE, win |-> op[p].win] \in Row
        BY <2>1 DEF Row, Creating
  <2>3. topics' \in Seq(Row) /\ Len(topics') = Len(topics) + 1
        BY <1>0, <2>1, <2>2
  <2>4. \A x \in Creating : [x EXCEPT !.others = TRUE] \in Steps
        BY DEF Steps, Creating
  <2>5. [op EXCEPT ![p] = Idle] \in [Staff -> Steps]
        BY <1>0 DEF Steps
  <2> DEFINE steps == [op EXCEPT ![p] = Idle]
  <2>6. op' \in [Staff -> Steps]
    <3>1. op' = Missed(steps) /\ steps \in [Staff -> Steps]
          BY <2>1, <2>5
    <3> HIDE DEF steps
    <3>2. ASSUME NEW q \in Staff
          PROVE  (IF steps[q].at \in {"insert", "commit"}
                  THEN [steps[q] EXCEPT !.others = TRUE] ELSE steps[q]) \in Steps
      <4> DEFINE x == steps[q]
      <4>1. x \in Steps
            BY <3>1
      <4> HIDE DEF x
      <4>2. (IF x.at \in {"insert", "commit"} THEN [x EXCEPT !.others = TRUE] ELSE x) \in Steps
            BY <2>4, <4>1, StepAt
      <4> QED
            BY <4>2 DEF x
    <3> HIDE DEF Steps
    <3>3. op' = [q \in Staff |-> IF steps[q].at \in {"insert", "commit"}
                                  THEN [steps[q] EXCEPT !.others = TRUE] ELSE steps[q]]
          BY <3>1 DEF Missed
    <3> QED
          BY <3>2, <3>3
  <2>7. excused' \in BOOLEAN
        BY <2>1
  <2>8. crew.topics \in Nat
        BY TopicAssumption DEF TypeOK
  <2>9. Len(topics') <= crew.topics /\ (job'.at = "update" => job'.moment \in 0..now')
    <3>1. Len(topics) \in Nat
          BY <1>0
    <3> QED
          BY <3>1, <2>1, <2>3, <2>8 DEF TypeOK
  <2>10. UNCHANGED <<now, crew>>
        BY <2>1
  <2> HIDE DEF steps
  <2> QED
        BY <2>3, <2>6, <2>7, <2>9, <2>10, Retyped
<1>4. CASE CreateFails(p) \/ InvalidateCache(p)
  <2>1. op' = [op EXCEPT ![p] = Idle] /\ UNCHANGED <<now, topics, job, crew, excused>>
        BY <1>4 DEF CreateFails, InvalidateCache, Return, At
  <2>2. op' \in [Staff -> Steps]
        BY <1>0, <2>1 DEF Steps
  <2> QED
        BY <1>0, <2>1, <2>2, Retyped DEF TypeOK
<1>5. CASE UpdateByID(p)
  <2>1. PICK t \in DOMAIN topics, w \in Windows, a \in BOOLEAN : Write(p, t, [active |-> a, win |-> w])
        BY <1>5 DEF UpdateByID
  <2>2. [active |-> a, win |-> w] \in Row
        BY DEF Row
  <2> QED
        BY <2>1, <2>2, WriteTypes
<1>6. CASE SetTopicStatus(p)
  <2>1. PICK t \in DOMAIN topics, a \in BOOLEAN : Write(p, t, [topics[t] EXCEPT !.active = a])
        BY <1>6 DEF SetTopicStatus
  <2>2. topics[t] \in Row
        BY <1>0
  <2>3. [topics[t] EXCEPT !.active = a] \in Row
        BY <2>2 DEF Row
  <2> QED
        BY <2>1, <2>3, WriteTypes
<1> QED
      BY <1>1, <1>2, <1>3, <1>4, <1>5, <1>6 DEF StaffStep

\* The job that closes topics keeps the types.
LEMMA JobTypes ==
  ASSUME TypeOK, JobStep PROVE TypeOK'
<1>0. /\ op \in [Staff -> Steps] /\ topics \in Seq(Row) /\ Len(topics) <= crew.topics /\ excused \in BOOLEAN
      /\ now \in Nat
      BY TopicAssumption DEF TypeOK, Steps, Clean
<1>1. CASE JobSelects
  <2>1. job'.moment = now /\ UNCHANGED <<now, topics, op, crew, excused>>
        BY <1>1 DEF JobSelects
  <2> QED
        BY <1>0, <2>1, Retyped DEF TypeOK
<1>2. CASE JobUpdates
  <2> DEFINE S == {t \in DOMAIN topics : Expired(topics[t], job.moment)}
  <2>1. /\ topics' = Deactivate(topics, S) /\ UNCHANGED <<now, op, crew, excused>>
        /\ job' = (IF job.found = {} THEN Idle ELSE Clean)
        BY <1>2 DEF JobUpdates, Clean
  <2>2. ASSUME NEW t \in 1..Len(topics) PROVE topics[t] \in Row /\ [topics[t] EXCEPT !.active = FALSE] \in Row
    <3>1. topics[t] \in Row
          BY <1>0
    <3> QED
          BY <3>1 DEF Row
  <2> HIDE DEF S
  <2>3. /\ DOMAIN topics = 1..Len(topics) /\ Len(topics) \in Nat
        /\ \A t \in 1..Len(topics) : topics[t] \in Row /\ [topics[t] EXCEPT !.active = FALSE] \in Row
        BY <1>0, <2>2
  <2> HIDE DEF Row
  <2>5. topics' = [t \in 1..Len(topics) |->
                     IF t \in S THEN [topics[t] EXCEPT !.active = FALSE] ELSE topics[t]]
        BY <2>1, <2>3 DEF Deactivate
  <2>6. topics' \in [1..Len(topics) -> Row]
        BY <2>3, <2>5
  <2>7. topics' \in Seq(Row) /\ Len(topics') = Len(topics)
        BY <2>3, <2>6
  <2>4. job'.at # "update"
        BY <2>1 DEF Idle, Clean
  <2> QED
        BY <1>0, <2>1, <2>7, <2>4, Retyped DEF TypeOK
<1>3. CASE JobFails \/ JobCleans
      BY <1>0, <1>3, StepAt, Retyped DEF JobFails, JobCleans, TypeOK
<1> QED
      BY <1>1, <1>2, <1>3 DEF JobStep

\* The initial state is well typed.
LEMMA TypesInit == Init => TypeOK
<1> SUFFICES ASSUME Init PROVE TypeOK
    OBVIOUS
<1>0. crew \in Crews /\ now = 0 /\ excused = FALSE
      BY DEF Init
<1>5. crew.until \in Nat
      BY <1>0, TopicAssumption
<1>8. now \in 0..crew.until
      BY <1>0, <1>5
<1>1. crew \in Crews /\ now \in 0..crew.until /\ excused \in BOOLEAN
      BY <1>0, <1>8
<1>6. MaxTopics \in Nat /\ crew.topics \in 0..MaxTopics
      BY <1>1, TopicAssumption
<1>7. topics = <<>>
      BY DEF Init
<1>2. topics \in Seq(Row) /\ Len(topics) <= crew.topics
  <2>1. <<>> \in Seq(Row) /\ Len(<<>>) = 0
        OBVIOUS
  <2>2. 0 <= crew.topics
        BY <1>6
  <2> QED
        BY <1>7, <2>1, <2>2
<1>3. op \in [Staff -> {Idle, Clean} \cup Creating]
      BY DEF Init
<1>4. job.at # "update"
      BY DEF Init, Idle
<1> QED
      BY <1>1, <1>2, <1>3, <1>4 DEF TypeOK, Clean

\* Every step keeps the types.
LEMMA TypesStep == ASSUME TypeOK, [NavNext]_navvars PROVE TypeOK'
<1>1. CASE Next
  <2>1. ASSUME NEW p \in Staff, StaffStep(p) PROVE TypeOK'
        BY <2>1, StaffTypes
  <2>2. ASSUME NEW query, NEW key, Reads(query, key) PROVE TypeOK'
        BY <2>2 DEF Reads, TypeOK, Row, Windows, Creating
  <2>3. CASE Tick
    <3>1. crew.until \in Nat /\ now \in 0..crew.until /\ now < crew.until /\ now' = now + 1
          BY <2>3, TopicAssumption DEF Tick, TypeOK
    <3>2. UNCHANGED <<topics, op, job, crew, excused>> /\ now' \in 0..crew.until
          BY <2>3, <3>1 DEF Tick
    <3>3. Row' = Row /\ Creating' = Creating
          BY <3>2 DEF Row, Windows, Creating
    <3>4. job.at = "update" => job.moment \in 0..now
          BY DEF TypeOK
    <3>5. now \in Int /\ (job'.at = "update" => job'.moment \in 0..now')
          BY <3>1, <3>2, <3>4
    <3> QED
          BY <3>2, <3>3, <3>5 DEF TypeOK
  <2> QED
        BY <1>1, <2>1, <2>2, <2>3, JobTypes DEF Next
<1>2. CASE UNCHANGED vars
      BY <1>2 DEF vars, TypeOK, Row, Windows, Creating
<1> QED
      BY <1>1, <1>2 DEF NavNext, SubNext, SubmissionStep, SubmitChecks, SubmitCommits, SubmitFails,
         Judge, JudgeCommits, JudgeFails, GetBySubmissionID, PageStep, Open, NavigateCounts,
         NavigateScans, navvars

\* Types hold in every reachable state.
LEMMA Typing == NavSpec => []TypeOK
<1>1. NavInit => TypeOK
      BY TypesInit DEF NavInit, SubInit
<1> QED
      BY <1>1, TypesStep, PTL DEF NavSpec

-----------------------------------------------------------------------------
(* What the job closes.                                                    *)
LEMMA JobCloses ==
  ASSUME TypeOK, Next
  PROVE  \A t \in DOMAIN topics :
           job.at = "update" /\ topics[t].active /\ ~topics'[t].active /\ op' = op =>
             topics[t].win.close < now
<1> SUFFICES ASSUME NEW t \in DOMAIN topics, job.at = "update", topics[t].active,
                    ~topics'[t].active, op' = op
             PROVE  topics[t].win.close < now
    OBVIOUS
<1>0. /\ op \in [Staff -> Steps] /\ topics \in Seq(Row) /\ job.moment \in 0..now
      /\ topics[t].win.close \in Nat /\ now \in Nat
  <2>1. op \in [Staff -> Steps] /\ topics \in Seq(Row) /\ job.moment \in 0..now
        BY DEF TypeOK, Steps, Clean
  <2>2. crew.until \in Nat /\ now \in 0..crew.until
        BY TopicAssumption DEF TypeOK
  <2>3. topics[t] \in Row
        BY <2>1
  <2> QED
        BY <2>1, <2>2, <2>3 DEF Row, Windows
<1>1. ASSUME UNCHANGED topics PROVE FALSE
      BY <1>1
<1>2. CASE \E p \in Staff \cap crew.staff : StaffStep(p)
  <2>1. PICK p \in Staff : StaffStep(p)
        BY <1>2
  <2>2. ASSUME NEW u, NEW row, Write(p, u, row) PROVE FALSE
        BY <1>0, <2>2 DEF Write, At, Idle
  <2>3. ASSUME CreateCommits(p) PROVE FALSE
    <3>1. topics' = Append(topics, [active |-> TRUE, win |-> op[p].win])
          BY <2>3 DEF CreateCommits
    <3>2. topics'[t] = topics[t]
          BY <1>0, <3>1
    <3> QED
          BY <3>2
  <2> QED
        BY <1>1, <2>1, <2>2, <2>3
           DEF StaffStep, CreateCounts, Begin, CreateInserts, CreateFails, UpdateByID,
               SetTopicStatus, InvalidateCache
<1>3. CASE JobUpdates
  <2>1. topics' = Deactivate(topics, {u \in DOMAIN topics : Expired(topics[u], job.moment)})
        BY <1>3 DEF JobUpdates
  <2>2. Expired(topics[t], job.moment)
        BY <2>1 DEF Deactivate
  <2> QED
        BY <1>0, <2>2 DEF Expired
<1> QED
      BY <1>1, <1>2, <1>3 DEF Next, JobStep, JobSelects, JobFails, JobCleans, Reads, Tick

\* The nightly job closes no topic whose window has not ended.
THEOREM JobIsSparing == NavSpec => JobSparesOpen
<1>1. TypeOK /\ [NavNext]_navvars =>
        [\A t \in DOMAIN topics :
           job.at = "update" /\ topics[t].active /\ ~topics'[t].active /\ op' = op =>
             topics[t].win.close < now]_vars
  <2>1. [NavNext]_navvars => Next \/ UNCHANGED vars
        BY DEF NavNext, SubNext, SubmissionStep, SubmitChecks, SubmitCommits, SubmitFails, Judge,
               JudgeCommits, JudgeFails, GetBySubmissionID, PageStep, Open, NavigateCounts,
               NavigateScans, navvars
  <2> QED
        BY <2>1, JobCloses
<1> QED
      BY <1>1, Typing, PTL DEF NavSpec, JobSparesOpen

-----------------------------------------------------------------------------
(* The limit.                                                              *)
Unaware(p) == op[p].at \in {"insert", "commit"} /\ op[p].others = FALSE
\* A creation that has counted and missed no other still has room for its topic.
LimitInv ==
  excused = FALSE =>
    /\ Cardinality(Active(topics)) <= MaxActive
    /\ \A p \in Staff : Unaware(p) => Cardinality(Active(topics)) < MaxActive

\* The open topics can be counted.
LEMMA ActiveFinite ==
  ASSUME NEW rows \in Seq(Row)
  PROVE  IsFiniteSet(Active(rows)) /\ Cardinality(Active(rows)) \in Nat
<1>1. IsFiniteSet(1..Len(rows))
      BY FS_Interval
<1>2. Active(rows) \subseteq 1..Len(rows)
      BY DEF Active
<1> QED
      BY <1>1, <1>2, FS_Subset, FS_CardinalityType

\* A step that activates nothing and starts no creation.
LEMMA LimitShrinks ==
  ASSUME TypeOK, TypeOK', LimitInv, excused' = FALSE => excused = FALSE,
         excused' = FALSE => Active(topics') \subseteq Active(topics),
         \A p \in Staff : Unaware(p)' => Unaware(p)
  PROVE  LimitInv'
<1>1. topics \in Seq(Row) /\ topics' \in Seq(Row')
      BY DEF TypeOK
<1>2. IsFiniteSet(Active(topics)) /\ Cardinality(Active(topics)) \in Nat
      BY <1>1, ActiveFinite
<1>3. ASSUME excused' = FALSE
      PROVE  /\ Cardinality(Active(topics')) \in Nat
             /\ Cardinality(Active(topics')) <= Cardinality(Active(topics))
      BY <1>2, <1>3, FS_Subset, FS_CardinalityType
<1>4. MaxActive \in Nat
      BY TopicAssumption
<1>5. ASSUME excused' = FALSE
      PROVE  /\ Cardinality(Active(topics')) <= MaxActive
             /\ \A p \in Staff : Unaware(p)' => Cardinality(Active(topics')) < MaxActive
  <2>1. /\ Cardinality(Active(topics)) <= MaxActive
        /\ \A p \in Staff : Unaware(p) => Cardinality(Active(topics)) < MaxActive
        BY <1>5 DEF LimitInv
  <2> DEFINE c == Cardinality(Active(topics))
             d == Cardinality(Active(topics'))
  <2>2. c \in Nat /\ d \in Nat /\ d <= c
        BY <1>2, <1>3, <1>5
  <2>3. c <= MaxActive /\ \A p \in Staff : Unaware(p)' => c < MaxActive
        BY <2>1
  <2> HIDE DEF c, d
  <2>4. d <= MaxActive /\ \A p \in Staff : Unaware(p)' => d < MaxActive
        BY <2>2, <2>3, <1>4
  <2> QED
        BY <2>4 DEF d
<1> QED
      BY <1>5 DEF LimitInv

\* A create that commits.
LEMMA LimitCommits ==
  ASSUME TypeOK, TypeOK', LimitInv, NEW p \in Staff, CreateCommits(p)
  PROVE  LimitInv'
<1>0. op \in [Staff -> Steps] /\ topics \in Seq(Row) /\ MaxActive \in Nat
      BY TopicAssumption DEF TypeOK, Steps, Clean
<1>1. /\ op[p] \in Creating /\ op' = Missed([op EXCEPT ![p] = Idle])
      /\ topics' = Append(topics, [active |-> TRUE, win |-> op[p].win])
      /\ excused' = (excused \/ op[p].others)
      BY <1>0, StepAt DEF CreateCommits
<1>2. ASSUME NEW q \in Staff PROVE ~Unaware(q)'
  <2> DEFINE x == [op EXCEPT ![p] = Idle][q]
  <2>1. op'[q] = IF x.at \in {"insert", "commit"} THEN [x EXCEPT !.others = TRUE] ELSE x
        BY <1>1 DEF Missed
  <2>2. x \in Steps
        BY <1>0 DEF Steps
  <2> HIDE DEF x
  <2>3. x.at \in {"insert", "commit"} => [x EXCEPT !.others = TRUE].others = TRUE
        BY <2>2, StepAt DEF Creating
  <2> QED
        BY <2>1, <2>3 DEF Unaware
<1>3. ASSUME excused' = FALSE PROVE Cardinality(Active(topics')) <= MaxActive
  <2>1. op[p].others \in BOOLEAN /\ excused \in BOOLEAN
        BY <1>1, StepAt DEF TypeOK
  <2>2. op[p].others = FALSE /\ excused = FALSE
        BY <1>1, <1>3, <2>1
  <2>3. Cardinality(Active(topics)) < MaxActive
        BY <1>1, <2>2, StepAt DEF LimitInv, Unaware
  <2>4. Active(topics') \subseteq Active(topics) \cup {Len(topics) + 1}
        BY <1>0, <1>1 DEF Active
  <2>5. IsFiniteSet(Active(topics)) /\ Cardinality(Active(topics)) \in Nat
        BY <1>0, ActiveFinite
  <2> DEFINE n == Len(topics) + 1
             more == Active(topics) \cup {n}
  <2>6. /\ IsFiniteSet(more) /\ Cardinality(more) \in Nat
        /\ Cardinality(more) <= Cardinality(Active(topics)) + 1
    <3>1. n \notin Active(topics)
          BY <1>0 DEF Active
    <3> HIDE DEF n
    <3>2. IsFiniteSet(more) /\ Cardinality(more) = Cardinality(Active(topics)) + 1
          BY <2>5, <3>1, FS_AddElement
    <3> QED
          BY <2>5, <3>2
  <2>7. Cardinality(Active(topics')) \in Nat /\ Cardinality(Active(topics')) <= Cardinality(more)
        BY <2>4, <2>6, FS_Subset, FS_CardinalityType
  <2> QED
        BY <1>0, <2>3, <2>5, <2>6, <2>7
<1> QED
      BY <1>2, <1>3 DEF LimitInv

\* An operation that rewrites one row.
LEMMA LimitWrites ==
  ASSUME TypeOK, TypeOK', LimitInv, NEW p \in Staff, NEW t \in DOMAIN topics, NEW row,
         Write(p, t, row)
  PROVE  LimitInv'
<1>0. op \in [Staff -> Steps] /\ topics \in Seq(Row)
      BY DEF TypeOK, Steps, Clean
<1>1. /\ topics' = [topics EXCEPT ![t] = row] /\ op' = [op EXCEPT ![p] = Clean]
      /\ excused' = (excused \/ (row.active /\ ~topics[t].active))
      BY DEF Write, At, Clean
<1>2. excused' = FALSE => excused = FALSE /\ (row.active => topics[t].active)
  <2>1. excused \in BOOLEAN
        BY DEF TypeOK
  <2> QED
        BY <1>1, <2>1
<1>3. excused' = FALSE => Active(topics') \subseteq Active(topics)
      BY <1>0, <1>1, <1>2 DEF Active
<1>4. \A q \in Staff : Unaware(q)' => Unaware(q)
      BY <1>0, <1>1, StepAt DEF Unaware
<1> QED
      BY <1>2, <1>3, <1>4, LimitShrinks

\* Every step keeps the limit, or its excuse.
LEMMA LimitStep == ASSUME TypeOK, TypeOK', LimitInv, [NavNext]_navvars PROVE LimitInv'
<1>0. op \in [Staff -> Steps] /\ topics \in Seq(Row)
      BY DEF TypeOK, Steps, Clean
<1>1. ASSUME UNCHANGED <<topics, op, excused>> PROVE LimitInv'
      BY <1>1, LimitShrinks DEF Unaware
<1>2. ASSUME NEW p \in Staff, CreateCounts(p) PROVE LimitInv'
  <2>1. UNCHANGED <<topics, excused>> /\ Cardinality(Active(topics)) < MaxActive
        BY <1>2 DEF CreateCounts, Begin
  <2>2. Cardinality(Active(topics)) \in Nat /\ MaxActive \in Nat
        BY <1>0, ActiveFinite, TopicAssumption
  <2> QED
        BY <2>1, <2>2 DEF LimitInv
<1>3. ASSUME NEW p \in Staff, CreateInserts(p) PROVE LimitInv'
  <2>1. /\ op' = [op EXCEPT ![p] = [op[p] EXCEPT !.at = "commit"]] /\ op[p] \in Creating
        /\ op[p].at = "insert" /\ UNCHANGED <<topics, excused>>
        BY <1>0, <1>3, StepAt DEF CreateInserts, At
  <2>2. [op[p] EXCEPT !.at = "commit"].others = op[p].others
        BY <2>1 DEF Creating
  <2>3. \A q \in Staff : Unaware(q)' => Unaware(q)
        BY <1>0, <2>1, <2>2 DEF Unaware
  <2> QED
        BY <2>1, <2>3, LimitShrinks
<1>4. ASSUME NEW p \in Staff, CreateFails(p) \/ InvalidateCache(p) PROVE LimitInv'
  <2>1. op' = [op EXCEPT ![p] = Idle] /\ UNCHANGED <<topics, excused>>
        BY <1>4 DEF CreateFails, InvalidateCache, Return, At
  <2>2. \A q \in Staff : Unaware(q)' => Unaware(q)
        BY <1>0, <2>1, StepAt DEF Unaware
  <2> QED
        BY <2>1, <2>2, LimitShrinks
<1>5. ASSUME NEW p \in Staff, StaffStep(p) PROVE LimitInv'
      BY <1>2, <1>3, <1>4, <1>5, LimitCommits, LimitWrites
         DEF StaffStep, UpdateByID, SetTopicStatus
<1>6. ASSUME JobUpdates PROVE LimitInv'
  <2> DEFINE S == {u \in DOMAIN topics : Expired(topics[u], job.moment)}
  <2>1. topics' = Deactivate(topics, S) /\ UNCHANGED <<op, excused>>
        BY <1>6 DEF JobUpdates
  <2> HIDE DEF S
  <2>2. Active(topics') \subseteq Active(topics)
        BY <2>1 DEF Deactivate, Active
  <2> QED
        BY <2>1, <2>2, LimitShrinks DEF Unaware
<1> QED
      BY <1>1, <1>5, <1>6
         DEF NavNext, SubNext, SubmissionStep, SubmitChecks, SubmitCommits, SubmitFails, Judge,
             JudgeCommits, JudgeFails, GetBySubmissionID, PageStep, Open, NavigateCounts,
             NavigateScans, navvars, Next, JobStep, JobSelects, JobFails, JobCleans, Reads, Tick,
             vars

\* More topics than the limit are active only after creations overlapped, or an edit
\* activated one.
THEOREM LimitHolds == NavSpec => []LimitUnlessRaced
<1>1. NavInit => LimitInv
  <2> SUFFICES ASSUME NavInit PROVE LimitInv
      OBVIOUS
  <2>1. topics = <<>> /\ op = [p \in Staff |-> Idle]
        BY DEF NavInit, SubInit, Init
  <2>2. Active(topics) = {} /\ \A p \in Staff : ~Unaware(p)
        BY <2>1, StepAt DEF Active, Unaware
  <2> QED
        BY <2>2, FS_EmptySet, TopicAssumption DEF LimitInv
<1>2. LimitInv /\ TypeOK => LimitUnlessRaced
      BY DEF LimitInv, LimitUnlessRaced, TypeOK
<1> QED
      BY <1>1, <1>2, LimitStep, Typing, PTL DEF NavSpec

-----------------------------------------------------------------------------
(* What a submission's page shows.                                         *)
Shaped(e) == e = None \/ "raced" \in DOMAIN e
Overtaken(e) == e = None \/ e.raced = TRUE
Sound(e, answer) == Overtaken(e) \/ e.data = answer

PageType ==
  /\ DOMAIN subs = Submissions /\ DOMAIN verdict = Submissions
  /\ DOMAIN page = Submissions /\ DOMAIN pageFill = Submissions
  /\ \A s \in Submissions : Shaped(page[s]) /\ Shaped(pageFill[s])
\* While a verdict is on its way, no answer about its submission can be relied on.
PageAt(s) ==
  /\ Sound(page[s], Shown(s)) /\ Sound(pageFill[s], Shown(s))
  /\ verdict[s] # Undecided => Overtaken(page[s]) /\ Overtaken(pageFill[s])
PageInv == PageType /\ \A s \in Submissions : PageAt(s)

\* The cache of the pages uses the common entries.
LEMMA PageNames == Page!None = None /\ \A e : Page!Raced(e) = Raced(e)
BY DEF Page!None, None, Page!Raced, Raced

\* An overtaken entry claims nothing.
LEMMA RacedIs ==
  ASSUME NEW e, Shaped(e) PROVE Shaped(Raced(e)) /\ Overtaken(Raced(e))
BY DEF Shaped, Raced, Overtaken

\* A step about s leaves the other submissions and their pages alone.
LEMMA Elsewhere ==
  ASSUME PageInv, NEW s \in Submissions, PageType', PageAt(s)',
         \A u \in Submissions \ {s} :
           /\ page'[u] = page[u] /\ pageFill'[u] = pageFill[u]
           /\ subs'[u] = subs[u] /\ verdict'[u] = verdict[u]
  PROVE  PageInv'
<1>1. ASSUME NEW u \in Submissions \ {s} PROVE PageAt(u)'
      BY DEF PageInv, PageAt, Shown
<1> QED
      BY <1>1 DEF PageInv

\* Steps that leave the pages alone.
LEMMA PageUnchanged == ASSUME PageInv, UNCHANGED <<subs, verdict, page, pageFill>> PROVE PageInv'
<1>1. PageType'
      BY DEF PageInv, PageType
<1>2. \A s \in Submissions : PageAt(s)'
      BY DEF PageInv, PageAt, Shown
<1> QED
      BY <1>1, <1>2 DEF PageInv

\* A new submission overtakes the fill of its page.
LEMMA SubmitsPage ==
  ASSUME PageInv, NEW s \in Submissions, SubmitCommits(s) PROVE PageInv'
<1> DEFINE row == [topic |-> author[s].topic, moment |-> author[s].moment, status |-> Pending]
<1>1. /\ subs' = [subs EXCEPT ![s] = row] /\ subs[s] = None
      /\ pageFill' = [pageFill EXCEPT ![s] = Raced(pageFill[s])] /\ UNCHANGED <<page, verdict>>
      BY PageNames DEF SubmitCommits, Page!Overtake
<1>2. row.status # Approved
      BY DEF Pending, Approved
<1> HIDE DEF row
<1>3. Shown(s) = FALSE /\ Shown(s)' = FALSE
      BY <1>1, <1>2 DEF PageInv, PageType, Shown
<1>4. Shaped(pageFill[s]) /\ PageAt(s) /\ PageType
      BY DEF PageInv, PageType
<1>5. PageType'
      BY <1>1, <1>4, RacedIs DEF PageType
<1>6. pageFill'[s] = Raced(pageFill[s])
      BY <1>1, <1>4 DEF PageType
<1>7. PageAt(s)'
      BY <1>1, <1>3, <1>4, <1>6, RacedIs DEF PageAt, Sound
<1> QED
      BY <1>1, <1>4, <1>5, <1>7, Elsewhere DEF PageType

\* A verdict deletes the page, or is overtaken by a fill.
LEMMA JudgesPage ==
  ASSUME PageInv, NEW s \in Submissions, Judge(s) PROVE PageInv'
<1>1. /\ pageFill' = [pageFill EXCEPT ![s] = Raced(pageFill[s])] /\ UNCHANGED subs
      /\ \/ page' = [page EXCEPT ![s] = None]
         \/ page' = [page EXCEPT ![s] = Raced(page[s])]
      BY PageNames DEF Judge, Page!Overtake, Page!Invalidate
<1>2. PICK v \in {Hidden, Approved} : verdict' = [verdict EXCEPT ![s] = v]
      BY DEF Judge
<1>4. Shaped(page[s]) /\ Shaped(pageFill[s]) /\ PageType
      BY DEF PageInv, PageType
<1>3. Overtaken(None) /\ Shaped(None)
      BY DEF Overtaken, Shaped
<1>5. PageType'
      BY <1>1, <1>2, <1>3, <1>4, RacedIs DEF PageType
<1>6. Overtaken(page'[s]) /\ Overtaken(pageFill'[s])
      BY <1>1, <1>3, <1>4, RacedIs DEF PageType
<1>7. PageAt(s)'
      BY <1>6 DEF PageAt, Sound
<1> QED
      BY <1>1, <1>2, <1>4, <1>5, <1>7, Elsewhere DEF PageType

\* The transaction of a verdict ends.
LEMMA VerdictEnds ==
  ASSUME PageInv, NEW s \in Submissions, JudgeCommits(s) \/ JudgeFails(s) PROVE PageInv'
<1>1. /\ pageFill' = [pageFill EXCEPT ![s] = Raced(pageFill[s])] \/ UNCHANGED pageFill
      /\ UNCHANGED page
      /\ verdict' = [verdict EXCEPT ![s] = Undecided]
      /\ verdict[s] # Undecided
      BY PageNames DEF JudgeCommits, JudgeFails, Page!Overtake
<1>2. DOMAIN subs' = Submissions /\ \A u \in Submissions \ {s} : subs'[u] = subs[u]
      BY DEF JudgeCommits, JudgeFails, PageInv, PageType
<1>4. Shaped(page[s]) /\ Shaped(pageFill[s]) /\ PageType
      BY DEF PageInv, PageType
<1>5. PageType'
      BY <1>1, <1>2, <1>4, RacedIs DEF PageType
<1>6. Overtaken(page'[s]) /\ Overtaken(pageFill'[s])
      BY <1>1, <1>4, RacedIs DEF PageType, PageInv, PageAt
<1>7. PageAt(s)'
      BY <1>6 DEF PageAt, Sound
<1> QED
      BY <1>1, <1>2, <1>4, <1>5, <1>7, Elsewhere DEF PageType

\* A page is read, from the cache or through the database.
LEMMA PageFills ==
  ASSUME PageInv, NEW s \in Submissions, GetBySubmissionID(s) \/ PageStep(s) PROVE PageInv'
<1>0. UNCHANGED <<subs, verdict>>
      BY DEF GetBySubmissionID, PageStep
<1>4. Shaped(page[s]) /\ Shaped(pageFill[s]) /\ PageType /\ PageAt(s)
      BY DEF PageInv, PageType
<1>3. Overtaken(None) /\ Shaped(None)
      BY DEF Overtaken, Shaped
<1>1. CASE GetBySubmissionID(s)
  <2> DEFINE e == Page!Entry(Shown(s), verdict[s] # Undecided)
  <2>1. pageFill' = [pageFill EXCEPT ![s] = e] /\ UNCHANGED page
        BY <1>1 DEF GetBySubmissionID, Page!Miss
  <2>2. Shaped(e) /\ Sound(e, Shown(s)) /\ (verdict[s] # Undecided => Overtaken(e))
        BY DEF Shaped, Sound, Overtaken, Page!Entry
  <2> HIDE DEF e
  <2>3. PageType'
        BY <1>0, <1>4, <2>1, <2>2 DEF PageType
  <2>4. pageFill'[s] = e /\ Shown(s)' = Shown(s)
        BY <1>0, <1>4, <2>1 DEF PageType, Shown
  <2>5. PageAt(s)'
        BY <1>0, <1>4, <2>1, <2>2, <2>4 DEF PageAt, Sound
  <2> QED
        BY <1>0, <1>4, <2>1, <2>3, <2>5, Elsewhere DEF PageType
<1>2. CASE PageStep(s)
  <2>1. /\ DOMAIN page' = Submissions /\ DOMAIN pageFill' = Submissions
        /\ page'[s] \in {page[s], pageFill[s], None} /\ pageFill'[s] \in {pageFill[s], None}
        /\ \A u \in Submissions \ {s} : page'[u] = page[u] /\ pageFill'[u] = pageFill[u]
        BY <1>2, <1>4, PageNames
           DEF PageStep, Page!CacheStep, Page!Store, Page!StoreFails, Page!Expire, PageType
  <2>2. PageType'
    <3>1. Shaped(page'[s]) /\ Shaped(pageFill'[s])
          BY <1>3, <1>4, <2>1
    <3> QED
          BY <1>0, <1>4, <2>1, <3>1 DEF PageType
  <2>4. PageAt(s)'
    <3>1. Sound(page'[s], Shown(s)) /\ Sound(pageFill'[s], Shown(s))
          BY <1>3, <1>4, <2>1 DEF PageAt, Sound
    <3>2. verdict[s] # Undecided => Overtaken(page'[s]) /\ Overtaken(pageFill'[s])
          BY <1>3, <1>4, <2>1 DEF PageAt
    <3>3. Shown(s)' = Shown(s)
          BY <1>0 DEF Shown
    <3> QED
          BY <1>0, <3>1, <3>2, <3>3 DEF PageAt, Sound
  <2> QED
        BY <1>0, <1>4, <2>1, <2>2, <2>4, Elsewhere DEF PageType
<1> QED
      BY <1>1, <1>2

\* Every step keeps the pages.
LEMMA PageInvStep == ASSUME PageInv, [NavNext]_navvars PROVE PageInv'
<1>1. ASSUME UNCHANGED <<subs, verdict, page, pageFill>> PROVE PageInv'
      BY <1>1, PageUnchanged
<1> QED
      BY <1>1, SubmitsPage, JudgesPage, VerdictEnds, PageFills
         DEF NavNext, SubNext, SubmissionStep, SubmitChecks, SubmitFails, Open, NavigateCounts,
             NavigateScans, navvars, subvars

\* A cached page shows the committed verdict, unless it was queried across the
\* verdict's transaction, or clearing it failed.
THEOREM PageShowsVerdict == NavSpec => []PageStaleOnlyByRace
<1>1. NavInit => PageInv
      BY DEF NavInit, SubInit, Page!CacheInit, PageInv, PageType, PageAt, Shaped, Sound, Overtaken,
             Page!None, None
<1>2. PageInv => PageStaleOnlyByRace
      BY DEF PageInv, PageAt, Sound, Overtaken, PageStaleOnlyByRace
<1> QED
      BY <1>1, <1>2, PageInvStep, PTL DEF NavSpec

-----------------------------------------------------------------------------
(* The cached number of open topics.                                       *)
OpenAt(t, moment) ==
  topics[t].active /\ topics[t].win.open <= moment /\ moment <= topics[t].win.close
Right(e) == Overtaken(e) \/ e.data.count = CountAt(e.data.moment)
\* What the job's UPDATE is about to close without clearing the cache, its SELECT
\* having found nothing, the answer e does not count.
Settled(e) ==
  \/ Overtaken(e)
  \/ job.at = "update" /\ job.found = {} =>
       \A t \in DOMAIN topics : Expired(topics[t], job.moment) => ~OpenAt(t, e.data.moment)
Keys2 == {"open", "list"}
CountType ==
  /\ DOMAIN cached = Keys2 /\ DOMAIN fill = Keys2
  /\ Shaped(cached["open"]) /\ Shaped(fill["open"])
CountInv ==
  /\ CountType
  /\ Right(fill["open"]) /\ Settled(fill["open"])
  /\ CreateInFlight => Overtaken(cached["open"]) /\ Overtaken(fill["open"])
  /\ Cleaning \/ (Right(cached["open"]) /\ Settled(cached["open"]))

\* A missing entry claims nothing.
LEMMA NoneIs == Shaped(None) /\ Overtaken(None)
BY DEF Shaped, Overtaken

\* A step that leaves both entries overtaken.
LEMMA BothOvertaken ==
  ASSUME CountType', Overtaken(cached["open"])', Overtaken(fill["open"])' PROVE CountInv'
BY DEF CountInv, Right, Settled

\* A writer's statement, after which it will clear the entry.
LEMMA CountWritten ==
  ASSUME CountInv, OvertakeAll({"open", "list"}), UNCHANGED cached, Cleaning',
         CreateInFlight' => CreateInFlight
  PROVE  CountInv'
<1>1. fill'["open"] = Raced(fill["open"]) /\ DOMAIN fill' = Keys2
      BY DEF OvertakeAll, Keys2
<1>2. CountType' /\ Overtaken(fill["open"])'
      BY <1>1, RacedIs DEF CountInv, CountType
<1> QED
      BY <1>2 DEF CountInv, Right, Settled

\* A clearing, done or failed.
LEMMA CountCleared ==
  ASSUME CountInv, Invalidate("open"), UNCHANGED <<topics, fill>>, job' = job \/ job'.at # "update",
         CreateInFlight' => CreateInFlight
  PROVE  CountInv'
<1>1. DOMAIN cached' = Keys2 /\ cached'["open"] \in {None, Raced(cached["open"])}
      BY DEF Invalidate, CountInv, CountType, Keys2
<1>2. CountType' /\ Overtaken(cached["open"])'
      BY <1>1, RacedIs, NoneIs DEF CountInv, CountType
<1>3. Right(fill["open"])' /\ Settled(fill["open"])'
      BY DEF CountInv, Right, Settled, CountAt, OpenAt, Overtaken, Expired
<1> QED
      BY <1>2, <1>3 DEF CountInv, Right, Settled

\* A step of no writer and no query.
LEMMA CountStays ==
  ASSUME CountInv, UNCHANGED <<topics, cached, fill>>, job' = job \/ job'.at # "update",
         CreateInFlight' => CreateInFlight, Cleaning => Cleaning'
  PROVE  CountInv'
<1>1. CountType'
      BY DEF CountInv, CountType
<1>2. ASSUME NEW e PROVE (Right(e) => Right(e)') /\ (Settled(e) => Settled(e)')
      BY DEF Right, Settled, CountAt, OpenAt, Overtaken, Expired
<1> QED
      BY <1>1, <1>2 DEF CountInv, Right, Settled

\* The operations of the staff and the counts.
LEMMA CountStaff ==
  ASSUME TypeOK, CountInv, NEW p \in Staff, StaffStep(p) PROVE CountInv'
<1>0. op \in [Staff -> Steps]
      BY DEF TypeOK, Steps, Clean
<1>1. CASE CreateCounts(p)
  <2>1. PICK step : op' = [op EXCEPT ![p] = step] /\ step.at = "insert"
    <3>1. PICK w \in Windows : op' = [op EXCEPT ![p] = [at |-> "insert", win |-> w, others |-> FALSE]]
          BY <1>1 DEF CreateCounts, Begin, At
    <3> DEFINE x == [at |-> "insert", win |-> w, others |-> FALSE]
    <3>2. x.at = "insert"
          OBVIOUS
    <3>3. op' = [op EXCEPT ![p] = x]
          BY <3>1
    <3> HIDE DEF x
    <3> QED
          BY <3>2, <3>3
  <2>2. op[p].at = "idle" /\ UNCHANGED <<topics, job, cached, fill>>
        BY <1>1 DEF CreateCounts, Begin, Idle
  <2>3. (CreateInFlight' => CreateInFlight) /\ (Cleaning => Cleaning')
        BY <1>0, <2>1, <2>2 DEF CreateInFlight, Cleaning
  <2> QED
        BY <2>2, <2>3, CountStays
<1>2. CASE CreateInserts(p)
  <2>1. /\ fill' = [fill EXCEPT !["open"] = Raced(fill["open"])]
        /\ \/ cached' = [cached EXCEPT !["open"] = None]
           \/ cached' = [cached EXCEPT !["open"] = Raced(cached["open"])]
        BY <1>2 DEF CreateInserts, Overtake, Invalidate
  <2>3. /\ cached'["open"] \in {None, Raced(cached["open"])} /\ fill'["open"] = Raced(fill["open"])
        /\ DOMAIN cached' = Keys2 /\ DOMAIN fill' = Keys2
        BY <2>1 DEF CountInv, CountType, Keys2
  <2>2. CountType' /\ Overtaken(cached["open"])' /\ Overtaken(fill["open"])'
        BY <2>3, RacedIs, NoneIs DEF CountInv, CountType
  <2> QED
        BY <2>2, BothOvertaken
<1>3. CASE CreateCommits(p)
  <2>1. OvertakeAll({"open", "list"}) /\ UNCHANGED cached /\ CreateInFlight
        BY <1>3 DEF CreateCommits, CreateInFlight
  <2>2. fill'["open"] = Raced(fill["open"]) /\ DOMAIN fill' = Keys2
        BY <2>1 DEF OvertakeAll, Keys2
  <2>3. CountType' /\ Overtaken(cached["open"])' /\ Overtaken(fill["open"])'
        BY <2>1, <2>2, RacedIs DEF CountInv, CountType
  <2> QED
        BY <2>3, BothOvertaken
<1>4. CASE CreateFails(p)
  <2>1. /\ op' = [op EXCEPT ![p] = Idle] /\ UNCHANGED <<topics, job, cached, fill>>
        /\ op[p].at \in {"insert", "commit"}
        BY <1>4 DEF CreateFails, Return, At
  <2>2. (CreateInFlight' => CreateInFlight) /\ (Cleaning => Cleaning')
        BY <1>0, <2>1, StepAt DEF CreateInFlight, Cleaning
  <2> QED
        BY <2>1, <2>2, CountStays
<1>5. ASSUME NEW t, NEW row, Write(p, t, row) PROVE CountInv'
  <2>1. /\ op' = [op EXCEPT ![p] = Clean] /\ OvertakeAll({"open", "list"}) /\ UNCHANGED cached
        BY <1>5 DEF Write, At, Clean
  <2>2. (CreateInFlight' => CreateInFlight) /\ Cleaning'
        BY <1>0, <2>1, StepAt DEF CreateInFlight, Cleaning
  <2> QED
        BY <2>1, <2>2, CountWritten
<1>6. CASE InvalidateCache(p)
  <2>1. /\ op' = [op EXCEPT ![p] = Idle] /\ UNCHANGED <<topics, job, fill>> /\ Invalidate("open")
        BY <1>6 DEF InvalidateCache, Return, At
  <2>2. CreateInFlight' => CreateInFlight
        BY <1>0, <2>1, StepAt DEF CreateInFlight
  <2> QED
        BY <2>1, <2>2, CountCleared
<1> QED
      BY <1>1, <1>2, <1>3, <1>4, <1>5, <1>6 DEF StaffStep, UpdateByID, SetTopicStatus

\* The job that closes topics and the counts.
LEMMA CountJob ==
  ASSUME TypeOK, CountInv, JobStep PROVE CountInv'
<1>1. CASE JobSelects
  <2>1. /\ UNCHANGED <<topics, op, cached, fill>> /\ job.at # "clean" /\ job'.at = "update"
        /\ job'.moment = now
        /\ job'.found = {t \in DOMAIN topics : Expired(topics[t], now)}
        BY <1>1 DEF JobSelects, Idle
  <2>2. Settled(fill["open"])' /\ Settled(cached["open"])'
        BY <2>1 DEF Settled, Expired
  <2>3. ASSUME NEW e PROVE Right(e) => Right(e)'
        BY <2>1 DEF Right, CountAt, Overtaken
  <2>4. (CreateInFlight' => CreateInFlight) /\ (Cleaning => Cleaning') /\ CountType'
        BY <2>1 DEF CreateInFlight, Cleaning, CountInv, CountType
  <2> QED
        BY <2>1, <2>2, <2>3, <2>4 DEF CountInv, Right, Overtaken
<1>2. CASE JobUpdates /\ job.found # {}
  <2>1. OvertakeAll({"open", "list"}) /\ UNCHANGED <<op, cached>> /\ job' = Clean
        BY <1>2 DEF JobUpdates, Clean
  <2>2. (CreateInFlight' => CreateInFlight) /\ Cleaning'
        BY <2>1, StepAt DEF CreateInFlight, Cleaning
  <2> QED
        BY <2>1, <2>2, CountWritten
<1>3. CASE JobUpdates /\ job.found = {}
  <2> DEFINE S == {t \in DOMAIN topics : Expired(topics[t], job.moment)}
             o == cached["open"]
  <2>1. /\ OvertakeAll({"open", "list"}) /\ UNCHANGED <<op, cached>> /\ job' = Idle
        /\ topics' = Deactivate(topics, S) /\ job.at = "update"
        BY <1>3 DEF JobUpdates
  <2>2. fill'["open"] = Raced(fill["open"]) /\ DOMAIN fill' = Keys2
        BY <2>1 DEF OvertakeAll, Keys2
  <2>3. CountType' /\ Overtaken(fill["open"])'
        BY <2>1, <2>2, RacedIs DEF CountInv, CountType
  <2>4. (CreateInFlight' => CreateInFlight) /\ (Cleaning => Cleaning')
        BY <2>1 DEF CreateInFlight, Cleaning
  <2>5. Settled(o)'
        BY <2>1, StepAt DEF Settled
  <2>6. ASSUME Right(o), Settled(o) PROVE Right(o)'
    <3>1. CASE Overtaken(o)
          BY <2>1, <3>1 DEF Right, Overtaken
    <3>2. CASE ~Overtaken(o)
      <4> DEFINE m == o.data.moment
      <4>1. \A t \in S : ~OpenAt(t, m)
            BY <1>3, <2>1, <2>6, <3>2 DEF Settled
      <4> HIDE DEF S, m
      <4>2. \A t \in DOMAIN topics : OpenAt(t, m)' <=> OpenAt(t, m)
        <5>1. UNCHANGED m
              BY <2>1 DEF m
        <5>2. ASSUME NEW t \in DOMAIN topics, t \notin S PROVE topics'[t] = topics[t]
              BY <2>1, <5>2 DEF Deactivate
        <5>3. ASSUME NEW t \in DOMAIN topics, t \in S PROVE ~topics'[t].active
          <6>1. topics \in Seq(Row)
                BY DEF TypeOK
          <6>2. topics[t] \in Row
                BY <6>1
          <6>3. [topics[t] EXCEPT !.active = FALSE].active = FALSE
                BY <6>2 DEF Row
          <6> QED
                BY <2>1, <5>3, <6>3 DEF Deactivate
        <5> QED
              BY <4>1, <5>1, <5>2, <5>3 DEF OpenAt
      <4>3. DOMAIN topics' = DOMAIN topics
            BY <2>1 DEF Deactivate
      <4>4. {t \in DOMAIN topics : OpenAt(t, m)}' = {t \in DOMAIN topics : OpenAt(t, m)}
            BY <4>2, <4>3
      <4>5. CountAt(m) = Cardinality({t \in DOMAIN topics : OpenAt(t, m)})
            BY DEF CountAt, OpenAt
      <4>6. CountAt(m)' = Cardinality({t \in DOMAIN topics : OpenAt(t, m)}')
            BY DEF CountAt, OpenAt
      <4>7. o.data.count = CountAt(m)
            BY <2>6, <3>2 DEF Right, m
      <4> QED
            BY <2>1, <4>4, <4>5, <4>6, <4>7 DEF Right, m
    <3> QED
          BY <3>1, <3>2
  <2> HIDE DEF S
  <2> QED
        BY <2>1, <2>3, <2>4, <2>5, <2>6 DEF CountInv, Right, Settled
<1>4. CASE JobFails
  <2>1. UNCHANGED <<topics, op, cached, fill>> /\ job' = Idle /\ job.at = "update"
        BY <1>4 DEF JobFails
  <2>2. (CreateInFlight' => CreateInFlight) /\ (Cleaning => Cleaning') /\ job'.at # "update"
        BY <2>1, StepAt DEF CreateInFlight, Cleaning
  <2> QED
        BY <2>1, <2>2, CountStays
<1>5. CASE JobCleans
  <2>1. UNCHANGED <<topics, op, fill>> /\ Invalidate("open") /\ job' = Idle
        BY <1>5 DEF JobCleans
  <2>2. (CreateInFlight' => CreateInFlight) /\ job'.at # "update"
        BY <2>1, StepAt DEF CreateInFlight
  <2> QED
        BY <2>1, <2>2, CountCleared
<1> QED
      BY <1>1, <1>2, <1>3, <1>4, <1>5 DEF JobStep

\* A read of a count, from the cache or through the database.
LEMMA CountReads ==
  ASSUME TypeOK, CountInv, Reads("count", "open") \/ Reads("list", "list") PROVE CountInv'
<1>0. UNCHANGED <<now, topics, op, job>>
      BY DEF Reads
<1>1. (CreateInFlight' <=> CreateInFlight) /\ (Cleaning' <=> Cleaning)
      BY <1>0 DEF CreateInFlight, Cleaning
<1>2. ASSUME NEW e PROVE (Right(e) => Right(e)') /\ (Settled(e) => Settled(e)')
      BY <1>0 DEF Right, Settled, CountAt, OpenAt, Overtaken, Expired
<1> DEFINE answer == Entry([count |-> OpenTopics, moment |-> now], CreateInFlight)
<1>3. CASE CountOpenTopics
  <2>1. fill' = [fill EXCEPT !["open"] = answer] /\ UNCHANGED cached
        BY <1>3 DEF CountOpenTopics, Miss
  <2>0. PICK e : e = answer
        OBVIOUS
  <2>2. /\ Shaped(e) /\ (CreateInFlight => Overtaken(e))
        /\ e.data.count = OpenTopics /\ e.data.moment = now
        BY <2>0 DEF Shaped, Overtaken, Entry
  <2>3. OpenTopics = CountAt(now)
        BY DEF OpenTopics, CountAt, IsOpen
  <2>4. ASSUME NEW t \in DOMAIN topics, job.at = "update", Expired(topics[t], job.moment)
        PROVE  ~OpenAt(t, now)
    <3>1. topics \in Seq(Row) /\ job.moment \in 0..now
          BY <2>4 DEF TypeOK
    <3>2. crew.until \in Nat /\ now \in 0..crew.until
          BY TopicAssumption DEF TypeOK
    <3>3. topics[t] \in Row
          BY <3>1
    <3>4. topics[t].win.close \in Nat /\ now \in Nat
          BY <3>2, <3>3 DEF Row, Windows
    <3> QED
          BY <2>4, <3>1, <3>4 DEF Expired, OpenAt
  <2>5. Right(e) /\ Settled(e)
        BY <2>2, <2>3, <2>4 DEF Right, Settled
  <2>6. DOMAIN fill' = Keys2 /\ fill'["open"] = e
        BY <2>0, <2>1 DEF CountInv, CountType, Keys2
  <2> HIDE DEF answer
  <2>7. CountType'
        BY <2>1, <2>2, <2>6 DEF CountInv, CountType
  <2>8. Right(fill["open"])' /\ Settled(fill["open"])'
    <3>1. Right(e)' /\ Settled(e)'
          BY <1>2, <2>5
    <3> QED
          BY <2>6, <3>1 DEF Right, Settled
  <2>9. CreateInFlight' => Overtaken(cached["open"])' /\ Overtaken(fill["open"])'
        BY <1>1, <2>1, <2>2, <2>6 DEF CountInv, Overtaken
  <2>10. (Right(cached["open"]) => Right(cached["open"])')
         /\ (Settled(cached["open"]) => Settled(cached["open"])')
        BY <1>2, <2>1 DEF Right, Settled
  <2> QED
        BY <1>1, <2>7, <2>8, <2>9, <2>10 DEF CountInv
<1>4. CASE CacheStep("open")
  <2>1. /\ DOMAIN cached' = Keys2 /\ DOMAIN fill' = Keys2
        /\ cached'["open"] \in {cached["open"], fill["open"], None}
        /\ fill'["open"] \in {fill["open"], None}
        BY <1>4 DEF CacheStep, Store, StoreFails, Expire, CountInv, CountType, Keys2
  <2> QED
        BY <1>1, <1>2, <2>1, NoneIs DEF CountInv, CountType, Right, Settled
<1>5. CASE GetLatestActiveTopics \/ CacheStep("list")
  <2>1. /\ DOMAIN cached' = Keys2 /\ DOMAIN fill' = Keys2
        /\ cached'["open"] = cached["open"] /\ fill'["open"] = fill["open"]
        BY <1>5 DEF GetLatestActiveTopics, Miss, CacheStep, Store, StoreFails, Expire,
                    CountInv, CountType, Keys2
  <2> QED
        BY <1>1, <1>2, <2>1 DEF CountInv, CountType, Right, Settled
<1> QED
      BY <1>3, <1>4, <1>5 DEF Reads

\* Every step keeps the counts.
LEMMA CountStep == ASSUME TypeOK, CountInv, [NavNext]_navvars PROVE CountInv'
<1>1. ASSUME UNCHANGED <<topics, op, job, cached, fill>> PROVE CountInv'
  <2>1. (CreateInFlight' => CreateInFlight) /\ (Cleaning => Cleaning')
        BY <1>1 DEF CreateInFlight, Cleaning
  <2> QED
        BY <1>1, <2>1, CountStays
<1> QED
      BY <1>1, CountStaff, CountJob, CountReads
         DEF NavNext, SubNext, SubmissionStep, SubmitChecks, SubmitCommits, SubmitFails, Judge,
             JudgeCommits, JudgeFails, GetBySubmissionID, PageStep, Open, NavigateCounts,
             NavigateScans, navvars, Next, Tick, vars

\* A cached number of open topics that nobody overtook is the number there was when
\* it was counted, save while a writer is about to clear it.
THEOREM CountFollowsTopics == NavSpec => []CountStaleOnlyByRace
<1>1. NavInit => CountInv
  <2> SUFFICES ASSUME NavInit PROVE CountInv
      OBVIOUS
  <2>1. /\ DOMAIN cached = Keys2 /\ DOMAIN fill = Keys2 /\ cached["open"] = None /\ fill["open"] = None
        /\ op = [p \in Staff |-> Idle]
        BY DEF NavInit, SubInit, Init, CacheInit, Keys2
  <2> QED
        BY <2>1, NoneIs DEF CountInv, CountType, Right, Settled
<1>2. CountInv => CountStaleOnlyByRace
      BY DEF CountInv, CountType, Right, Overtaken, CountStaleOnlyByRace
<1> QED
      BY <1>1, <1>2, CountStep, Typing, PTL DEF NavSpec

-----------------------------------------------------------------------------
(* The walk.                                                               *)

\* The order of the list: by the moments m, then by id.
Precedes(m, t, s) == m[t] < m[s] \/ (m[t] = m[s] /\ t < s)
RankIn(L, m, s) == Cardinality({t \in L : Precedes(m, t, s)})

\* The ranks of the elements of a finite list leave no gap.
LEMMA RanksFill ==
  ASSUME NEW L, L \subseteq Nat, IsFiniteSet(L), NEW m \in [L -> Nat], NEW s \in L,
         NEW n \in Nat, n <= RankIn(L, m, s)
  PROVE  \E x \in L : RankIn(L, m, x) = n
<1> DEFINE Ahead(x) == {t \in L : Precedes(m, t, x)}
           c == Cardinality(L)
           f == [x \in L |-> Cardinality(Ahead(x))]
<1>1. c \in Nat /\ c > 0
      BY FS_CardinalityType, FS_EmptySet
<1>2. ASSUME NEW x \in L PROVE IsFiniteSet(Ahead(x)) /\ Cardinality(Ahead(x)) \in 0..(c - 1)
  <2>1. IsFiniteSet(L \ {x}) /\ Cardinality(L \ {x}) = c - 1
        BY FS_RemoveElement
  <2>2. ~Precedes(m, x, x)
        BY DEF Precedes
  <2>3. Ahead(x) \in SUBSET (L \ {x})
        BY <2>2
  <2>4. IsFiniteSet(Ahead(x)) /\ Cardinality(Ahead(x)) <= c - 1
        BY <2>1, <2>3, FS_Subset
  <2>5. Cardinality(Ahead(x)) \in Nat
        BY <2>4, FS_CardinalityType
  <2> HIDE DEF c, Ahead
  <2> QED
        BY <1>1, <2>4, <2>5
<1>3. ASSUME NEW x \in L, NEW y \in L, Precedes(m, x, y) PROVE f[x] < f[y]
  <2>1. Ahead(x) \subseteq Ahead(y)
    <3>1. ASSUME NEW t \in L, Precedes(m, t, x) PROVE Precedes(m, t, y)
          BY <1>3, <3>1 DEF Precedes
    <3> QED
          BY <3>1
  <2>2. x \in Ahead(y) /\ x \notin Ahead(x)
        BY <1>3 DEF Precedes
  <2>3. /\ Cardinality(Ahead(x)) <= Cardinality(Ahead(y))
        /\ Cardinality(Ahead(y)) = Cardinality(Ahead(x)) => Ahead(y) = Ahead(x)
        BY <1>2, <2>1, FS_Subset
  <2>4. Cardinality(Ahead(x)) # Cardinality(Ahead(y))
        BY <2>2, <2>3
  <2>5. Cardinality(Ahead(x)) \in Int /\ Cardinality(Ahead(y)) \in Int
        BY <1>2
  <2>6. f[x] = Cardinality(Ahead(x)) /\ f[y] = Cardinality(Ahead(y))
        OBVIOUS
  <2> HIDE DEF f, Ahead
  <2> QED
        BY <2>3, <2>4, <2>5, <2>6
<1>4. ASSUME NEW x \in L, NEW y \in L, x # y PROVE f[x] # f[y]
  <2>1. x \in Nat /\ y \in Nat /\ m[x] \in Nat /\ m[y] \in Nat
        OBVIOUS
  <2>2. Precedes(m, x, y) \/ Precedes(m, y, x)
        BY <1>4, <2>1 DEF Precedes
  <2>3. f[x] \in Int /\ f[y] \in Int
        BY <1>2
  <2> HIDE DEF f
  <2> QED
        BY <1>3, <2>2, <2>3
<1>5. f \in [L -> 0..(c - 1)]
      BY <1>2
<1>6. IsFiniteSet(0..(c - 1)) /\ Cardinality(0..(c - 1)) = c
  <2>1. 0 \in Int /\ c - 1 \in Int /\ ~(0 > c - 1) /\ (c - 1) - 0 + 1 = c
        BY <1>1
  <2> HIDE DEF c
  <2> QED
        BY <2>1, FS_Interval
<1>7. f \in Surjection(L, 0..(c - 1))
  <2> HIDE DEF f
  <2>1. f \in Injection(L, 0..(c - 1))
        BY <1>4, <1>5, Fun_IsInj
  <2> QED
        BY <1>6, <2>1, FS_Injection
<1>8. n \in 0..(c - 1)
  <2>1. RankIn(L, m, s) = Cardinality(Ahead(s))
        BY DEF RankIn
  <2> HIDE DEF c, Ahead
  <2> QED
        BY <1>1, <1>2, <2>1
<1>9. PICK x \in L : f[x] = n
  <2> HIDE DEF f
  <2> QED
        BY <1>7, <1>8 DEF Surjection
<1> QED
      BY <1>9 DEF RankIn

\* The initial submissions are well typed.
LEMMA SubTypesInit == SubInit => SubTypeOK
BY DEF SubInit, SubTypeOK

\* Every step keeps the types of the submissions.
LEMMA SubTypesStep == ASSUME TypeOK, SubTypeOK, [NavNext]_navvars PROVE SubTypeOK'
<1>1. ASSUME UNCHANGED <<subs, author, verdict>> PROVE SubTypeOK'
      BY <1>1 DEF SubTypeOK
<1>2. ASSUME NEW s \in Submissions, SubmitChecks(s) PROVE SubTypeOK'
  <2>1. topics \in Seq(Row) /\ now \in Nat
        BY TopicAssumption DEF TypeOK
  <2>2. PICK t \in DOMAIN topics : author' = [author EXCEPT ![s] = [topic |-> t, moment |-> now]]
        BY <1>2 DEF SubmitChecks
  <2>3. t \in Nat
        BY <2>1, <2>2
  <2>4. [topic |-> t, moment |-> now] \in [topic : Nat, moment : Nat]
        BY <2>1, <2>3
  <2> QED
        BY <1>2, <2>2, <2>4 DEF SubmitChecks, SubTypeOK
<1>3. ASSUME NEW s \in Submissions, SubmitCommits(s) PROVE SubTypeOK'
  <2> DEFINE row == [topic |-> author[s].topic, moment |-> author[s].moment, status |-> Pending]
  <2>1. /\ subs' = [subs EXCEPT ![s] = row] /\ author' = [author EXCEPT ![s] = None]
        /\ verdict' = verdict /\ subs[s] = None
        BY <1>3 DEF SubmitCommits
  <2>2. author[s] \in [topic : Nat, moment : Nat]
        BY <1>3 DEF SubmitCommits, SubTypeOK
  <2>3. row \in SubRow
        BY <2>2 DEF SubRow
  <2> HIDE DEF row
  <2>4. subs' \in [Submissions -> {None} \cup SubRow]
        BY <2>1, <2>3 DEF SubTypeOK
  <2>5. author' \in [Submissions -> {None} \cup [topic : Nat, moment : Nat]]
        BY <2>1 DEF SubTypeOK
  <2>6. \A u \in Submissions : verdict'[u] # Undecided => subs'[u] # None
        BY <2>1 DEF SubTypeOK
  <2> QED
        BY <2>1, <2>4, <2>5, <2>6 DEF SubTypeOK
<1>4. ASSUME NEW s \in Submissions, SubmitFails(s) PROVE SubTypeOK'
      BY <1>4 DEF SubmitFails, SubTypeOK
<1>5. ASSUME NEW s \in Submissions, Judge(s) PROVE SubTypeOK'
      BY <1>5 DEF Judge, SubTypeOK
<1>6. ASSUME NEW s \in Submissions, JudgeCommits(s) \/ JudgeFails(s) PROVE SubTypeOK'
  <2>1. /\ verdict' = [verdict EXCEPT ![s] = Undecided] /\ UNCHANGED author
        /\ subs[s] \in SubRow /\ verdict[s] \in {Hidden, Approved}
        /\ subs' = subs \/ subs' = [subs EXCEPT ![s] = [subs[s] EXCEPT !.status = verdict[s]]]
        BY <1>6 DEF JudgeCommits, JudgeFails, SubTypeOK
  <2>2. [subs[s] EXCEPT !.status = verdict[s]] \in SubRow
        BY <2>1 DEF SubRow
  <2>3. subs' \in [Submissions -> {None} \cup SubRow]
        BY <2>1, <2>2 DEF SubTypeOK
  <2>4. \A u \in Submissions : verdict'[u] # Undecided => subs'[u] # None
        BY <2>1 DEF SubTypeOK
  <2> QED
        BY <2>1, <2>3, <2>4 DEF SubTypeOK
<1> QED
      BY <1>1, <1>2, <1>3, <1>4, <1>5, <1>6
         DEF NavNext, SubNext, SubmissionStep, GetBySubmissionID, PageStep, Open, NavigateCounts,
             NavigateScans, navvars, subvars

Walks == [at : {"count", "scan", "end"}, page : Nat \ {0}, approved : BOOLEAN,
          seen : SUBSET Submissions, due : SUBSET Submissions]
Rank(approved, s) == Cardinality({t \in ListedIn(subs, approved) : Before(t, s)})
\* A walk under way has seen what is due on the pages before its own; submissions
\* that come in can only move the others back, to pages it has yet to open.
Covered(pos, approved, seen, due) ==
  /\ due \subseteq ListedIn(subs, approved)
  /\ \A s \in due : Rank(approved, s) < pos - 1 => s \in seen
WalkInv ==
  /\ walk \in {Resting, Lost} \cup Walks
  /\ walk.at \in {"count", "scan"} => Covered(walk.page, walk.approved, walk.seen, walk.due)
  /\ walk.at = "end" => walk.due \subseteq walk.seen

\* What the program counter says of a walk.
LEMMA WalkAt ==
  /\ Resting.at = "resting" /\ Lost.at = "lost"
  /\ \A w \in {Resting, Lost} \cup Walks : w.at \in {"count", "scan", "end"} => w \in Walks
BY DEF Resting, Lost, Walks

\* What a listing holds is finite.
LEMMA ListedFinite ==
  ASSUME NEW rows, NEW approved
  PROVE  ListedIn(rows, approved) \subseteq Submissions /\ IsFiniteSet(ListedIn(rows, approved))
<1>1. ListedIn(rows, approved) \in SUBSET Submissions
      BY DEF ListedIn
<1> QED
      BY <1>1, SubmissionAssumption, FS_Subset

\* What a listing holds has a moment.
LEMMA ListedMoment ==
  ASSUME SubTypeOK, NEW approved, NEW s \in ListedIn(subs, approved)
  PROVE  subs[s] \in SubRow /\ subs[s].moment \in Nat
BY DEF SubTypeOK, SubRow, ListedIn

\* If a listed submission is at the page's offset or beyond, one is at it.
LEMMA RecordThere ==
  ASSUME SubTypeOK, NEW approved, NEW pos \in Nat \ {0}, NEW s \in ListedIn(subs, approved),
         ~(Rank(approved, s) < pos - 1)
  PROVE  Record(approved, pos) # {}
<1> DEFINE L == ListedIn(subs, approved)
           m == [x \in L |-> subs[x].moment]
<1>1. L \subseteq Nat /\ IsFiniteSet(L)
      BY ListedFinite, SubmissionAssumption
<1>2. m \in [L -> Nat]
      BY ListedMoment
<1>3. ASSUME NEW x \in L PROVE RankIn(L, m, x) = Rank(approved, x)
  <2>1. {t \in L : Before(t, x)} = {t \in L : Precedes(m, t, x)}
        BY DEF Before, Precedes
  <2> QED
        BY <2>1 DEF Rank, RankIn
<1>4. RankIn(L, m, s) \in Nat
  <2>1. {t \in L : Precedes(m, t, s)} \in SUBSET L
        OBVIOUS
  <2> HIDE DEF L, m
  <2> QED
        BY <1>1, <2>1, FS_Subset, FS_CardinalityType DEF RankIn
<1>5. pos - 1 \in Nat /\ pos - 1 <= RankIn(L, m, s)
  <2>1. RankIn(L, m, s) = Rank(approved, s)
        BY <1>3
  <2> HIDE DEF L, m
  <2> QED
        BY <1>4, <2>1
<1>6. \E x \in L : RankIn(L, m, x) = pos - 1
  <2> s \in L
        OBVIOUS
  <2> HIDE DEF L, m
  <2> QED
        BY <1>1, <1>2, <1>5, RanksFill
<1>7. PICK x \in L : Rank(approved, x) = pos - 1
      BY <1>3, <1>6
<1> QED
      BY <1>7 DEF Record, Offset, Rank

\* The statements of others keep a walk's promise, or lose it.
LEMMA WalkNoticed ==
  ASSUME SubTypeOK, SubTypeOK', WalkInv, walk' = Noticed,
         \A s \in Submissions : subs[s] # None =>
           subs'[s] # None /\ subs'[s].moment = subs[s].moment
  PROVE  WalkInv'
<1>1. CASE walk' = Lost
      BY <1>1, WalkAt DEF WalkInv
<1>2. CASE walk' = walk /\ walk.at \in {"count", "scan"}
  <2>0. PICK b, pos : b = walk.approved /\ pos = walk.page
        OBVIOUS
  <2>1. ListedIn(subs, b) \subseteq ListedIn(subs', b)
        BY <1>2, <2>0, WalkAt DEF Noticed
  <2>2. ASSUME NEW s \in ListedIn(subs, b) PROVE Rank(b, s)' < pos - 1 => Rank(b, s) < pos - 1
    <3> DEFINE A == {t \in ListedIn(subs, b) : Before(t, s)}
               B == {t \in ListedIn(subs', b) : Before(t, s)'}
    <3>1. A \in SUBSET B
      <4>1. ASSUME NEW t \in ListedIn(subs, b), Before(t, s) PROVE Before(t, s)'
        <5>1. subs'[t].moment = subs[t].moment /\ subs'[s].moment = subs[s].moment
              BY DEF ListedIn
        <5> QED
              BY <4>1, <5>1 DEF Before
      <4> QED
            BY <2>1, <4>1
    <3>2. IsFiniteSet(B) /\ Cardinality(B) \in Nat
      <4>1. B \in SUBSET ListedIn(subs', b)
            OBVIOUS
      <4>2. IsFiniteSet(ListedIn(subs', b))
            BY ListedFinite
      <4> HIDE DEF B
      <4> QED
            BY <4>1, <4>2, FS_Subset, FS_CardinalityType
    <3>3. Cardinality(A) \in Nat /\ Cardinality(A) <= Cardinality(B)
      <4> HIDE DEF A, B
      <4> QED
            BY <3>1, <3>2, FS_Subset, FS_CardinalityType
    <3>4. Rank(b, s) = Cardinality(A) /\ Rank(b, s)' = Cardinality(B)
          BY DEF Rank
    <3>5. pos \in Int
          BY <1>2, <2>0, WalkAt DEF WalkInv, Walks
    <3> HIDE DEF A, B
    <3> QED
          BY <3>2, <3>3, <3>4, <3>5
  <2>3. Covered(pos, b, walk.seen, walk.due)
        BY <1>2, <2>0 DEF WalkInv
  <2>4. PICK seen, due : seen = walk.seen /\ due = walk.due
        OBVIOUS
  <2>5. Covered(pos, b, seen, due)
        BY <2>3, <2>4
  <2>6. Covered(pos, b, seen, due)'
        BY <2>1, <2>2, <2>5 DEF Covered
  <2> QED
        BY <1>2, <2>0, <2>4, <2>6 DEF WalkInv, Covered
<1>3. CASE walk' = walk /\ walk.at \notin {"count", "scan"}
      BY <1>3 DEF WalkInv, Walks
<1> QED
      BY <1>1, <1>2, <1>3 DEF Noticed

\* A walk begins with everything due.
LEMMA WalkOpens ==
  ASSUME SubTypeOK, WalkInv, Open, UNCHANGED subs PROVE WalkInv'
<1>1. PICK a \in BOOLEAN :
        walk' = [at |-> "count", page |-> 1, approved |-> a, seen |-> {}, due |-> ListedIn(subs, a)]
      BY DEF Open
<1>2. walk' \in Walks
      BY <1>1, ListedFinite DEF Walks
<1>3. ASSUME NEW s \in ListedIn(subs, a) PROVE ~(Rank(a, s) < 0)
  <2>1. {t \in ListedIn(subs, a) : Before(t, s)} \in SUBSET ListedIn(subs, a)
        OBVIOUS
  <2>2. Rank(a, s) \in Nat
        BY <2>1, ListedFinite, FS_Subset, FS_CardinalityType DEF Rank
  <2> QED
        BY <2>2
<1>4. /\ walk'.at = "count" /\ walk'.page = 1 /\ walk'.approved = a
      /\ walk'.seen = {} /\ walk'.due = ListedIn(subs, a)
      BY <1>1
<1>5. ListedIn(subs', a) = ListedIn(subs, a) /\ \A s : Rank(a, s)' = Rank(a, s)
      BY DEF Rank, Before
<1>6. 1 - 1 = 0
      OBVIOUS
<1>7. \A s \in ListedIn(subs, a) : ~(Rank(a, s) < 1 - 1)
      BY <1>3, <1>6
<1> QED
      BY <1>2, <1>4, <1>5, <1>7 DEF WalkInv, Covered

\* A page is counted, then read.
LEMMA WalkScans ==
  ASSUME SubTypeOK, WalkInv, NavigateCounts \/ NavigateScans PROVE WalkInv'
<1>1. /\ UNCHANGED <<subs>> /\ walk \in Walks /\ walk.at \in {"count", "scan"}
      /\ Covered(walk.page, walk.approved, walk.seen, walk.due)
      BY WalkAt DEF NavigateCounts, NavigateScans, subvars, WalkInv
<1>2. PICK pos \in Nat \ {0}, a \in BOOLEAN, seen \in SUBSET Submissions, due \in SUBSET Submissions :
        pos = walk.page /\ a = walk.approved /\ seen = walk.seen /\ due = walk.due
      BY <1>1 DEF Walks
<1>3. Covered(pos, a, seen, due)
      BY <1>1, <1>2
<1>4. ListedIn(subs', a) = ListedIn(subs, a) /\ \A s : Rank(a, s)' = Rank(a, s)
      BY <1>1 DEF Rank, Before
<1>5. ASSUME NEW at \in {"scan", "end"}, walk' = [walk EXCEPT !.at = at],
             at = "end" => due \subseteq seen
      PROVE  WalkInv'
  <2>1. walk' \in Walks /\ walk'.at = at
        BY <1>1, <1>5 DEF Walks
  <2>2. walk'.page = pos /\ walk'.approved = a /\ walk'.seen = seen /\ walk'.due = due
        BY <1>1, <1>2, <1>5 DEF Walks
  <2> QED
        BY <1>3, <1>4, <1>5, <2>1, <2>2 DEF WalkInv, Covered
<1>6. CASE NavigateCounts
  <2>1. walk' = [walk EXCEPT !.at = IF ListedIn(subs, a) = {} THEN "end" ELSE "scan"]
        BY <1>2, <1>6 DEF NavigateCounts
  <2>2. ListedIn(subs, a) = {} => due \subseteq seen
        BY <1>3 DEF Covered
  <2> QED
        BY <1>5, <2>1, <2>2
<1>7. CASE NavigateScans /\ Record(a, pos) = {}
  <2>1. walk' = [walk EXCEPT !.at = "end"]
        BY <1>2, <1>7 DEF NavigateScans
  <2>2. ASSUME NEW s \in due PROVE s \in seen
        BY <1>3, <1>7, RecordThere DEF Covered
  <2> QED
        BY <1>5, <2>1, <2>2
<1>8. CASE NavigateScans /\ Record(a, pos) # {}
  <2> DEFINE more == seen \cup Record(a, pos)
  <2>1. walk' = [walk EXCEPT !.at = "count", !.page = pos + 1, !.seen = more]
        BY <1>2, <1>8 DEF NavigateScans
  <2>2. Record(a, pos) \subseteq Submissions
        BY ListedFinite DEF Record
  <2>3. /\ walk'.at = "count" /\ walk'.page = pos + 1 /\ walk'.approved = a
        /\ walk'.seen = more /\ walk'.due = due
        BY <1>1, <1>2, <2>1 DEF Walks
  <2>4. walk' \in Walks
    <3> DEFINE next == pos + 1
    <3>1. next \in Nat \ {0} /\ more \in SUBSET Submissions
          BY <2>2
    <3>2. walk' = [walk EXCEPT !.at = "count", !.page = next, !.seen = more]
          BY <2>1
    <3> HIDE DEF next, more
    <3> QED
          BY <1>1, <3>1, <3>2 DEF Walks
  <2>5. ASSUME NEW s \in due, Rank(a, s) < (pos + 1) - 1 PROVE s \in more
    <3>1. s \in ListedIn(subs, a) /\ (Rank(a, s) < pos - 1 => s \in seen)
          BY <1>3 DEF Covered
    <3>2. Rank(a, s) \in Nat
      <4>1. {t \in ListedIn(subs, a) : Before(t, s)} \in SUBSET ListedIn(subs, a)
            OBVIOUS
      <4> QED
            BY <4>1, ListedFinite, FS_Subset, FS_CardinalityType DEF Rank
    <3>3. Rank(a, s) < pos - 1 \/ Rank(a, s) = pos - 1
          BY <2>5, <3>2
    <3>4. Rank(a, s) = pos - 1 => s \in Record(a, pos)
          BY <3>1 DEF Record, Rank, Offset
    <3> QED
          BY <3>1, <3>3, <3>4
  <2>6. Covered(pos + 1, a, more, due)
        BY <1>3, <2>5 DEF Covered
  <2> HIDE DEF more
  <2> QED
        BY <1>4, <2>3, <2>4, <2>6 DEF WalkInv, Covered
<1> QED
      BY <1>6, <1>7, <1>8

\* Every step keeps the walk.
LEMMA WalkStep ==
  ASSUME TypeOK, SubTypeOK, SubTypeOK', WalkInv, [NavNext]_navvars PROVE WalkInv'
<1>1. ASSUME SubNext, NEW s \in Submissions, subs[s] # None
      PROVE  subs'[s] # None /\ subs'[s].moment = subs[s].moment
  <2>1. CASE UNCHANGED subs
        BY <1>1, <2>1
  <2>2. ASSUME NEW u \in Submissions, SubmitCommits(u) PROVE subs'[s] = subs[s]
        BY <1>1, <2>2 DEF SubmitCommits, SubTypeOK
  <2>3. ASSUME NEW u \in Submissions, JudgeCommits(u)
        PROVE  subs'[s] # None /\ subs'[s].moment = subs[s].moment
    <3> DEFINE row == [subs[s] EXCEPT !.status = verdict[s]]
    <3>1. subs'[s] = IF s = u THEN row ELSE subs[s]
          BY <2>3 DEF JudgeCommits, SubTypeOK
    <3>2. subs[s] \in SubRow
          BY <1>1 DEF SubTypeOK
    <3>3. row.moment = subs[s].moment /\ "moment" \in DOMAIN row
          BY <3>2 DEF SubRow
    <3>4. row # None
          BY <3>3 DEF None
    <3> HIDE DEF row
    <3> QED
          BY <1>1, <3>1, <3>3, <3>4
  <2> QED
        BY <1>1, <2>1, <2>2, <2>3
           DEF SubNext, SubmissionStep, SubmitChecks, SubmitFails, Judge, JudgeFails,
               GetBySubmissionID, PageStep, subvars
<1>2. CASE SubNext /\ walk' = Noticed
      BY <1>1, <1>2, WalkNoticed
<1>3. CASE Open \/ NavigateCounts \/ NavigateScans
      BY <1>3, WalkOpens, WalkScans DEF Open, subvars
<1>4. CASE UNCHANGED navvars
  <2>1. walk' = walk /\ subs' = subs
        BY <1>4 DEF navvars, subvars
  <2> QED
        BY <2>1 DEF WalkInv, Covered, Rank, Before, Walks
<1> QED
      BY <1>2, <1>3, <1>4 DEF NavNext

\* A walk that has come to its end has shown everything that was listed when it
\* began, whatever was committed or approved meanwhile, unless one left the list.
THEOREM NothingSkipped == NavSpec => []SkippedOnlyByRemoval
<1>1. NavInit => TypeOK /\ SubTypeOK /\ WalkInv
  <2>1. NavInit => WalkInv
        BY WalkAt DEF NavInit, WalkInv
  <2> QED
        BY <2>1, TypesInit, SubTypesInit DEF NavInit, SubInit
<1>2. TypeOK /\ SubTypeOK /\ WalkInv /\ [NavNext]_navvars => (TypeOK /\ SubTypeOK /\ WalkInv)'
      BY TypesStep, SubTypesStep, WalkStep
<1>3. WalkInv => SkippedOnlyByRemoval
      BY DEF WalkInv, SkippedOnlyByRemoval
<1> QED
      BY <1>1, <1>2, <1>3, PTL DEF NavSpec

\* Topics, submissions, verdicts and walks all keep their types.
THEOREM TypeCorrect == NavSpec => [](TypeOK /\ SubTypeOK)
<1>1. NavInit => TypeOK /\ SubTypeOK
      BY TypesInit, SubTypesInit DEF NavInit, SubInit
<1>2. TypeOK /\ SubTypeOK /\ [NavNext]_navvars => (TypeOK /\ SubTypeOK)'
      BY TypesStep, SubTypesStep
<1> QED
      BY <1>1, <1>2, PTL DEF NavSpec

\* Each module only adds to the one below it: to the submissions the walks are
\* invisible, and to the topics the submissions.
THEOREM ModulesStack == NavSpec => SubSpec /\ Spec
<1>1. NavInit => SubInit /\ Init
      BY DEF NavInit, SubInit
<1>2. [NavNext]_navvars => [SubNext]_<<vars, subvars>>
      BY DEF NavNext, Open, NavigateCounts, NavigateScans, navvars
<1>3. [NavNext]_navvars => [Next]_vars
      BY DEF NavNext, SubNext, SubmissionStep, SubmitChecks, SubmitCommits, SubmitFails, Judge,
             JudgeCommits, JudgeFails, GetBySubmissionID, PageStep, Open, NavigateCounts,
             NavigateScans, navvars
<1> QED
      BY <1>1, <1>2, <1>3, PTL DEF NavSpec, SubSpec, Spec
=============================================================================
