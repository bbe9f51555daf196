----------------------------- MODULE JobsProofs -----------------------------
(***************************************************************************)
(* Safety of the jobs for any number of anchors, images and moments: what  *)
(* is recorded, for which day and how often, what the caches say of it,    *)
(* and what is left of a long series, however often the process dies.      *)
(***************************************************************************)
EXTENDS Jobs, TLAPS

\* A later moment is in no earlier day, and every moment has its day and week.
LEMMA DayGrows ==
  ASSUME NEW t \in Nat PROVE Day(t) \in Nat /\ Day(t + 1) \in Nat /\ Day(t) <= Day(t + 1)
BY ClockAssumption, SMTT(30) DEF Day
\* Later moments are on later days.
LEMMA DayOrder ==
  ASSUME NEW s \in Nat, NEW t \in Nat, s <= t PROVE Day(s) <= Day(t)
BY ClockAssumption, SMTT(30) DEF Day

-----------------------------------------------------------------------------
\* The recognition of the weekly schedule.
Working == {"extract", "check", "generate", "save"}
Inserted == {"clear", "mark"}
Run == [at : Working \cup Inserted, week : Weeks, blind : BOOLEAN,
        imgs : SUBSET Images, items : SUBSET Images]

RecgType ==
  /\ recg = Quiet \/ recg \in Run
  /\ times \in [Images -> 0..2]
  /\ page \subseteq Images /\ processed \subseteq Images

\* A run that could look has seen no row of its week, and it alone inserts rows.
SeenNone == recg.at \in Working => recg.blind \/ times[recg.week] = 0
\* What was inserted is marked, known to be unmarked, or about to be marked.
Accounted ==
  \A i \in Images : times[i] > 0 =>
    \/ i \in processed \cup unmarked
    \/ recg.at \in Inserted /\ i \in recg.items
\* What is sent to the model is not marked, or its mark was not read.
SentUnmarked ==
  /\ recg.at \in {"generate", "save"} => recg.imgs \cap processed \subseteq unmarked
  /\ recg.at \in {"save", "clear", "mark"} => recg.items \subseteq recg.imgs

WeekInv == RecgType /\ SeenNone /\ Accounted /\ SentUnmarked

\* No image has been seen before the first run.
LEMMA WeekInvInit == Init => WeekInv
BY ClockAssumption
   DEF Init, WeekInit, WeekInv, RecgType, SeenNone, Accounted, SentUnmarked, Quiet, Working, Inserted
\* The week of a moment is a week.
LEMMA WeekOf == ASSUME now \in Moments PROVE Week(now) \in Weeks /\ Day(now) \in Days
<1>1. now \in Nat /\ LastMoment \in Nat /\ now <= LastMoment
      BY ClockAssumption DEF Moments
<1>2. Day(now) \in Nat /\ Day(LastMoment) \in Nat /\ Day(now) <= Day(LastMoment)
      BY <1>1, DayOrder, DayGrows
<1>3. Week(now) \in Nat /\ Week(LastMoment) \in Nat /\ Week(now) <= Week(LastMoment)
      BY <1>2, ClockAssumption, SMTT(30) DEF Week
<1> QED
      BY <1>2, <1>3 DEF Weeks, Days

\* A run that moves on keeps the fields it does not name.
IsRun(p, at, week, blind, imgs, items) ==
  p \in Run /\ p.at = at /\ p.week = week /\ p.blind = blind /\ p.imgs = imgs /\ p.items = items
\* A run that goes on keeps its week, and changes one set at a time.
LEMMA RunMoves ==
  ASSUME NEW q \in Run, NEW at \in Working \cup Inserted, NEW set \in SUBSET Images
  PROVE  /\ IsRun([q EXCEPT !.at = at], at, q.week, q.blind, q.imgs, q.items)
         /\ IsRun([q EXCEPT !.at = at, !.imgs = set], at, q.week, q.blind, set, q.items)
         /\ IsRun([q EXCEPT !.at = at, !.items = set], at, q.week, q.blind, q.imgs, set)
BY DEF Run, IsRun

\* Between two runs the job is at rest.
LEMMA QuietAt == Quiet.at = "quiet"
BY DEF Quiet

\* A run that ends without an insert leaves nothing to account for.
LEMMA RunEnds ==
  ASSUME WeekInv, recg' = Quiet, recg.at \notin Inserted,
         UNCHANGED <<page, times, processed>>, unmarked \subseteq unmarked'
  PROVE  WeekInv'
<1>1. RecgType'
      BY DEF WeekInv, RecgType
<1>2. recg'.at = "quiet"
      BY QuietAt
<1>3. SeenNone' /\ SentUnmarked'
      BY <1>2 DEF SeenNone, SentUnmarked, Working
<1>4. Accounted'
      BY DEF WeekInv, Accounted
<1> QED
      BY <1>1, <1>3, <1>4 DEF WeekInv

\* A run that moves on to its next step before it inserts.
LEMMA RunGoesOn ==
  ASSUME WeekInv, UNCHANGED <<page, times, processed>>, unmarked \subseteq unmarked',
         recg.at \in Working,
         NEW at \in Working, NEW imgs, NEW items,
         IsRun(recg', at, recg.week, recg.blind, imgs, items),
         at \in {"generate", "save"} => imgs \cap processed \subseteq unmarked',
         at = "save" => items \subseteq imgs
  PROVE  WeekInv'
<1>1. RecgType'
      BY DEF WeekInv, RecgType, IsRun
<1>2. SeenNone'
      BY DEF WeekInv, SeenNone, IsRun
<1>3. SentUnmarked'
      BY DEF SentUnmarked, IsRun, Working
<1>4. Accounted'
      BY DEF WeekInv, Accounted, Working, Inserted
<1> QED
      BY <1>1, <1>2, <1>3, <1>4 DEF WeekInv

\* Each step of the run keeps the invariant.
LEMMA WeekStepKeeps ==
  ASSUME WeekInv, now \in Moments, WeekStep PROVE WeekInv'
<1>0. recg.at # "quiet" => recg \in Run
      BY QuietAt DEF WeekInv, RecgType
<1>1. CASE RecognizeStarts
  <2>1. PICK blind \in BOOLEAN : /\ blind \/ ~HasWeekSchedule(Week(now))
                                 /\ recg' = Recg("extract", Week(now), blind, {}, {})
        BY <1>1 DEF RecognizeStarts
  <2>2. UNCHANGED <<page, times, processed, unmarked>> /\ recg.at = "quiet"
        BY <1>1, QuietAt DEF RecognizeStarts
  <2>3. recg' \in Run /\ recg'.at = "extract" /\ recg'.week = Week(now) /\ recg'.blind = blind
        BY <2>1, WeekOf DEF Recg, Run, Working
  <2>4. RecgType'
        BY <2>2, <2>3 DEF WeekInv, RecgType
  <2>5. SeenNone'
    <3>1. CASE blind
          BY <2>3, <3>1 DEF SeenNone
    <3>2. CASE ~HasWeekSchedule(Week(now))
          BY <2>2, <2>3, <3>2, WeekOf DEF SeenNone, HasWeekSchedule, WeekInv, RecgType, Images
    <3> QED
          BY <2>1, <3>1, <3>2
  <2>6. SentUnmarked'
        BY <2>3 DEF SentUnmarked
  <2>7. Accounted'
        BY <2>2 DEF WeekInv, Accounted, Inserted
  <2> QED
        BY <2>4, <2>5, <2>6, <2>7 DEF WeekInv
<1>2. CASE ExtractImageURLs
  <2>1. recg \in Run /\ recg.at = "extract" /\ page \in SUBSET Images
        BY <1>0, <1>2 DEF ExtractImageURLs, WeekInv, RecgType
  <2>2. UNCHANGED <<page, times, processed, unmarked>>
        BY <1>2 DEF ExtractImageURLs
  <2>3. CASE recg' = Quiet
        BY <2>1, <2>2, <2>3, RunEnds DEF Inserted
  <2>4. CASE recg' = [recg EXCEPT !.at = "check", !.imgs = page]
    <3>1. IsRun(recg', "check", recg.week, recg.blind, page, recg.items)
          BY <2>1, <2>4, RunMoves DEF Working
    <3> QED
          BY <2>1, <2>2, <3>1, RunGoesOn DEF Working
  <2> QED
        BY <1>2, <2>3, <2>4 DEF ExtractImageURLs
<1>3. CASE CheckImageExists
  <2>1. recg \in Run /\ recg.at = "check" /\ recg.imgs \in SUBSET Images
        BY <1>0, <1>3 DEF CheckImageExists, Run
  <2>2. UNCHANGED <<page, times, processed>>
        BY <1>3 DEF CheckImageExists
  <2>3. CASE recg' = Quiet /\ UNCHANGED unmarked
        BY <2>1, <2>2, <2>3, RunEnds DEF Inserted
  <2>4. CASE /\ recg' = [recg EXCEPT !.at = "generate", !.imgs = recg.imgs \ processed]
             /\ UNCHANGED unmarked
    <3>1. recg.imgs \ processed \in SUBSET Images
          BY <2>1
    <3>2. IsRun(recg', "generate", recg.week, recg.blind, recg.imgs \ processed, recg.items)
          BY <2>1, <2>4, <3>1, RunMoves DEF Working
    <3> QED
          BY <2>1, <2>2, <2>4, <3>2, RunGoesOn DEF Working
  <2>5. CASE /\ recg' = [recg EXCEPT !.at = "generate"]
             /\ unmarked' = unmarked \cup (recg.imgs \cap processed)
    <3>1. IsRun(recg', "generate", recg.week, recg.blind, recg.imgs, recg.items)
          BY <2>1, <2>5, RunMoves DEF Working
    <3> QED
          BY <2>1, <2>2, <2>5, <3>1, RunGoesOn DEF Working
  <2> QED
        BY <1>3, <2>3, <2>4, <2>5 DEF CheckImageExists
<1>4. CASE Generate
  <2>1. recg \in Run /\ recg.at = "generate" /\ recg.imgs \in SUBSET Images
        BY <1>0, <1>4 DEF Generate, Run
  <2>2. UNCHANGED <<page, times, processed, unmarked>>
        BY <1>4 DEF Generate
  <2>3. CASE recg' = Quiet
        BY <2>1, <2>2, <2>3, RunEnds DEF Inserted
  <2>4. ASSUME NEW items \in SUBSET recg.imgs, recg' = [recg EXCEPT !.at = "save", !.items = items]
        PROVE  WeekInv'
    <3>1. IsRun(recg', "save", recg.week, recg.blind, recg.imgs, items)
          BY <2>1, <2>4, RunMoves DEF Working
    <3>2. recg.imgs \cap processed \subseteq unmarked
          BY <2>1 DEF WeekInv, SentUnmarked
    <3> QED
          BY <2>1, <2>2, <2>4, <3>1, <3>2, RunGoesOn DEF Working
  <2> QED
        BY <1>4, <2>3, <2>4 DEF Generate
<1>5. CASE SaveScheduleToDB
  <2>1. recg \in Run /\ recg.at = "save" /\ recg.items \subseteq recg.imgs
        BY <1>0, <1>5 DEF SaveScheduleToDB, WeekInv, SentUnmarked
  <2>2. UNCHANGED <<page, processed, unmarked>>
        BY <1>5 DEF SaveScheduleToDB
  <2>3. CASE recg' = Quiet /\ UNCHANGED times
        BY <2>1, <2>2, <2>3, RunEnds DEF Inserted
  <2>4. CASE times' = Saved(recg.items) /\ recg' = [recg EXCEPT !.at = "clear"]
    <3>1. IsRun(recg', "clear", recg.week, recg.blind, recg.imgs, recg.items)
          BY <2>1, <2>4, RunMoves DEF Inserted
    <3>2. /\ times' \in [Images -> 0..2]
          /\ \A i \in Images : times'[i] > 0 => times[i] > 0 \/ i \in recg.items
          BY <2>4 DEF Saved, WeekInv, RecgType
    <3>3. RecgType'
          BY <2>2, <3>1, <3>2 DEF WeekInv, RecgType, IsRun
    <3>4. SeenNone' /\ SentUnmarked'
          BY <2>1, <3>1 DEF SeenNone, SentUnmarked, IsRun, Working
    <3>5. Accounted'
          BY <2>1, <2>2, <3>1, <3>2 DEF WeekInv, Accounted, IsRun, Inserted
    <3> QED
          BY <3>3, <3>4, <3>5 DEF WeekInv
  <2> QED
        BY <1>5, <2>3, <2>4 DEF SaveScheduleToDB
<1>6. CASE ClearWeekly
  <2>1. recg \in Run /\ recg.at = "clear" /\ recg.items \subseteq recg.imgs
        BY <1>0, <1>6 DEF ClearWeekly, WeekInv, SentUnmarked
  <2>2. UNCHANGED <<page, times, processed, unmarked>>
        BY <1>6 DEF ClearWeekly
  <2>3. IsRun(recg', "mark", recg.week, recg.blind, recg.imgs, recg.items)
        BY <1>6, <2>1, RunMoves DEF ClearWeekly, Inserted
  <2>4. RecgType'
        BY <2>2, <2>3 DEF WeekInv, RecgType, IsRun
  <2>5. SeenNone' /\ SentUnmarked'
        BY <2>1, <2>3 DEF SeenNone, SentUnmarked, IsRun, Working
  <2>6. Accounted'
        BY <2>1, <2>2, <2>3 DEF WeekInv, Accounted, IsRun, Inserted
  <2> QED
        BY <2>4, <2>5, <2>6 DEF WeekInv
<1>7. CASE MarkImageProcessed
  <2>1. /\ recg \in Run /\ recg.at = "mark" /\ recg.items \subseteq recg.imgs
        /\ recg.imgs \subseteq Images
        BY <1>0, <1>7 DEF MarkImageProcessed, WeekInv, SentUnmarked, Run
  <2>2. UNCHANGED <<page, times>> /\ recg' = Quiet
        BY <1>7 DEF MarkImageProcessed
  <2>3. /\ processed \subseteq processed' /\ processed' \subseteq processed \cup recg.imgs
        /\ unmarked \subseteq unmarked'
        /\ recg.items \subseteq processed' \cup unmarked'
        BY <1>7, <2>1 DEF MarkImageProcessed
  <2>4. RecgType'
        BY <2>1, <2>2, <2>3 DEF WeekInv, RecgType
  <2>5. SeenNone' /\ SentUnmarked'
        BY <2>2, QuietAt DEF SeenNone, SentUnmarked, Working
  <2>6. Accounted'
        BY <2>1, <2>2, <2>3 DEF WeekInv, Accounted
  <2> QED
        BY <2>4, <2>5, <2>6 DEF WeekInv
<1>8. CASE GetWeeklySchedule
      BY <1>8 DEF GetWeeklySchedule, WeekInv, RecgType, SeenNone, Accounted, SentUnmarked
<1>9. CASE Announce
      BY <1>9 DEF Announce, WeekInv, RecgType, SeenNone, Accounted, SentUnmarked
<1> QED
      BY <1>1, <1>2, <1>3, <1>4, <1>5, <1>6, <1>7, <1>8, <1>9 DEF WeekStep, RecgStep

\* A crash forgets the run and leaves what is marked and inserted.
LEMMA WeekDiesKeeps == ASSUME WeekInv, WeekDies PROVE WeekInv'
BY DEF WeekInv, RecgType, SeenNone, Accounted, SentUnmarked, Quiet, Working, Inserted, WeekDies, Run

\* The one step that inserts rows finds both guards broken.
LEMMA InsertsOnce ==
  ASSUME WeekInv, [WeekStep \/ WeekDies]_weekvars,
         NEW i \in Images, times[i] > 0, times'[i] > times[i]
  PROVE  i \in unmarked /\ (recg.blind \/ recg.week # i)
<1>0. times' # times /\ times \in [Images -> 0..2]
      BY DEF WeekInv, RecgType
<1>1. SaveScheduleToDB
      BY <1>0 DEF WeekStep, RecgStep, weekvars, RecognizeStarts, ExtractImageURLs, CheckImageExists,
         Generate,
         ClearWeekly, MarkImageProcessed, GetWeeklySchedule, Announce, WeekDies
<1>2. recg.at = "save" /\ i \in recg.items
      BY <1>1 DEF SaveScheduleToDB, Saved, WeekInv, RecgType
<1>3. i \in unmarked
      BY <1>2 DEF WeekInv, Accounted, SentUnmarked, Inserted
<1>4. recg.blind \/ recg.week # i
      BY <1>2 DEF WeekInv, SeenNone, Working
<1> QED
      BY <1>3, <1>4
-----------------------------------------------------------------------------
\* The follower numbers.
Numbers == Moments \cup {NoRow}
OfDay(t, d) == Day(t) = d \/ (Day(t) > d /\ d \in crossed)

FetchType ==
  \/ fetch = Off
  \/ fetch \in [at : {"loop"}, today : Days, left : SUBSET Anchors]
  \/ fetch \in [at : {"upsert", "unlink"}, today : Days, left : SUBSET Anchors,
                of : Anchors, num : Moments]
NumType ==
  /\ now \in Moments
  /\ FetchType
  /\ row \in [Anchors -> [Days -> Numbers]]

\* The day of a run is the present one, or one that ended under it; so is that
\* of the number it holds.
TodayInv ==
  /\ fetch.at # "off" => /\ fetch.today <= Day(now)
                         /\ fetch.today < Day(now) => fetch.today \in crossed
  /\ fetch.at = "upsert" => OfDay(fetch.num, fetch.today)
\* No row is of a day to come.
RowInv ==
  \A a \in Anchors, d \in Days :
    row[a][d] # NoRow => d <= Day(now) /\ OfDay(row[a][d], d)

NumInv == NumType /\ TodayInv /\ RowInv

\* Between two runs the follower job is at rest.
LEMMA OffAt == Off.at = "off"
BY DEF Off
\* A moment is a number with a day, and not the mark of a missing row.
LEMMA MomentType == ASSUME NEW t \in Moments PROVE t \in Nat /\ t # NoRow /\ Day(t) \in Nat
BY ClockAssumption, DayGrows DEF Moments, NoRow
\* Days are numbers.
LEMMA DayType == ASSUME NEW d \in Days PROVE d \in Nat
BY DEF Days

\* No row and no entry at the start.
LEMMA NumInvInit == Init => NumInv
<1> SUFFICES ASSUME Init PROVE NumInv
    OBVIOUS
<1>1. NumType
      BY ClockAssumption DEF Init, NumInit, NumType, FetchType, Moments, Numbers
<1>2. TodayInv
      BY OffAt DEF Init, NumInit, TodayInv
<1>3. RowInv
      BY DEF Init, NumInit, RowInv
<1> QED
      BY <1>1, <1>2, <1>3 DEF NumInv

\* What a step that writes no row and stays within its moment has to keep.
LEMMA RowsStay ==
  ASSUME NumInv, UNCHANGED <<row, now, crossed>>, FetchType', TodayInv' PROVE NumInv'
BY DEF NumInv, NumType, RowInv, OfDay

\* Every step of the follower job and of its readers within one day.
LEMMA NumStepKeeps ==
  ASSUME NumInv, NumStep, now' = now PROVE NumInv'
<1>0. FetchType /\ now \in Moments /\ Day(now) \in Nat
      BY MomentType DEF NumInv, NumType
<1>1. CASE FetchStarts
  <2>1. FetchType'
        BY <1>0, <1>1, WeekOf DEF FetchStarts, FetchType, Loop
  <2>2. TodayInv'
        BY <1>0, <1>1 DEF FetchStarts, TodayInv, Loop
  <2> QED
        BY <1>1, <2>1, <2>2, RowsStay DEF FetchStarts
<1>2. CASE FetchUserRelation
  <2>1. /\ fetch.at = "loop" /\ fetch.today \in Days /\ fetch.left \subseteq Anchors
        /\ fetch.today \in Nat
        BY <1>0, <1>2, OffAt, DayType DEF FetchUserRelation, FetchType
  <2>2. OfDay(now, fetch.today)
        BY <1>0, <2>1 DEF NumInv, TodayInv, OfDay
  <2>3. PICK a \in fetch.left :
          \/ fetch' = Held("upsert", fetch.today, fetch.left \ {a}, a, now)
          \/ fetch' = Loop(fetch.today, fetch.left \ {a})
        BY <1>2 DEF FetchUserRelation
  <2>4. CASE fetch' = Held("upsert", fetch.today, fetch.left \ {a}, a, now)
    <3>1. FetchType'
          BY <1>0, <2>1, <2>4 DEF FetchType, Held
    <3>2. fetch'.today = fetch.today /\ fetch'.num = now
          BY <2>4 DEF Held
    <3>3. TodayInv'
          BY <1>2, <2>1, <2>2, <3>2 DEF NumInv, TodayInv, OfDay, FetchUserRelation
    <3> QED
          BY <1>2, <3>1, <3>3, RowsStay DEF FetchUserRelation
  <2>5. CASE fetch' = Loop(fetch.today, fetch.left \ {a})
    <3>1. FetchType'
          BY <2>1, <2>5 DEF FetchType, Loop
    <3>2. fetch'.today = fetch.today /\ fetch'.at = "loop"
          BY <2>5 DEF Loop
    <3>3. TodayInv'
          BY <1>2, <2>1, <3>2 DEF NumInv, TodayInv, FetchUserRelation
    <3> QED
          BY <1>2, <3>1, <3>3, RowsStay DEF FetchUserRelation
  <2> QED
        BY <2>3, <2>4, <2>5
<1>3. ASSUME fetch.at \in {"upsert", "unlink"}
      PROVE  /\ fetch.today \in Days /\ fetch.today \in Nat /\ fetch.left \subseteq Anchors
             /\ fetch.of \in Anchors /\ fetch.num \in Moments
             /\ fetch \in [at : {"upsert", "unlink"}, today : Days, left : SUBSET Anchors,
                          of : Anchors, num : Moments]
             /\ fetch.today <= Day(now)
             /\ fetch.today < Day(now) => fetch.today \in crossed
      BY <1>0, <1>3, OffAt, DayType DEF FetchType, NumInv, TodayInv
<1>4. ASSUME fetch.at \in {"upsert", "unlink"}, UNCHANGED <<row, crossed>>,
             fetch' = Loop(fetch.today, fetch.left)
      PROVE  NumInv'
  <2>1. FetchType'
        BY <1>3, <1>4 DEF FetchType, Loop
  <2>2. fetch'.today = fetch.today /\ fetch'.at = "loop"
        BY <1>4 DEF Loop
  <2>3. TodayInv'
        BY <1>3, <1>4, <2>2 DEF TodayInv
  <2> QED
        BY <1>4, <2>1, <2>3, RowsStay
<1>5. CASE Upsert
  <2>1. fetch.at = "upsert" /\ UNCHANGED crossed
        BY <1>5 DEF Upsert, UpsertOn
  <2>2. /\ row' = [row EXCEPT ![fetch.of][fetch.today] = fetch.num]
        /\ fetch' = [fetch EXCEPT !.at = "unlink"]
        BY <1>5 DEF Upsert, UpsertOn
  <2>3. row' \in [Anchors -> [Days -> Numbers]]
        BY <1>3, <2>1, <2>2 DEF NumInv, NumType, Numbers
  <2>4. /\ FetchType' /\ fetch'.at = "unlink" /\ fetch'.today = fetch.today
        BY <1>3, <2>1, <2>2 DEF FetchType
  <2>5. TodayInv'
        BY <1>3, <2>1, <2>4 DEF TodayInv
  <2>6. ASSUME NEW a \in Anchors, NEW d \in Days, row'[a][d] # NoRow
        PROVE  d <= Day(now) /\ OfDay(row'[a][d], d)
    <3>1. CASE a = fetch.of /\ d = fetch.today
      <4>1. row'[a][d] = fetch.num
            BY <1>3, <2>1, <2>2, <3>1 DEF NumInv, NumType
      <4> QED
            BY <1>3, <2>1, <3>1, <4>1 DEF NumInv, TodayInv
    <3>2. CASE ~(a = fetch.of /\ d = fetch.today)
      <4>1. row'[a][d] = row[a][d]
            BY <1>3, <2>1, <2>2, <3>2 DEF NumInv, NumType
      <4> QED
            BY <2>6, <4>1 DEF NumInv, RowInv
    <3> QED
          BY <3>1, <3>2
  <2>7. RowInv'
        BY <2>1, <2>6 DEF RowInv, OfDay
  <2> QED
        BY <1>0, <2>3, <2>4, <2>5, <2>7 DEF NumInv, NumType
<1>6. CASE UpsertFails
      BY <1>4, <1>6 DEF UpsertFails
<1>7. CASE Unlink
      BY <1>4, <1>7 DEF Unlink
<1>8. CASE FetchEnds
  <2>1. FetchType' /\ TodayInv'
        BY <1>8, OffAt DEF FetchEnds, FetchType, TodayInv
  <2> QED
        BY <1>8, <2>1, RowsStay DEF FetchEnds
<1>9. CASE Query
      BY <1>9 DEF Query, NumInv, NumType, FetchType, TodayInv, RowInv, OfDay
<1> QED
      BY <1>1, <1>2, <1>5, <1>6, <1>7, <1>8, <1>9 DEF NumStep, FetchStep
\* Time passes, perhaps over midnight, under a run.
LEMMA NumTickKeeps == ASSUME NumInv, Tick, NumTick PROVE NumInv'
<1>1. /\ now \in Nat /\ now' \in Moments /\ now' \in Nat
      /\ Day(now) \in Nat /\ Day(now') \in Nat /\ Day(now) <= Day(now')
      BY ClockAssumption, DayGrows DEF Tick, NumInv, NumType, Moments
<1>2. /\ UNCHANGED <<row, fetch>> /\ crossed \subseteq crossed'
      /\ fetch.at # "off" /\ Day(now') # Day(now) => Day(now) \in crossed'
      BY OffAt DEF NumTick
<1>3. NumType'
      BY <1>1, <1>2 DEF NumInv, NumType, FetchType
<1>4. fetch.at # "off" => fetch.today \in Nat
      BY OffAt, DayType DEF NumInv, NumType, FetchType
<1>5. TodayInv'
      BY <1>1, <1>2, <1>4 DEF NumInv, TodayInv, OfDay
<1>6. RowInv'
      BY <1>1, <1>2, DayType DEF NumInv, RowInv, OfDay
<1> QED
      BY <1>3, <1>5, <1>6 DEF NumInv

\* A crash loses the run and keeps the rows.
LEMMA NumDiesKeeps == ASSUME NumInv, NumDies, UNCHANGED now PROVE NumInv'
BY OffAt DEF NumDies, NumInv, NumType, FetchType, TodayInv, RowInv, OfDay

-----------------------------------------------------------------------------
\* The cached past numbers.  An answer agrees on every day from its first on:
\* those to come have no row yet.
Agrees(data, a) == \A d \in Days : Day(now) <= d + PastDays => data[d] = row[a][d]
Shaped(e) == e = Num!None \/ "raced" \in DOMAIN e
Sound(e, a) == e = Num!None \/ e.raced = TRUE \/ Agrees(e.data, a)

CacheType ==
  /\ DOMAIN numCache = NumKeys /\ DOMAIN numFill = NumKeys
  /\ \A k \in NumKeys : Shaped(numCache[k]) /\ Shaped(numFill[k])
PastInv ==
  /\ CacheType
  /\ \A a \in Anchors : /\ Unlinking(a) \/ Sound(numCache[PastKey(a)], a)
                        /\ Sound(numFill[PastKey(a)], a)

\* An entry a writer overtook stays an entry, and says so.
LEMMA RacedIs ==
  ASSUME NEW e, Shaped(e)
  PROVE  /\ Shaped(Num!Raced(e))
         /\ Num!Raced(e) = Num!None \/ Num!Raced(e).raced = TRUE
BY DEF Shaped, Num!Raced
\* What a fill stores.
LEMMA EntryIs ==
  ASSUME NEW data, NEW raced
  PROVE  /\ Shaped(Num!Entry(data, raced))
         /\ Num!Entry(data, raced).data = data
BY DEF Shaped, Num!Entry
\* The keys of the two reads differ, and belong to one anchor.
LEMMA KeysAre ==
  /\ \A a \in Anchors : PastKey(a) \in NumKeys /\ LatestKey(a) \in NumKeys
  /\ \A a, b \in Anchors : PastKey(a) # LatestKey(b) /\ (PastKey(a) = PastKey(b) => a = b)
BY FollowerAssumption DEF PastKey, LatestKey, NumKeys

\* What GetPast would read now agrees with the rows.
LEMMA PastAgrees == ASSUME NumInv, NEW a \in Anchors PROVE Agrees(PastRows(a), a)
BY MomentType, DayType, FollowerAssumption DEF NumInv, NumType, RowInv, Agrees, PastRows, InPast

\* A step that writes no row and touches no entry, when no key is being unlinked.
LEMMA PastStays ==
  ASSUME PastInv, UNCHANGED <<now, row, numCache, numFill>>, fetch.at # "unlink"
  PROVE  PastInv'
BY DEF PastInv, CacheType, Unlinking, Sound, Agrees

\* The upsert overtakes every fill under way.
LEMMA PastUpsert == ASSUME NumInv, PastInv, Upsert, UNCHANGED now PROVE PastInv'
<1>1. /\ fetch.at = "upsert" /\ UNCHANGED numCache
      /\ row' = [row EXCEPT ![fetch.of][fetch.today] = fetch.num]
      /\ fetch' = [fetch EXCEPT !.at = "unlink"]
      /\ numFill' = [k \in NumKeys |->
                        IF k \in {PastKey(fetch.of), LatestKey(fetch.of)}
                        THEN Num!Raced(numFill[k]) ELSE numFill[k]]
      BY DEF Upsert, UpsertOn
<1>2. /\ fetch.of \in Anchors
      /\ fetch \in [at : {"upsert", "unlink"}, today : Days, left : SUBSET Anchors,
                   of : Anchors, num : Moments]
      BY <1>1, OffAt DEF NumInv, NumType, FetchType
<1>3. fetch'.at = "unlink" /\ fetch'.of = fetch.of
      BY <1>1, <1>2
<1>4. CacheType'
      BY <1>1, RacedIs DEF PastInv, CacheType
<1>5. ASSUME NEW a \in Anchors
      PROVE  (Unlinking(a) \/ Sound(numCache[PastKey(a)], a))' /\ Sound(numFill[PastKey(a)], a)'
  <2>1. CASE a = fetch.of
    <3>1. numFill'[PastKey(a)] = Num!Raced(numFill[PastKey(a)])
          BY <1>1, <2>1, KeysAre
    <3>2. Sound(numFill[PastKey(a)], a)'
          BY <3>1, RacedIs, KeysAre DEF Sound, PastInv, CacheType
    <3>3. Unlinking(a)'
          BY <1>3, <2>1 DEF Unlinking
    <3> QED
          BY <3>2, <3>3
  <2>2. CASE a # fetch.of
    <3>1. numFill'[PastKey(a)] = numFill[PastKey(a)]
          BY <1>1, <1>2, <2>2, KeysAre
    <3>2. row'[a] = row[a]
          BY <1>1, <1>2, <2>2 DEF NumInv, NumType
    <3>3. ~Unlinking(a)
          BY <1>1 DEF Unlinking
    <3> QED
          BY <1>1, <3>1, <3>2, <3>3 DEF PastInv, Sound, Agrees
  <2> QED
        BY <2>1, <2>2
<1> QED
      BY <1>4, <1>5 DEF PastInv

\* The key of the past numbers is one that the job does clear.
LEMMA PastUnlink == ASSUME NumInv, PastInv, Unlink, UNCHANGED now PROVE PastInv'
<1>1. /\ fetch.at = "unlink" /\ UNCHANGED <<row, numFill>>
      /\ fetch' = Loop(fetch.today, fetch.left)
      BY DEF Unlink
<1>2. fetch.of \in Anchors
      BY <1>1, OffAt DEF NumInv, NumType, FetchType
<1>3. fetch'.at = "loop"
      BY <1>1 DEF Loop
<1>4. /\ CacheType'
      /\ \A k \in NumKeys : numCache'[k] \in {Num!None, numCache[k], Num!Raced(numCache[k])}
      BY <1>1, RacedIs DEF PastInv, CacheType, Unlink, Shaped
<1>5. numCache'[PastKey(fetch.of)] \in {Num!None, Num!Raced(numCache[PastKey(fetch.of)])}
      BY <1>2, KeysAre DEF Unlink, Unlinked
<1>6. ASSUME NEW a \in Anchors
      PROVE  Sound(numCache[PastKey(a)], a)' /\ Sound(numFill[PastKey(a)], a)'
  <2>1. Sound(numFill[PastKey(a)], a)'
        BY <1>1 DEF PastInv, Sound, Agrees
  <2>2. CASE a = fetch.of
        BY <1>5, <2>1, <2>2, RacedIs, KeysAre DEF Sound, PastInv, CacheType
  <2>3. CASE a # fetch.of
    <3>1. Sound(numCache[PastKey(a)], a)
          BY <1>1, <2>3 DEF PastInv, Unlinking
    <3>2. Sound(numCache[PastKey(a)], a)' <=> Sound(numCache'[PastKey(a)], a)
          BY <1>1 DEF Sound, Agrees
    <3>3. CASE numCache'[PastKey(a)] = numCache[PastKey(a)]
          BY <2>1, <3>1, <3>2, <3>3
    <3>4. CASE numCache'[PastKey(a)] \in {Num!None, Num!Raced(numCache[PastKey(a)])}
          BY <2>1, <3>2, <3>4, RacedIs, KeysAre DEF Sound, PastInv, CacheType
    <3> QED
          BY <1>4, <3>3, <3>4, KeysAre
  <2> QED
        BY <2>2, <2>3
<1> QED
      BY <1>1, <1>4, <1>6 DEF PastInv

\* A read, from the cache or through the database.
LEMMA PastQuery == ASSUME NumInv, PastInv, Query, UNCHANGED now PROVE PastInv'
<1>1. UNCHANGED <<row, fetch>>
      BY DEF Query
<1>2. ASSUME CacheType',
             \A a \in Anchors :
               /\ \/ numCache'[PastKey(a)] = numCache[PastKey(a)]
                  \/ numCache'[PastKey(a)] = numFill[PastKey(a)]
                  \/ numCache'[PastKey(a)] = Num!None
               /\ \/ numFill'[PastKey(a)] = numFill[PastKey(a)]
                  \/ numFill'[PastKey(a)] = Num!None
                  \/ numFill'[PastKey(a)] = Num!Entry(PastRows(a), FALSE)
      PROVE  PastInv'
  <2>1. ASSUME NEW a \in Anchors PROVE Sound(numFill[PastKey(a)], a)'
    <3>1. Sound(numFill[PastKey(a)], a)' <=> Sound(numFill'[PastKey(a)], a)
          BY <1>1 DEF Sound, Agrees
    <3>2. Sound(numFill[PastKey(a)], a) /\ Sound(Num!None, a)
          BY DEF PastInv, Sound
    <3>3. Sound(Num!Entry(PastRows(a), FALSE), a)
          BY PastAgrees, EntryIs DEF Sound
    <3> QED
          BY <1>2, <3>1, <3>2, <3>3
  <2>2. ASSUME NEW a \in Anchors PROVE (Unlinking(a) \/ Sound(numCache[PastKey(a)], a))'
        BY <1>1, <1>2 DEF PastInv, Sound, Agrees, Unlinking
  <2> QED
        BY <1>2, <2>1, <2>2 DEF PastInv
<1>3. ASSUME NEW a \in Anchors, GetPastFollowerNum(a) PROVE PastInv'
  <2>1. /\ UNCHANGED numCache
        /\ numFill' = [numFill EXCEPT ![PastKey(a)] = Num!Entry(PastRows(a), FALSE)]
        BY <1>3 DEF GetPastFollowerNum, Num!Miss
  <2>2. CacheType'
        BY <2>1, EntryIs DEF PastInv, CacheType
  <2> QED
        BY <1>2, <2>1, <2>2, KeysAre DEF PastInv, CacheType
<1>4. ASSUME NEW a \in Anchors, GetLatestFollowerNum(a) PROVE PastInv'
  <2>1. /\ UNCHANGED numCache
        /\ numFill' = [numFill EXCEPT ![LatestKey(a)] = Num!Entry(LatestRow(a), FALSE)]
        BY <1>4 DEF GetLatestFollowerNum, Num!Miss
  <2>2. CacheType'
        BY <2>1, EntryIs DEF PastInv, CacheType
  <2> QED
        BY <1>2, <2>1, <2>2, KeysAre DEF PastInv, CacheType
<1>5. ASSUME NEW k \in NumKeys, Num!CacheStep(k) PROVE PastInv'
  <2>1. CASE Num!Store(k)
        BY <1>2, <2>1, KeysAre DEF Num!Store, PastInv, CacheType, Shaped
  <2>2. CASE Num!StoreFails(k)
        BY <1>2, <2>2, KeysAre DEF Num!StoreFails, PastInv, CacheType, Shaped
  <2>3. CASE Num!Expire(k)
        BY <1>2, <2>3, KeysAre DEF Num!Expire, PastInv, CacheType, Shaped
  <2> QED
        BY <1>5, <2>1, <2>2, <2>3 DEF Num!CacheStep
<1> QED
      BY <1>3, <1>4, <1>5 DEF Query

\* Every step of the follower job and of its readers.
LEMMA PastStepKeeps == ASSUME NumInv, PastInv, NumStep, UNCHANGED now PROVE PastInv'
BY PastStays, PastUpsert, PastUnlink, PastQuery
   DEF NumStep, FetchStep, FetchStarts, FetchUserRelation, UpsertFails, FetchEnds, Off

\* A day that ends takes the oldest of the days out of sight.
LEMMA PastTick == ASSUME NumInv, PastInv, Tick, NumTick PROVE PastInv'
<1>1. Day(now) \in Nat /\ Day(now') \in Nat /\ Day(now) <= Day(now')
      BY ClockAssumption, DayGrows DEF Tick, NumInv, NumType, Moments
<1>2. \A a \in Anchors : \A data : Agrees(data, a) => Agrees(data, a)'
      BY <1>1, DayType, FollowerAssumption DEF Agrees, NumTick
<1> QED
      BY <1>2 DEF PastInv, CacheType, NumTick, Unlinking, Sound

\* A crash drops the fills and the run that would have unlinked.
LEMMA PastDies == ASSUME NumInv, PastInv, NumDies, UNCHANGED now PROVE PastInv'
<1>1. /\ UNCHANGED row /\ fetch' = Off
      /\ numFill' = [k \in NumKeys |-> Num!None]
      BY DEF NumDies
<1>2. fetch.at = "unlink" => fetch.of \in Anchors
      BY OffAt DEF NumInv, NumType, FetchType
<1>3. CacheType'
      BY <1>1, RacedIs DEF NumDies, PastInv, CacheType, Shaped
<1>4. ASSUME NEW a \in Anchors PROVE Sound(numCache[PastKey(a)], a)'
  <2>1. CASE Unlinking(a)
    <3>1. numCache'[PastKey(a)] = Num!Raced(numCache[PastKey(a)])
          BY <2>1, KeysAre DEF NumDies, Unlinking
    <3> QED
          BY <3>1, RacedIs, KeysAre DEF Sound, PastInv, CacheType
  <2>2. CASE ~Unlinking(a)
    <3>1. numCache'[PastKey(a)] = numCache[PastKey(a)]
          BY <1>2, <2>2, KeysAre DEF NumDies, Unlinking
    <3> QED
          BY <1>1, <2>2, <3>1 DEF PastInv, Sound, Agrees
  <2> QED
        BY <2>1, <2>2
<1>5. ASSUME NEW a \in Anchors PROVE Sound(numFill[PastKey(a)], a)'
      BY <1>1, KeysAre DEF Sound
<1> QED
      BY <1>3, <1>4, <1>5 DEF PastInv

-----------------------------------------------------------------------------
\* The cached schedule of a week.
PlanSound(e) == e = Plan!None \/ e.raced = TRUE \/ e.data = WeekRows(e.data.week)
PlanShaped(e) == e = Plan!None \/ "raced" \in DOMAIN e

PlanType ==
  /\ DOMAIN planCache = {"weekly"} /\ DOMAIN planFill = {"weekly"}
  /\ PlanShaped(planCache["weekly"]) /\ PlanShaped(planFill["weekly"])
PlanInv ==
  /\ PlanType
  /\ recg.at = "clear" \/ PlanSound(planCache["weekly"])
  /\ PlanSound(planFill["weekly"])

\* An overtaken entry claims nothing.
LEMMA PlanRaced ==
  ASSUME NEW e, PlanShaped(e)
  PROVE  /\ PlanShaped(Plan!Raced(e)) /\ PlanSound(Plan!Raced(e))
         /\ Plan!Raced(e) = Plan!None \/ Plan!Raced(e).raced = TRUE
BY DEF PlanShaped, PlanSound, Plan!Raced
\* What a fill stores is what the table holds.
LEMMA PlanEntry ==
  ASSUME NEW w
  PROVE  /\ PlanShaped(Plan!Entry(WeekRows(w), FALSE))
         /\ PlanSound(Plan!Entry(WeekRows(w), FALSE))
<1>1. Plan!Entry(WeekRows(w), FALSE).data = WeekRows(w)
      BY DEF Plan!Entry
<1>2. WeekRows(w).week = w
      BY DEF WeekRows
<1> QED
      BY <1>1, <1>2 DEF PlanShaped, PlanSound, Plan!Entry

\* Steps that touch neither the table nor the entry.
LEMMA PlanStays ==
  ASSUME PlanInv, UNCHANGED <<times, planCache, planFill>>, recg.at # "clear" \/ UNCHANGED recg
  PROVE  PlanInv'
BY DEF PlanInv, PlanType, PlanSound, WeekRows

\* Every step of the weekly job and of its readers.
LEMMA PlanStepKeeps == ASSUME WeekInv, PlanInv, WeekStep PROVE PlanInv'
<1>1. CASE SaveScheduleToDB
  <2>1. CASE recg' = Quiet /\ UNCHANGED <<times, planFill>>
        BY <1>1, <2>1, PlanStays DEF SaveScheduleToDB
  <2>2. CASE /\ recg' = [recg EXCEPT !.at = "clear"]
             /\ planFill' = [k \in {"weekly"} |-> Plan!Raced(planFill[k])]
    <3>1. recg \in Run
          BY <1>1, QuietAt DEF SaveScheduleToDB, WeekInv, RecgType
    <3>2. recg'.at = "clear"
          BY <2>2, <3>1 DEF Run
    <3>3. planFill'["weekly"] = Plan!Raced(planFill["weekly"]) /\ UNCHANGED planCache
          BY <1>1, <2>2 DEF SaveScheduleToDB
    <3>4. PlanType'
      <4>1. PlanShaped(planFill'["weekly"]) /\ PlanShaped(planCache'["weekly"])
            BY <3>3, PlanRaced DEF PlanInv, PlanType
      <4>2. DOMAIN planFill' = {"weekly"}
            BY <2>2
      <4> QED
            BY <3>3, <4>1, <4>2 DEF PlanInv, PlanType, PlanShaped
    <3>5. PlanSound(planFill["weekly"])'
      <4>1. planFill'["weekly"] = Plan!None \/ planFill'["weekly"].raced = TRUE
            BY <3>3, PlanRaced DEF PlanInv, PlanType
      <4> QED
            BY <4>1 DEF PlanSound
    <3> QED
          BY <3>2, <3>4, <3>5 DEF PlanInv
  <2> QED
        BY <1>1, <2>1, <2>2 DEF SaveScheduleToDB
<1>2. CASE ClearWeekly
  <2>1. UNCHANGED <<times, planFill>>
        BY <1>2 DEF ClearWeekly
  <2>2. /\ DOMAIN planCache' = {"weekly"}
        /\ planCache'["weekly"] \in {Plan!None, Plan!Raced(planCache["weekly"])}
        BY <1>2 DEF ClearWeekly, Plan!Invalidate, PlanInv, PlanType
  <2>3. PlanShaped(planCache["weekly"])' /\ PlanSound(planCache["weekly"])'
        BY <2>1, <2>2, PlanRaced DEF PlanInv, PlanType, PlanSound, PlanShaped, WeekRows
  <2> QED
        BY <2>1, <2>2, <2>3 DEF PlanInv, PlanType, PlanSound, WeekRows
<1>3. CASE GetWeeklySchedule
  <2>1. UNCHANGED <<times, recg>>
        BY <1>3 DEF GetWeeklySchedule
  <2>2. ASSUME NEW e, PlanSound(e) PROVE PlanSound(e)'
        BY <2>1, <2>2 DEF PlanSound, WeekRows
  <2>3. CASE Plan!Miss("weekly", WeekRows(Week(now)), FALSE)
        BY <2>1, <2>3, PlanEntry DEF Plan!Miss, PlanInv, PlanType, PlanSound, PlanShaped, WeekRows
  <2>4. CASE Plan!CacheStep("weekly")
        BY <2>1, <2>4 DEF Plan!CacheStep, Plan!Store, Plan!StoreFails, Plan!Expire, PlanInv, PlanType,
           PlanSound, PlanShaped, WeekRows
  <2> QED
        BY <1>3, <2>3, <2>4 DEF GetWeeklySchedule
<1> QED
      BY <1>1, <1>2, <1>3, PlanStays, QuietAt
         DEF WeekStep, RecgStep, RecognizeStarts, ExtractImageURLs, CheckImageExists, Generate,
             MarkImageProcessed, Announce

\* A crash between the insert and the clearing of the cache.
LEMMA PlanDies == ASSUME PlanInv, WeekDies PROVE PlanInv'
<1>1. UNCHANGED times /\ planFill' = [k \in {"weekly"} |-> Plan!None]
      BY DEF WeekDies
<1>2. /\ PlanShaped(planCache["weekly"])' /\ PlanSound(planCache["weekly"])'
      /\ DOMAIN planCache' = {"weekly"}
  <2>1. CASE recg.at = "clear"
    <3>1. planCache'["weekly"] = Plan!Raced(planCache["weekly"]) /\ DOMAIN planCache' = {"weekly"}
          BY <2>1 DEF WeekDies
    <3> QED
          BY <1>1, <3>1, PlanRaced DEF PlanInv, PlanType, PlanShaped, PlanSound, WeekRows
  <2>2. CASE recg.at # "clear"
    <3>1. planCache'["weekly"] = planCache["weekly"] /\ DOMAIN planCache' = {"weekly"}
          BY <2>2 DEF WeekDies
    <3> QED
          BY <1>1, <2>2, <3>1 DEF PlanInv, PlanType, PlanShaped, PlanSound, WeekRows
  <2> QED
        BY <2>1, <2>2
<1> QED
      BY <1>1, <1>2 DEF PlanInv, PlanType, PlanShaped, PlanSound

-----------------------------------------------------------------------------
(* The buckets of LTTB, for a series and a threshold of any length: what    *)
(* truncated division leaves of them.                                      *)

\* A bucket has room for a point, and as many buckets as there are fit in.
LEMMA DivisionTruncates ==
  ASSUME NEW m \in Nat, NEW d \in Nat, d > 0
  PROVE  m \div d \in Nat /\ d * (m \div d) <= m /\ m < d * ((m \div d) + 1)
BY SMTT(30)
\* Multiplication is monotone.
LEMMA TimesGrows ==
  ASSUME NEW i \in Nat, NEW j \in Nat, NEW s \in Nat, i <= j
  PROVE  i * s \in Nat /\ i * s <= j * s
BY SMTT(30)
\* One bucket further.
LEMMA NextTimes ==
  ASSUME NEW i \in Nat, NEW s \in Nat PROVE (i + 1) * s = i * s + s
BY SMTT(30)
\* The buckets are not empty, and the last one starts inside the series.
LEMMA SizeFits ==
  ASSUME NEW n \in Nat, NEW t \in Nat, t > 2, n > t
  PROVE  /\ Size(n, t) \in Nat /\ Size(n, t) >= 1
         /\ \A j \in 0..(t - 2) : j * Size(n, t) \in Nat /\ j * Size(n, t) <= n - 2
<1> DEFINE m == n - 2
           d == t - 2
           s == m \div d
<1>1. m \in Nat /\ d \in Nat /\ d > 0 /\ m >= d
      OBVIOUS
<1> HIDE DEF m, d
<1>2. s \in Nat /\ d * s <= m /\ m < d * (s + 1)
      BY <1>1, DivisionTruncates
<1>3. s >= 1
  <2>1. SUFFICES ASSUME s = 0 PROVE FALSE
        BY <1>2
  <2>2. d * (s + 1) = d
        BY <1>1, <2>1
  <2> QED
        BY <1>1, <1>2, <2>2
<1>4. ASSUME NEW j \in 0..d PROVE j * s \in Nat /\ j * s <= m
  <2>1. j \in Nat /\ j <= d
        BY <1>1
  <2>2. j * s \in Nat /\ j * s <= d * s
        BY <1>1, <1>2, <2>1, TimesGrows
  <2> QED
        BY <1>1, <1>2, <2>2
<1> QED
      BY <1>2, <1>3, <1>4 DEF Size, m, d

\* Bucket i begins behind the end of the one before, has a point, and ends within
\* the series.
LEMMA BucketFits ==
  ASSUME NEW n \in Nat, NEW t \in Nat, t > 2, n > t, NEW i \in Nat, i < t - 2
  PROVE  /\ Bucket(n, t, i) # {}
         /\ \A p \in Bucket(n, t, i) :
              p \in Nat /\ (i + 1) * Size(n, t) < p /\ p <= (i + 2) * Size(n, t) /\ p < n
<1> DEFINE s == Size(n, t)
           low == (i + 1) * s
           high == (i + 2) * s
<1>1. /\ s \in Nat /\ s >= 1
      /\ \A j \in 0..(t - 2) : j * s \in Nat /\ j * s <= n - 2
      BY SizeFits
<1>2. i + 1 \in 0..(t - 2) /\ i + 1 \in Nat
      OBVIOUS
<1>3. low \in Nat /\ low <= n - 2
      BY <1>1, <1>2
<1>4. high = low + s
  <2>1. ((i + 1) + 1) * s = (i + 1) * s + s
        BY <1>1, <1>2, NextTimes
  <2>2. (i + 1) + 1 = i + 2
        OBVIOUS
  <2> QED
        BY <2>1, <2>2
<1>5. Bucket(n, t, i) = (low + 1)..(Low(high + 1, n) - 1)
      BY DEF Bucket
<1> HIDE DEF s, low, high
<1>6. Low(high + 1, n) - 1 <= high /\ Low(high + 1, n) - 1 <= n - 1 /\ low + 1 <= Low(high + 1, n) - 1
      /\ Low(high + 1, n) \in Nat
      BY <1>1, <1>3, <1>4 DEF Low
<1>7. low + 1 \in Bucket(n, t, i)
      BY <1>3, <1>5, <1>6
<1>8. ASSUME NEW p \in Bucket(n, t, i) PROVE p \in Nat /\ low < p /\ p <= high /\ p < n
      BY <1>1, <1>3, <1>4, <1>5, <1>6
<1> QED
      BY <1>7, <1>8 DEF s, low, high

-----------------------------------------------------------------------------
Climbs(q) == \A i \in 1..(Len(q) - 1) : q[i] <= q[i + 1]
Below(q, n) == \A i \in 1..Len(q) : q[i] < n

ThinType ==
  /\ thin \in [at : {"none", "loop", "done"}, n : Nat, threshold : Nat, result : Seq(Nat)]
  /\ thin.threshold >= 2
\* The points so far climb, from the first point on, and stay behind the next
\* bucket.
LoopInv ==
  thin.at = "loop" =>
    /\ thin.n > thin.threshold
    /\ Len(thin.result) \in 1..(thin.threshold - 1)
    /\ thin.result[1] = 0
    /\ thin.threshold > 2 =>
         thin.result[Len(thin.result)] <= Len(thin.result) * Size(thin.n, thin.threshold)
DoneInv ==
  thin.at = "done" =>
    /\ Len(thin.result) = Low(thin.n, thin.threshold)
    /\ thin.n > 0 => thin.result[1] = 0 /\ thin.result[Len(thin.result)] = thin.n - 1
ThinInv == ThinType /\ LoopInv /\ DoneInv /\ Climbs(thin.result) /\ Below(thin.result, thin.n)

\* Between two calls nothing is claimed.
LEMMA NoSeriesInv == thin = NoSeries => ThinInv
BY DEF NoSeries, ThinInv, ThinType, LoopInv, DoneInv, Climbs, Below

\* A sequence that climbs goes on climbing with a point not before its last.
LEMMA AppendClimbs ==
  ASSUME NEW q \in Seq(Nat), NEW p \in Nat, NEW n \in Nat, p < n, Climbs(q), Below(q, n),
         Len(q) > 0, q[Len(q)] <= p
  PROVE  /\ Append(q, p) \in Seq(Nat) /\ Len(Append(q, p)) = Len(q) + 1
         /\ Append(q, p)[1] = q[1] /\ Append(q, p)[Len(q) + 1] = p
         /\ Climbs(Append(q, p)) /\ Below(Append(q, p), n)
BY DEF Climbs, Below
\* A call that begins.
LEMMA CallKeeps ==
  ASSUME NEW n \in Nat, NEW threshold \in Nat, DownsampleFollowerNum(n, threshold) PROVE ThinInv'
<1> DEFINE least == IF threshold < 2 THEN 2 ELSE threshold
           whole == [i \in 1..n |-> i - 1]
<1>1. least \in Nat /\ least >= 2
      OBVIOUS
<1>2. CASE n <= least
  <2>1. /\ thin'.at = "done" /\ thin'.n = n /\ thin'.threshold = least /\ thin'.result = whole
        /\ thin' = [at |-> "done", n |-> n, threshold |-> least, result |-> whole]
        BY <1>2 DEF DownsampleFollowerNum
  <2>2. whole \in Seq(Nat) /\ Len(whole) = n /\ Climbs(whole) /\ Below(whole, n)
        BY DEF Climbs, Below
  <2>3. n > 0 => whole[1] = 0 /\ whole[n] = n - 1
        OBVIOUS
  <2>4. Low(n, least) = n
        BY <1>1, <1>2 DEF Low
  <2>5. ThinType' /\ LoopInv'
        BY <1>1, <2>1, <2>2 DEF ThinType, LoopInv
  <2> QED
        BY <2>1, <2>2, <2>3, <2>4, <2>5 DEF ThinInv, DoneInv
<1>3. CASE n > least
  <2>1. /\ thin'.at = "loop" /\ thin'.n = n /\ thin'.threshold = least /\ thin'.result = <<0>>
        /\ thin' = [at |-> "loop", n |-> n, threshold |-> least, result |-> <<0>>]
        BY <1>1, <1>3 DEF DownsampleFollowerNum
  <2>2. <<0>> \in Seq(Nat) /\ Len(<<0>>) = 1 /\ <<0>>[1] = 0
        OBVIOUS
  <2>3. Climbs(<<0>>) /\ Below(<<0>>, n)
        BY <1>1, <1>3 DEF Climbs, Below
  <2>4. least > 2 => 0 <= 1 * Size(n, least)
        BY <1>1, <1>3, SizeFits
  <2>5. ThinType' /\ DoneInv'
        BY <1>1, <2>1, <2>2 DEF ThinType, DoneInv
  <2>6. LoopInv'
        BY <1>1, <1>3, <2>1, <2>2, <2>4 DEF LoopInv
  <2> QED
        BY <2>1, <2>3, <2>5, <2>6 DEF ThinInv
<1> QED
      BY <1>1, <1>2, <1>3

\* A turn of the loop, and what follows the last.
LEMMA TurnKeeps == ASSUME ThinInv, LTTB PROVE ThinInv'
<1> DEFINE q == thin.result
           n == thin.n
           t == thin.threshold
           k == Len(q)
<1>1. /\ thin \in [at : {"none", "loop", "done"}, n : Nat, threshold : Nat, result : Seq(Nat)]
      /\ thin.at = "loop" /\ n \in Nat /\ t \in Nat /\ t >= 2 /\ q \in Seq(Nat) /\ n > t
      /\ k \in 1..(t - 1) /\ q[1] = 0 /\ Climbs(q) /\ Below(q, n)
      /\ t > 2 => q[k] <= k * Size(n, t)
      BY DEF LTTB, ThinInv, ThinType, LoopInv
<1>2. q[k] \in Nat /\ q[k] < n
      BY <1>1 DEF Below
<1>3. CASE k - 1 < t - 2
  <2>1. PICK p \in Bucket(n, t, k - 1) : thin' = [thin EXCEPT !.result = Append(@, p)]
        BY <1>3 DEF LTTB
  <2>2. k - 1 \in Nat /\ t > 2
        BY <1>1, <1>3
  <2>3. /\ p \in Nat /\ ((k - 1) + 1) * Size(n, t) < p /\ p <= ((k - 1) + 2) * Size(n, t) /\ p < n
        BY <1>1, <1>3, <2>2, BucketFits
  <2>4. (k - 1) + 1 = k /\ (k - 1) + 2 = k + 1
        BY <1>1
  <2>5. Size(n, t) \in Nat /\ k * Size(n, t) \in Nat
    <3>1. k \in 0..(t - 2)
          BY <1>1, <1>3
    <3> QED
          BY <1>1, <2>2, <3>1, SizeFits
  <2>6. q[k] <= p /\ p <= (k + 1) * Size(n, t)
        BY <1>1, <1>2, <2>2, <2>3, <2>4, <2>5
  <2> DEFINE r == Append(q, p)
  <2>7. /\ r \in Seq(Nat) /\ Len(r) = k + 1 /\ r[1] = 0 /\ r[k + 1] = p /\ Climbs(r) /\ Below(r, n)
        BY <1>1, <2>3, <2>6, AppendClimbs
  <2>8. thin'.at = "loop" /\ thin'.n = n /\ thin'.threshold = t /\ thin'.result = r
        BY <1>1, <2>1
  <2>9. ThinType' /\ DoneInv'
        BY <1>1, <2>1, <2>7, <2>8 DEF ThinType, DoneInv
  <2>10. LoopInv'
        BY <1>1, <1>3, <2>2, <2>6, <2>7, <2>8 DEF LoopInv
  <2> QED
        BY <2>7, <2>8, <2>9, <2>10 DEF ThinInv
<1>4. CASE ~(k - 1 < t - 2)
  <2>1. thin' = [thin EXCEPT !.at = "done", !.result = Append(@, n - 1)]
        BY <1>4 DEF LTTB
  <2>2. k = t - 1 /\ n - 1 \in Nat /\ q[k] <= n - 1 /\ n - 1 < n
        BY <1>1, <1>2, <1>4
  <2> DEFINE r == Append(q, n - 1)
  <2>3. /\ r \in Seq(Nat) /\ Len(r) = k + 1 /\ r[1] = 0 /\ r[k + 1] = n - 1
        /\ Climbs(r) /\ Below(r, n)
        BY <1>1, <2>2, AppendClimbs
  <2>4. thin'.at = "done" /\ thin'.n = n /\ thin'.threshold = t /\ thin'.result = r
        BY <1>1, <2>1
  <2>5. Low(n, t) = k + 1
        BY <1>1, <2>2 DEF Low
  <2>6. ThinType' /\ LoopInv'
        BY <1>1, <2>1, <2>3, <2>4 DEF ThinType, LoopInv
  <2>7. DoneInv'
        BY <2>3, <2>4, <2>5 DEF DoneInv
  <2> QED
        BY <2>3, <2>4, <2>6, <2>7 DEF ThinInv
<1> QED
      BY <1>3, <1>4

\* Every step of a call of LTTB.
LEMMA ThinStepKeeps == ASSUME ThinInv, ThinStep PROVE ThinInv'
<1>1. ASSUME NEW n \in 0..MaxPoints, NEW threshold \in 0..MaxPoints,
             DownsampleFollowerNum(n, threshold)
      PROVE  ThinInv'
      BY <1>1, CallKeeps
<1>2. CASE thin' = NoSeries
  <2>1. thin' = NoSeries => ThinInv'
        BY DEF NoSeries, ThinInv, ThinType, LoopInv, DoneInv, Climbs, Below
  <2> QED
        BY <1>2, <2>1
<1> QED
      BY <1>1, <1>2, TurnKeeps DEF ThinStep

\* What the invariant says of the result.
LEMMA ThinInvThins == ThinInv => Thinned
<1> SUFFICES ASSUME ThinInv PROVE Thinned
    OBVIOUS
<1>1. ASSUME thin.at = "loop", Len(thin.result) - 1 < thin.threshold - 2
      PROVE  Bucket(thin.n, thin.threshold, Len(thin.result) - 1) # {}
  <2>1. /\ thin.n \in Nat /\ thin.threshold \in Nat /\ thin.n > thin.threshold
        /\ Len(thin.result) - 1 \in Nat /\ thin.threshold > 2
        BY <1>1 DEF ThinInv, ThinType, LoopInv
  <2> QED
        BY <1>1, <2>1, BucketFits
<1> QED
      BY <1>1 DEF ThinInv, DoneInv, Climbs, Below, Thinned

-----------------------------------------------------------------------------
IInv == WeekInv /\ NumInv /\ PastInv /\ PlanInv

\* The invariant holds at the start.
LEMMA InitIInv == Init => IInv
<1> SUFFICES ASSUME Init PROVE IInv
    OBVIOUS
<1>1. PastInv
      BY KeysAre DEF Init, NumInit, Num!CacheInit, PastInv, CacheType, Shaped, Sound
<1>2. PlanInv
      BY DEF Init, WeekInit, Plan!CacheInit, PlanInv, PlanType, PlanShaped, PlanSound
<1> QED
      BY <1>1, <1>2, WeekInvInit, NumInvInit DEF IInv

\* What does not touch a part keeps its invariant.
LEMMA NumUntouched ==
  ASSUME NumInv, PastInv, UNCHANGED <<now, numvars>> PROVE NumInv' /\ PastInv'
<1>1. NumInv'
      BY DEF numvars, NumInv, NumType, FetchType, TodayInv, RowInv, OfDay
<1>2. PastInv'
      BY DEF numvars, PastInv, CacheType, Unlinking, Sound, Agrees
<1> QED
      BY <1>1, <1>2
\* The weekly half rests on its own variables only.
LEMMA WeekUntouched ==
  ASSUME WeekInv, PlanInv, UNCHANGED weekvars PROVE WeekInv' /\ PlanInv'
<1>1. WeekInv'
      BY DEF weekvars, WeekInv, RecgType, SeenNone, Accounted, SentUnmarked
<1>2. PlanInv'
      BY PlanStays DEF weekvars
<1> QED
      BY <1>1, <1>2

\* The steps of the two jobs, of their readers and of the clock.
LEMMA StepIInv == IInv /\ [Next]_vars => IInv'
<1> SUFFICES ASSUME IInv, [Next]_vars PROVE IInv'
    OBVIOUS
<1>1. WeekInv /\ NumInv /\ PastInv /\ PlanInv /\ now \in Moments
      BY DEF IInv, NumInv, NumType
<1>2. CASE NumStep /\ UNCHANGED <<now, weekvars>>
      BY <1>1, <1>2, NumStepKeeps, PastStepKeeps, WeekUntouched DEF IInv
<1>3. CASE WeekStep /\ UNCHANGED <<now, numvars>>
      BY <1>1, <1>3, WeekStepKeeps, PlanStepKeeps, NumUntouched DEF IInv
<1>4. CASE UNCHANGED <<now, numvars, weekvars>>
      BY <1>1, <1>4, NumUntouched, WeekUntouched DEF IInv
<1>5. CASE ClockTicks
      BY <1>1, <1>5, NumTickKeeps, PastTick, WeekUntouched DEF ClockTicks, WeekTick, IInv
<1>6. CASE Restart
      BY <1>1, <1>6, NumDiesKeeps, PastDies, WeekDiesKeeps, PlanDies DEF Restart, IInv
<1> QED
      BY <1>2, <1>3, <1>4, <1>5, <1>6 DEF Next, Collect, vars

\* IInv is inductive.
LEMMA Invariance == Spec => []IInv
BY InitIInv, StepIInv, PTL DEF Spec

\* A cached answer about the past days agrees with the table on every day it may
\* still be asked for, unless an upsert overtook it or is about to clear it.
THEOREM PastAgreesWithTable == Spec => []PastStaleOnlyByRace
<1>1. IInv => PastStaleOnlyByRace
  <2> SUFFICES ASSUME IInv, NEW a \in Anchors, numCache[PastKey(a)] # Num!None,
                      ~numCache[PastKey(a)].raced, ~Unlinking(a), NEW d \in Days, InPast(d, now)
               PROVE  numCache[PastKey(a)].data[d] = row[a][d]
      BY DEF PastStaleOnlyByRace
  <2>1. Sound(numCache[PastKey(a)], a)
        BY DEF IInv, PastInv
  <2>2. numCache[PastKey(a)].raced # TRUE
        OBVIOUS
  <2> QED
        BY <2>1, <2>2 DEF Sound, Agrees, InPast
<1> QED
      BY <1>1, Invariance, PTL

\* A cached schedule shows the rows there are of its week, unless an insert
\* overtook it or is about to clear it.
THEOREM PlanAgreesWithTable == Spec => []PlanStaleOnlyByRace
<1>1. IInv => PlanStaleOnlyByRace
  <2> SUFFICES ASSUME IInv, planCache["weekly"] # Plan!None, ~planCache["weekly"].raced,
                      recg.at # "clear"
               PROVE  planCache["weekly"].data = WeekRows(planCache["weekly"].data.week)
      BY DEF PlanStaleOnlyByRace
  <2>1. planCache["weekly"].raced # TRUE
        OBVIOUS
  <2> QED
        BY <2>1 DEF IInv, PlanInv, PlanSound
<1> QED
      BY <1>1, Invariance, PTL

\* Every number is a number of the day it is recorded for, or of one after it if
\* the run was under way when that day ended.
THEOREM NumbersOfTheirDays == Spec => []NumberOfItsDay
<1>1. IInv => NumberOfItsDay
      BY DEF IInv, NumInv, RowInv, OfDay, NumberOfItsDay
<1> QED
      BY <1>1, Invariance, PTL

\* However often the process dies and whatever fails, the rows of an image are
\* inserted again only when both guards were broken.
THEOREM ImagesOnce == Spec => RecordedOnce
<1>1. ASSUME IInv, [Next]_vars
      PROVE  [\A i \in Images : times[i] > 0 /\ times'[i] > times[i] =>
                i \in unmarked /\ (recg.blind \/ recg.week # i)]_weekvars
  <2>1. [WeekStep \/ WeekDies]_weekvars
        BY <1>1 DEF Next, Collect, ClockTicks, WeekTick, Restart, vars, weekvars
  <2> QED
        BY <1>1, <2>1, InsertsOnce DEF IInv
<1> QED
      BY <1>1, Invariance, PTL DEF Spec, RecordedOnce
\* ThinInv is inductive by itself: a series depends on nothing else.
LEMMA ThinInvariance == Spec => []ThinInv
<1>1. Init => ThinInv
      BY NoSeriesInv DEF Init, ThinInit
<1>2. ThinInv /\ [Next]_vars => ThinInv'
  <2> SUFFICES ASSUME ThinInv, [Next]_vars PROVE ThinInv'
      OBVIOUS
  <2>1. CASE ThinStep
        BY <2>1, ThinStepKeeps
  <2>2. CASE thin' = NoSeries
    <3>1. thin' = NoSeries => ThinInv'
          BY DEF NoSeries, ThinInv, ThinType, LoopInv, DoneInv, Climbs, Below
    <3> QED
          BY <2>2, <3>1
  <2>3. CASE UNCHANGED thin
        BY <2>3 DEF ThinInv, ThinType, LoopInv, DoneInv, Climbs, Below
  <2> QED
        BY <2>1, <2>2, <2>3 DEF Next, Collect, ClockTicks, Restart, vars
<1> QED
      BY <1>1, <1>2, PTL DEF Spec

\* Whatever the length of a series and the threshold, the thinned series is as
\* long as asked for and keeps both ends and its order: no bucket is empty.
THEOREM SeriesThinned == Spec => []Thinned
BY ThinInvariance, ThinInvThins, PTL

\* The variables of the jobs, their caches and the fills of these.
JobsTypeOK ==
  /\ NumType /\ CacheType
  /\ RecgType /\ PlanType
  /\ ThinType
  /\ enabled \in Deployments
\* They keep their types, for any anchors, images, days and series.
THEOREM TypeCorrect == Spec => []JobsTypeOK
<1>1. Init => enabled \in Deployments
      BY DEF Init
<1>2. enabled \in Deployments /\ [Next]_vars => (enabled \in Deployments)'
      BY DEF Next, Collect, ClockTicks, Restart, vars
<1>3. IInv /\ ThinInv /\ enabled \in Deployments => JobsTypeOK
      BY DEF IInv, NumInv, PastInv, WeekInv, PlanInv, ThinInv, JobsTypeOK
<1> QED
      BY <1>1, <1>2, <1>3, Invariance, ThinInvariance, PTL DEF Spec

\* The jobs share the clock and the process, and nothing else: each behaves as if
\* it were alone in a process that may die.
THEOREM JobsStandApart == Spec => NumSpec /\ WeekSpec
<1>1. Init => now = 0 /\ NumInit /\ WeekInit
      BY DEF Init
<1>2. [Next]_vars => [NumNext]_<<now, numvars>>
      BY DEF Next, Collect, ClockTicks, Restart, NumNext, vars
<1>3. [Next]_vars => [WeekNext]_<<now, weekvars>>
      BY DEF Next, Collect, ClockTicks, Restart, WeekNext, vars
<1> QED
      BY <1>1, <1>2, <1>3, PTL DEF Spec, NumSpec, WeekSpec
=============================================================================
