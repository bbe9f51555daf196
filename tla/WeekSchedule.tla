---------------------------- MODULE WeekSchedule ----------------------------
(***************************************************************************)
(* The weekly schedule of streams: a daily job that has a language model   *)
(* read it from the images of a bilibili page (ai/week_recg.go), and the   *)
(* cached query of the current week (services/anchor_live_schedule.go).    *)
(*                                                                         *)
(* An image announces the streams of one week and is named by it; what     *)
(* the model makes of it is rows of that week, or nothing.  The page keeps *)
(* the images of the weeks gone by, so two guards keep a schedule from     *)
(* being inserted again: the rows of the current week, in PostgreSQL, and  *)
(* the set of images processed, in Redis.                                  *)
(***************************************************************************)
EXTENDS JobClock, FiniteSets

VARIABLES page,       \* the images the page shows
          times,      \* times[i]: how often the rows of image i were inserted, 2 for more
          processed,  \* the Redis set ai:processed_images
          recg,       \* RecognizeScheduleFromURL
          planCache, planFill,
          unmarked    \* ghost: images inserted whose mark is missing or was not read

weekvars == <<page, times, processed, recg, planCache, planFill, unmarked>>

Images == Weeks
Plan == INSTANCE CacheData WITH Keys <- {"weekly"}, cached <- planCache, fill <- planFill

\* The job rests, or holds: the week it looked up and whether that query failed,
\* the images to send, and those the model found something on.
Quiet == [at |-> "quiet"]
Recg(at, week, blind, imgs, items) ==
  [at |-> at, week |-> week, blind |-> blind, imgs |-> imgs, items |-> items]

WeekInit ==
  /\ page = {}
  /\ times = [i \in Images |-> 0]
  /\ processed = {}
  /\ recg = Quiet
  /\ Plan!CacheInit
  /\ unmarked = {}

-----------------------------------------------------------------------------
(* RecognizeScheduleFromURL.                                               *)

\* hasWeekSchedule; a count that fails is taken for no.
HasWeekSchedule(week) == times[week] > 0
RecognizeStarts ==
  /\ recg = Quiet
  /\ \E blind \in BOOLEAN :
       /\ blind \/ ~HasWeekSchedule(Week(now))
       /\ recg' = Recg("extract", Week(now), blind, {}, {})
  /\ UNCHANGED <<page, times, processed, planCache, planFill, unmarked>>
\* A page that is not reached, or shows no image, ends the run.
ExtractImageURLs ==
  /\ recg.at = "extract"
  /\ \/ page # {} /\ recg' = [recg EXCEPT !.at = "check", !.imgs = page]
     \/ recg' = Quiet
  /\ UNCHANGED <<page, times, processed, planCache, planFill, unmarked>>

\* Without an answer of Redis, every image is taken for new.
CheckImageExists ==
  /\ recg.at = "check"
  /\ LET fresh == recg.imgs \ processed
     IN \/ /\ fresh # {}
           /\ recg' = [recg EXCEPT !.at = "generate", !.imgs = fresh]
           /\ UNCHANGED unmarked
        \/ fresh = {} /\ recg' = Quiet /\ UNCHANGED unmarked
        \/ /\ recg' = [recg EXCEPT !.at = "generate"]
           /\ unmarked' = unmarked \cup (recg.imgs \cap processed)
  /\ UNCHANGED <<page, times, processed, planCache, planFill>>

\* recognizeScheduleFromImages: the model fails, finds nothing, or finds the rows
\* of some of the images.
Generate ==
  /\ recg.at = "generate"
  /\ \/ recg' = Quiet
     \/ \E items \in SUBSET recg.imgs \ {{}} :
          recg' = [recg EXCEPT !.at = "save", !.items = items]
  /\ UNCHANGED <<page, times, processed, planCache, planFill, unmarked>>

\* saveScheduleToDB inserts all rows with one statement.
Saved(items) ==
  [i \in Images |-> IF i \in items /\ times[i] < 2 THEN times[i] + 1 ELSE times[i]]
SaveScheduleToDB ==
  /\ recg.at = "save"
  /\ \/ /\ times' = Saved(recg.items)
        /\ recg' = [recg EXCEPT !.at = "clear"]
        /\ planFill' = [k \in {"weekly"} |-> Plan!Raced(planFill[k])]
     \/ recg' = Quiet /\ UNCHANGED <<times, planFill>>
  /\ UNCHANGED <<page, processed, planCache, unmarked>>
ClearWeekly ==
  /\ recg.at = "clear"
  /\ Plan!Invalidate("weekly")
  /\ recg' = [recg EXCEPT !.at = "mark"]
  /\ UNCHANGED <<page, times, processed, planFill, unmarked>>

\* All images sent are marked, those that gave nothing too.  A failure leaves a
\* warning in the log.
MarkRecognisedLater ==
  /\ recg.at = "mark"
  /\ processed' = processed \cup (recg.imgs \ recg.items)
  /\ recg' = Quiet
  /\ UNCHANGED <<page, times, planCache, planFill, unmarked>>
MarkImageProcessed ==
  /\ recg.at = "mark"
  /\ \/ processed' = processed \cup recg.imgs /\ UNCHANGED unmarked
     \/ unmarked' = unmarked \cup recg.items /\ UNCHANGED processed
  /\ recg' = Quiet
  /\ UNCHANGED <<page, times, planCache, planFill>>

RecgStep ==
  \/ ExtractImageURLs \/ CheckImageExists \/ Generate
  \/ SaveScheduleToDB \/ ClearWeekly \/ MarkImageProcessed

-----------------------------------------------------------------------------
(* The query and the surroundings.                                         *)

\* GetWeeklySchedule, cached for an hour: the rows of the week WeekRange gives.
WeekRows(week) == [week |-> week, times |-> times[week]]
GetWeeklySchedule ==
  /\ \/ Plan!Miss("weekly", WeekRows(Week(now)), FALSE)
     \/ Plan!CacheStep("weekly")
  /\ UNCHANGED <<page, times, processed, recg, unmarked>>

\* The anchor announces a week, the present one or the next.
Announce ==
  /\ \E i \in Images \ page : i \in {Week(now), Week(now) + 1} /\ page' = page \cup {i}
  /\ UNCHANGED <<times, processed, recg, planCache, planFill, unmarked>>

WeekStep == RecognizeStarts \/ RecgStep \/ GetWeeklySchedule \/ Announce

WeekTick == UNCHANGED weekvars
WeekDies ==
  /\ recg' = Quiet
  /\ unmarked' = IF recg.at \in {"clear", "mark"} THEN unmarked \cup recg.items ELSE unmarked
  /\ planCache' = [k \in {"weekly"} |->
                     IF recg.at = "clear" THEN Plan!Raced(planCache[k]) ELSE planCache[k]]
  /\ planFill' = [k \in {"weekly"} |-> Plan!None]
  /\ UNCHANGED <<page, times, processed>>

WeekNext ==
  \/ WeekStep /\ UNCHANGED now
  \/ Tick /\ WeekTick
  \/ WeekDies /\ UNCHANGED now
WeekSpec == now = 0 /\ WeekInit /\ [][WeekNext]_<<now, weekvars>>

-----------------------------------------------------------------------------
(* Properties.                                                             *)

\* The rows of an image are inserted again only when both guards have failed:
\* the image was inserted without being marked, or its mark could not be read,
\* and the run looked up another week, or could not look it up.
RecordedOnce ==
  [][\A i \in Images : times[i] > 0 /\ times'[i] > times[i] =>
       i \in unmarked /\ (recg.blind \/ recg.week # i)]_weekvars

\* A cached schedule of the current week that no insert overtook shows the rows
\* there are, save while the job that inserted them is about to clear it.  An
\* entry made last week is served for up to an hour of this one.
PlanStaleOnlyByRace ==
  LET e == planCache["weekly"]
  IN e # Plan!None /\ ~e.raced /\ recg.at # "clear" =>
       e.data = WeekRows(e.data.week)
=============================================================================
