-------------------------------- MODULE Jobs --------------------------------
(***************************************************************************)
(* The process with the two jobs that collect data, each a goroutine of    *)
(* the scheduler (scheduler/base.go), next to the requests that read what  *)
(* they collect.  They share the clock and the process, which may die in   *)
(* the middle of either and starts again at once.                          *)
(***************************************************************************)
EXTENDS FollowerNum, WeekSchedule, Downsample

CONSTANT Deployments   \* sets of jobs a process is configured for

VARIABLE enabled       \* the jobs of this one; an anchor without the feature
                       \* "follower", or a process without ChatModel, has none;
                       \* "series" stands for callers of DownsampleFollowerNum

vars == <<now, numvars, weekvars, thin, enabled>>

Init ==
  /\ enabled \in Deployments
  /\ now = 0
  /\ NumInit
  /\ WeekInit
  /\ ThinInit

\* fetchFollowerNum and recognizeWeeklySchedule, whenever the scheduler starts
\* them, and the readers.  Data nobody collects is left out.
Collect ==
  \/ "follower" \in enabled /\ NumStep /\ UNCHANGED <<now, weekvars, thin, enabled>>
  \/ "schedule" \in enabled /\ WeekStep /\ UNCHANGED <<now, numvars, thin, enabled>>
  \/ "series" \in enabled /\ ThinStep /\ UNCHANGED <<now, numvars, weekvars, enabled>>
ClockTicks == Tick /\ NumTick /\ WeekTick /\ UNCHANGED <<thin, enabled>>
Restart == NumDies /\ WeekDies /\ thin' = NoSeries /\ UNCHANGED <<now, enabled>>

Next == Collect \/ ClockTicks \/ Restart
Spec == Init /\ [][Next]_vars
=============================================================================
