------------------------------ MODULE JobClock ------------------------------
(***************************************************************************)
(* The clock the scheduled jobs look at, in moments of which some fall     *)
(* into one day, and of days some into one week (utils/time.go).  The time *)
(* only matters for the day and the week it is in.                         *)
(***************************************************************************)
EXTENDS Naturals

CONSTANTS MomentsOfDay, DaysOfWeek,  \* bound: 1440 and 7 and more in the code
          LastMoment                 \* bound: where the clock stops

ASSUME ClockAssumption ==
  /\ MomentsOfDay \in Nat \ {0} /\ DaysOfWeek \in Nat \ {0}
  /\ LastMoment \in Nat

VARIABLE now

Moments == 0..LastMoment
Day(t) == t \div MomentsOfDay
Week(t) == Day(t) \div DaysOfWeek
Days == 0..Day(LastMoment)
Weeks == 0..Week(LastMoment)

Tick == now < LastMoment /\ now' = now + 1
=============================================================================
