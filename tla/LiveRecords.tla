----------------------------- MODULE LiveRecords -----------------------------
(***************************************************************************)
(* What the live records promise to those who read them: a broadcast is    *)
(* recorded once, and an end is the end of the newest one that still runs. *)
(* Each is one atomic change of one room, and there is no other.           *)
(***************************************************************************)
EXTENDS Naturals

CONSTANTS Rooms, Keys, Times

VARIABLE records     \* records[r]: the broadcasts of room r

RecordsInit == records = [r \in Rooms |-> {}]

Running(rows) == {x \in rows : x.status = "living"}

Begin(r, key, t) ==
  /\ \A x \in records[r] : x.key # key
  /\ records' = [records EXCEPT ![r] =
       @ \cup {[key |-> key, start |-> t, status |-> "living", end |-> 0]}]

End(r, x, t) ==
  /\ \A y \in Running(records[r]) : y.start <= x.start
  /\ t >= x.start
  /\ records' = [records EXCEPT ![r] =
       (@ \ {x}) \cup {[x EXCEPT !.status = "ended", !.end = t]}]

RecordsNext ==
  \E r \in Rooms, t \in Times :
    \/ \E key \in Keys : Begin(r, key, t)
    \/ \E x \in Running(records[r]) : End(r, x, t)

RecordsSpec == RecordsInit /\ [][RecordsNext]_records

\* The end of a broadcast is final: nothing reopens it or moves its end.
EndedIsFinal ==
  [][\A r \in Rooms : \A x \in records[r] : x.status = "ended" => x \in records'[r]]_records
=============================================================================
