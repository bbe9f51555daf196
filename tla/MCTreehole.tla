---------------------------- MODULE MCTreehole ----------------------------
(* Who is at work in one behaviour of TreeholeNavigation: TLC checks each   *)
(* crew, and so each interference, by itself.                               *)
EXTENDS TreeholeNavigation

CONSTANTS p1, p2

MCStaff == {p1, p2}
Crew(staff, subs_, roles, topics_, until) ==
  [staff |-> staff, subs |-> subs_, roles |-> roles, topics |-> topics_, until |-> until]
MCCrews ==
  { Crew({p1, p2}, {}, {"count"}, 2, 1),
    Crew({p1}, {}, {"job", "count"}, 1, 2),
    Crew({p1}, {}, {"job", "list"}, 1, 2),
    Crew({p1}, {1}, {"page"}, 1, 2),
    Crew({p1}, {1, 2}, {"walk"}, 1, 1) }
=============================================================================
