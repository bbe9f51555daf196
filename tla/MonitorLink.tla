----------------------------- MODULE MonitorLink -----------------------------
(***************************************************************************)
(* What a danmu client promises, seen from outside: the link of a          *)
(* monitored room is up, or being re-established, or given up after too    *)
(* many losses, or closed for good.                                        *)
(***************************************************************************)
EXTENDS Naturals

CONSTANTS Clients, MaxRetry

VARIABLE link     \* link[c]: the state of c's link and the losses it has had

LinkInit == link = [c \in Clients |-> [state |-> "fresh", lost |-> 0]]

Move(c, from, to) ==
  /\ link[c].state = from
  /\ link' = [link EXCEPT ![c].state = to]

\* A loss is counted; it starts a new attempt until MaxRetry are used up.
Lose(c, from) ==
  LET n == link[c].lost + 1
  IN /\ link[c].state = from
     /\ link' = [link EXCEPT ![c] =
                   [state |-> IF n > MaxRetry THEN "dead" ELSE "backoff", lost |-> n]]

Redial(c) == Move(c, "backoff", "up") \/ Lose(c, "backoff")
Shut(c) == /\ link[c].state # "closed"
           /\ link' = [link EXCEPT ![c].state = "closed"]

LinkStep(c) == Move(c, "fresh", "up") \/ Lose(c, "up") \/ Redial(c) \/ Shut(c)
LinkNext == \E c \in Clients : LinkStep(c)

\* Backoff always ends: in a link, in one more counted loss, or in a close.
LinkSpec ==
  LinkInit /\ [][LinkNext]_link /\ \A c \in Clients : WF_link(Redial(c))
=============================================================================
