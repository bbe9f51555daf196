------------------------------ MODULE WSManager ------------------------------
(***************************************************************************)
(* The clients of module WSClient under their two owners: initMonitorWS,   *)
(* which creates and connects them once at start (scheduler/jobs.go), and  *)
(* the cleanup job, which closes and forgets those it finds without a      *)
(* connection (wsClientManager.RemoveAndClose, every 3 hours).             *)
(*                                                                         *)
(* Connect holds c.mu while it dials, for as long as the handshake may     *)
(* take; the cleanup job that waits for it meanwhile is a job that has not *)
(* come to c yet.                                                          *)
(***************************************************************************)
EXTENDS WSClient

CONSTANT MaxAttempts    \* rounds of initMonitorWS; 3 in the code

ASSUME MaxAttemptsAssumption == MaxAttempts \in Nat \ {0}

VARIABLES init,       \* initMonitorWS: phase, round, clients to connect, batch, successes
          managed,    \* WSManager.clients
          sweep       \* RemoveAndClose, which holds WSManager.mu while it runs

vars == <<client, init, managed, sweep>>

NoSweep == [running |-> FALSE, todo |-> {}, alive |-> {}, doomed |-> {}]

ManagerInit ==
  /\ Init
  /\ init = [phase |-> "create", round |-> 1, queue |-> {}, batch |-> {}, connected |-> {}]
  /\ managed = {}
  /\ sweep = NoSweep

-----------------------------------------------------------------------------
(* initMonitorWS.                                                          *)

\* A round that failed is followed by another, up to MaxAttempts.
NextRound ==
  IF init.round < MaxAttempts
  THEN [init EXCEPT !.phase = "create", !.round = @ + 1, !.batch = {}]
  ELSE [init EXCEPT !.phase = "failed", !.batch = {}]

\* CreateMonitorWSClients: a query or every room's host lookup failed.
CreateFails ==
  /\ init.phase = "create"
  /\ init' = NextRound
  /\ UNCHANGED <<client, managed, sweep>>
\* Some rooms got a client; the others were skipped with a log line.
CreateClients ==
  /\ init.phase = "create"
  /\ \E S \in SUBSET Clients \ {{}} :
       init' = [init EXCEPT !.phase = "connect", !.queue = S, !.batch = S,
                            !.connected = {}]
  /\ UNCHANGED <<client, managed, sweep>>

ConnectNext(c) ==
  /\ init.phase = "connect" /\ c \in init.queue
  /\ \/ /\ FirstConnectOK(c)
        /\ init' = [init EXCEPT !.queue = @ \ {c}, !.connected = @ \cup {c}]
     \/ /\ FirstConnectFails(c)
        /\ init' = [init EXCEPT !.queue = @ \ {c}]
  /\ UNCHANGED <<managed, sweep>>

\* One connected client is enough to keep the whole batch.
Enough == init.connected # {}
RoundFails ==
  /\ init.phase = "connect" /\ init.queue = {} /\ ~Enough
  /\ init' = NextRound
  /\ UNCHANGED <<client, managed, sweep>>
\* WSManager.Add takes the lock RemoveAndClose holds: the job puts back a list of
\* the clients it has looked at.
AddClientsUnlocked ==
  /\ init.phase = "connect" /\ init.queue = {} /\ Enough
  /\ managed' = managed \cup init.batch
  /\ init' = [init EXCEPT !.phase = "done", !.batch = {}]
  /\ UNCHANGED <<client, sweep>>
AddClients ==
  /\ init.phase = "connect" /\ init.queue = {} /\ Enough
  /\ ~sweep.running
  /\ managed' = managed \cup init.batch
  /\ init' = [init EXCEPT !.phase = "done", !.batch = {}]
  /\ UNCHANGED <<client, sweep>>

-----------------------------------------------------------------------------
(* RemoveAndClose.                                                         *)

\* The job comes whether there are clients yet or not.
SweepStarts ==
  /\ ~sweep.running
  /\ sweep' = [NoSweep EXCEPT !.running = TRUE, !.todo = managed]
  /\ UNCHANGED <<client, init, managed>>

\* IsConnected under c.mu.  The ping on a broken socket may or may not be
\* accepted by the kernel, so a broken connection can look alive.
LooksConnected(c) == ~client[c].closed /\ client[c].conn # 0
PingFails(c) == client[c].conn \in client[c].broken

SweepFindsAlive(c) ==
  /\ sweep.doomed = {} /\ c \in sweep.todo /\ LooksConnected(c)
  /\ sweep' = [sweep EXCEPT !.todo = @ \ {c}, !.alive = @ \cup {c}]
  /\ UNCHANGED <<client, init, managed>>
SweepFindsDead(c) ==
  /\ sweep.doomed = {} /\ c \in sweep.todo
  /\ ~LooksConnected(c) \/ PingFails(c)
  /\ sweep' = [sweep EXCEPT !.todo = @ \ {c}, !.doomed = {c}]
  /\ UNCHANGED <<client, init, managed>>
\* Close takes c.mu again: a timer may have reconnected c in between.
SweepCloses(c) ==
  /\ c \in sweep.doomed
  /\ Become(c, Closed(client[c]))
  /\ sweep' = [sweep EXCEPT !.doomed = {}]
  /\ UNCHANGED <<init, managed>>
SweepEndsKeepsList ==
  /\ sweep.running /\ sweep.todo = {} /\ sweep.doomed = {}
  /\ sweep' = NoSweep
  /\ UNCHANGED <<client, init, managed>>
SweepEnds ==
  /\ sweep.running /\ sweep.todo = {} /\ sweep.doomed = {}
  /\ managed' = sweep.alive
  /\ sweep' = NoSweep
  /\ UNCHANGED <<client, init>>

SweepStep ==
  \/ SweepEnds
  \/ \E c \in Clients : SweepFindsAlive(c) \/ SweepFindsDead(c) \/ SweepCloses(c)

InitStep ==
  \/ CreateFails \/ CreateClients \/ RoundFails \/ AddClients
  \/ \E c \in Clients : ConnectNext(c)

BackgroundStep(c) == Background(c) /\ UNCHANGED <<init, managed, sweep>>

ManagerNext ==
  InitStep \/ SweepStarts \/ SweepStep \/ \E c \in Clients : BackgroundStep(c)

ManagerSpec == ManagerInit /\ [][ManagerNext]_vars
\* The scheduler starts the job again and again, and a job that has begun runs to
\* its end.  Nothing obliges initMonitorWS, the clients or the network.
ManagerFairSpec == ManagerSpec /\ WF_vars(SweepStarts) /\ WF_vars(SweepStep)

-----------------------------------------------------------------------------
(* Properties.                                                             *)

\* Every client that runs is owned: by initMonitorWS until the batch is handed
\* over, then by the manager until it is closed.  A client outside both would
\* read and reconnect for ever without the cleanup job ever seeing it.
OwnedOrClosed ==
  \A c \in Clients :
    Fresh(c) \/ client[c].closed \/ c \in managed \/ c \in init.batch

\* Nobody is left to connect the client: its first Connect failed, which nobody
\* repeats, it has given up, or it is closed.
Lifeless(c) == Pending(client[c]) = 0 /\ Driving(client[c]) = {}
\* A managed client that has no life left is closed and forgotten in the end,
\* however it got there and whatever a job that was under way had found: it does
\* not come back, and no job takes it for connected.
LifelessIsDropped ==
  \A c \in Clients :
    c \in managed /\ Lifeless(c) ~> c \notin managed /\ client[c].closed

\* A client is closed by the cleanup job only when it can no longer come back
\* by itself: no reconnect of it is pending and it has no working connection.
CleanupSparesRecovering ==
  [][\A c \in Clients :
       client'[c].closed /\ ~client[c].closed =>
         Pending(client[c]) = 0 /\ client[c].open \subseteq client[c].broken]_vars
=============================================================================
