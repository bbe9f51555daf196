------------------------------ MODULE WSClient ------------------------------
(***************************************************************************)
(* The danmu WebSocket client of bilibili/ws.go: one connection per        *)
(* monitored room, a reader goroutine and a heartbeat goroutine per        *)
(* connection, and the reconnect chain that replaces a lost connection.    *)
(*                                                                         *)
(* A client's n-th established connection is its generation n: the socket, *)
(* the context, the reader and the heartbeat that Connect creates together *)
(* carry the same number.  0 stands for Go's nil.  Everything that runs    *)
(* under c.mu is one step; what another goroutine can do between two       *)
(* critical sections is a step of its own.                                 *)
(***************************************************************************)
EXTENDS Naturals

CONSTANTS Clients,    \* the WSClient objects, one per monitored room
          MaxRetry    \* WSClientConfig.MaxRetry; NewWSClient replaces <= 0 by 5

ASSUME MaxRetryAssumption == MaxRetry \in Nat \ {0}

VARIABLE client       \* client[c]: the fields of c and its goroutines

-----------------------------------------------------------------------------
\* A reader goroutine: the context it was given, the connection it loaded
\* from c.conn, and where in the loop of readMessages it stands.
Reader == [ctx : Nat, on : Nat, at : {"loop", "reading", "failed"}]

ClientState ==
  [conn    : Nat,             \* c.conn
   ctx     : Nat,             \* the context c.cancel cancels
   live    : SUBSET Nat,      \* contexts not cancelled yet
   open    : SUBSET Nat,      \* sockets this process has not closed
   broken  : SUBSET Nat,      \* open sockets that stopped delivering
   readers : SUBSET Reader,   \* running readMessages goroutines
   beats   : SUBSET Nat,      \* running heartbeat goroutines
   gens    : Nat,             \* connections established so far
   retry   : Nat,             \* c.retryCount
   closed  : BOOLEAN,         \* c.closed
   timers  : Nat,             \* armed time.AfterFunc timers
   failing : Nat,             \* timer callbacks between Connect's error and reconnect
   gaveUp  : BOOLEAN]         \* OnConnectionFailed has been due

NewClient ==
  [conn |-> 0, ctx |-> 0, live |-> {}, open |-> {}, broken |-> {},
   readers |-> {}, beats |-> {}, gens |-> 0, retry |-> 0, closed |-> FALSE,
   timers |-> 0, failing |-> 0, gaveUp |-> FALSE]

Init == client = [c \in Clients |-> NewClient]

Become(c, s) == client' = [client EXCEPT ![c] = s]

-----------------------------------------------------------------------------
(* The critical sections, as functions of a client's state.                *)

\* Close and forget the connection, cancel its context (Connect, reconnect).
\* Connect closes before it cancels, reconnect the other way round; no caller of
\* Connect finds a connection to close, so the order is not visible.
Teardown(s) ==
  [s EXCEPT !.open = @ \ {s.conn}, !.broken = @ \ {s.conn}, !.live = @ \ {s.ctx},
            !.conn = 0, !.ctx = 0]

\* Connect refuses a closed client before it touches anything.
MayConnect(s) == ~s.closed

\* Connect has torn down what there was and dialled: a new socket.
Dialled(s) ==
  LET g == s.gens + 1
  IN [Teardown(s) EXCEPT !.conn = g, !.open = @ \cup {g}]

\* Connect succeeds: with the socket come a context and the two goroutines.
Established(s) ==
  LET g == s.gens + 1
  IN [Dialled(s) EXCEPT !.ctx = g, !.gens = g, !.live = @ \cup {g}, !.beats = @ \cup {g},
        !.readers = @ \cup {[ctx |-> g, on |-> 0, at |-> "loop"]}]

\* reconnect: nothing on a closed client; otherwise one more retry is counted
\* and the old connection dropped, and either the budget is exhausted or a
\* timer is armed that will call Connect.
ReconnectOneMore(s) ==
  LET t == [Teardown(s) EXCEPT !.retry = @ + 1]
  IN IF s.closed THEN s
     ELSE IF t.retry > MaxRetry + 1 THEN [t EXCEPT !.gaveUp = TRUE]
     ELSE [t EXCEPT !.timers = @ + 1]
Reconnect(s) ==
  LET t == [Teardown(s) EXCEPT !.retry = @ + 1]
  IN IF s.closed THEN s
     ELSE IF t.retry > MaxRetry THEN [t EXCEPT !.gaveUp = TRUE]
     ELSE [t EXCEPT !.timers = @ + 1]

\* Connect returns an error: the client is closed, or it is dialled and the packet
\* of the authentication not made or not written, and the new socket closed and
\* forgotten again.  That is also the state a dial that failed leaves.
ConnectErrorReconnects(s) == IF MayConnect(s) THEN Reconnect(Teardown(s)) ELSE s
ConnectErrorLeaks(s) == IF MayConnect(s) THEN [Dialled(s) EXCEPT !.conn = 0] ELSE s
ConnectError(s) ==
  LET t == Dialled(s)
  IN IF MayConnect(s) THEN [t EXCEPT !.open = @ \ {t.conn}, !.conn = 0] ELSE s

\* Close: the flag, the context, the socket; c.conn keeps its value.
Closed(s) ==
  [s EXCEPT !.closed = TRUE, !.live = @ \ {s.ctx},
            !.open = @ \ {s.conn}, !.broken = @ \ {s.conn}]

-----------------------------------------------------------------------------
(* The steps of the goroutines.                                            *)

\* A client nobody has called Connect on with success: the only one that
\* initMonitorWS, the sole outside caller, passes to Connect.
Fresh(c) == client[c].gens = 0 /\ client[c].retry = 0

FirstConnectOK(c) ==
  /\ Fresh(c) /\ MayConnect(client[c])
  /\ Become(c, Established(client[c]))
FirstConnectFails(c) ==
  /\ Fresh(c)
  /\ Become(c, ConnectError(client[c]))

\* The timer callback calls Connect; on an error it goes on to reconnect, a
\* second critical section.
TimerConnects(c) ==
  LET s == [client[c] EXCEPT !.timers = @ - 1]
  IN /\ client[c].timers > 0
     /\ MayConnect(s)
     /\ Become(c, Established(s))
TimerForgetsFailure(c) ==
  LET s == [client[c] EXCEPT !.timers = @ - 1]
  IN client[c].timers > 0 /\ Become(c, ConnectError(s))
TimerFails(c) ==
  LET s == [client[c] EXCEPT !.timers = @ - 1, !.failing = @ + 1]
  IN client[c].timers > 0 /\ Become(c, ConnectError(s))
RetryAfterFailure(c) ==
  /\ client[c].failing > 0
  /\ Become(c, Reconnect([client[c] EXCEPT !.failing = @ - 1]))

\* Top of the loop of readMessages: load c.conn, stop when it is nil.
Replace(s, r, new) == [s EXCEPT !.readers = (@ \ {r}) \cup new]
ReaderLoads(c, r) ==
  LET s == client[c]
  IN /\ r.at = "loop"
     /\ Become(c, Replace(s, r, IF s.conn = 0 THEN {}
                     ELSE {[r EXCEPT !.on = s.conn, !.at = "reading"]}))
\* A packet arrives; its messages are handed to the dispatcher (LivePipeline).
ReaderReads(c, r) ==
  /\ r.at = "reading" /\ r.on \in client[c].open \ client[c].broken
  /\ Become(c, Replace(client[c], r, {[r EXCEPT !.at = "loop"]}))
\* ReadMessage fails: the peer dropped the socket, it was silent for a minute,
\* or this process closed it.
ReaderErrs(c, r) ==
  /\ r.at = "reading" /\ r.on \notin client[c].open \ client[c].broken
  /\ Become(c, Replace(client[c], r, {[r EXCEPT !.at = "failed"]}))
\* After an error the reader ends; it first calls reconnect unless its context
\* has been cancelled, which means somebody else took the connection down.
ReaderNeverReconnects(c, r) ==
  /\ r.at = "failed"
  /\ Become(c, Replace(client[c], r, {}))
ReaderEnds(c, r) ==
  LET s == Replace(client[c], r, {})
  IN /\ r.at = "failed"
     /\ Become(c, IF r.ctx \in s.live THEN Reconnect(s) ELSE s)

\* heartbeat returns when its context is cancelled, or when a tick finds the
\* client closed or without a connection.  A tick that writes a packet, and a
\* write error, which is only logged, change nothing here.
BeatEndsAnyTime(c, g) ==
  /\ g \in client[c].beats
  /\ Become(c, [client[c] EXCEPT !.beats = @ \ {g}])
BeatEndsOnNil(c, g) ==
  LET s == client[c]
  IN /\ g \in s.beats
     /\ s.conn = 0
     /\ Become(c, [s EXCEPT !.beats = @ \ {g}])
BeatEnds(c, g) ==
  LET s == client[c]
  IN /\ g \in s.beats
     /\ g \notin s.live \/ s.closed \/ s.conn = 0
     /\ Become(c, [s EXCEPT !.beats = @ \ {g}])

Close(c) == ~client[c].closed /\ Become(c, Closed(client[c]))

\* The network: an open socket stops delivering.
PeerDrops(c, g) ==
  /\ g \in client[c].open \ client[c].broken
  /\ Become(c, [client[c] EXCEPT !.broken = @ \cup {g}])

-----------------------------------------------------------------------------
ReaderStep(c) ==
  \E r \in client[c].readers :
    ReaderLoads(c, r) \/ ReaderReads(c, r) \/ ReaderErrs(c, r) \/ ReaderEnds(c, r)
TimerStep(c) == TimerConnects(c) \/ TimerFails(c) \/ RetryAfterFailure(c)
BeatStep(c) == \E g \in client[c].beats : BeatEnds(c, g)
\* What runs by itself once a client has been started.
Background(c) ==
  \/ TimerStep(c)
  \/ ReaderStep(c)
  \/ BeatStep(c)
  \/ \E g \in client[c].open : PeerDrops(c, g)

Next == \E c \in Clients : \/ FirstConnectOK(c)
                           \/ FirstConnectFails(c)
                           \/ Background(c)
                           \/ Close(c)

\* Goroutines are scheduled and timers fire.  A reader blocked in ReadMessage
\* returns within wsReadTimeout, so a broken connection is always noticed.
\* Nothing obliges the network, the caller of Connect or the closer.
GoroutineFairness ==
  \A c \in Clients : /\ WF_client(TimerStep(c))
                     /\ WF_client(ReaderStep(c))
                     /\ WF_client(BeatStep(c))

Spec == Init /\ [][Next]_client
FairSpec == Spec /\ GoroutineFairness

-----------------------------------------------------------------------------
(* Properties.                                                             *)

TypeOK == client \in [Clients -> ClientState]

\* The reader that would call reconnect on a read error.
Driving(s) == {r \in s.readers : r.ctx \in s.live}
\* Timer callbacks that will call Connect or reconnect.
Pending(s) == s.timers + s.failing

\* At most one goroutine may ever replace a client's connection: a reader
\* whose context is live, or one timer callback, never two of either and never
\* both.  Two of them would tear down each other's connection and spend the
\* retry budget twice (readMessages, reconnect, the AfterFunc callback).
SingleDriver ==
  \A c \in Clients :
    LET s == client[c]
    IN /\ Pending(s) <= 1
       /\ Pending(s) = 1 => Driving(s) = {}
       /\ \A r1, r2 \in Driving(s) : r1 = r2

\* A client that has been connected and is neither closed nor out of retries
\* is never left without a goroutine that will notice the loss of its
\* connection or replace it: no error path drops the chain.
NeverOrphaned ==
  \A c \in Clients :
    LET s == client[c]
    IN s.gens > 0 /\ ~s.closed /\ ~s.gaveUp => Pending(s) = 1 \/ Driving(s) # {}

\* The only socket not closed and the only context not cancelled are the
\* current ones, and Close leaves none, whatever was in flight when it ran.
NothingLeaks ==
  \A c \in Clients :
    LET s == client[c]
    IN /\ s.open \subseteq {s.conn} /\ s.live \subseteq {s.ctx}
       /\ s.closed => s.open = {} /\ s.live = {}

\* While the current connection is up its own heartbeat runs: without one the
\* server drops the connection, and no other goroutine would start one.
HeartbeatCovers ==
  \A c \in Clients : client[c].live \subseteq client[c].beats

\* The retry budget bounds the dials of a client over its whole life, and the
\* failure callback is due exactly when the budget is overdrawn.
RetryBudget ==
  \A c \in Clients :
    LET s == client[c]
    IN /\ s.gens + Pending(s) <= s.retry + 1
       /\ s.retry <= MaxRetry + 1
       /\ s.gaveUp <=> s.retry > MaxRetry

\* Once a client is closed all its goroutines end, timers included.
CloseQuiesces ==
  \A c \in Clients :
    client[c].closed ~> client[c].readers = {} /\ client[c].beats = {} /\ Pending(client[c]) = 0

\* A client's link as MonitorLink sees it.
LinkOf(s) ==
  [state |-> IF s.closed THEN "closed"
             ELSE IF s.gaveUp THEN "dead"
             ELSE IF Pending(s) > 0 THEN "backoff"
             ELSE IF s.conn # 0 THEN "up" ELSE "fresh",
   lost |-> s.retry]
Link == INSTANCE MonitorLink WITH link <- [c \in Clients |-> LinkOf(client[c])]

\* The clients implement the abstract link: a link is lost, counted, redialled
\* and given up one step at a time, a closed link stays closed, and a backoff
\* always ends in a link, a counted loss or a close.
ImplementsLink == Link!LinkSpec
=============================================================================
