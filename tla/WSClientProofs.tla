--------------------------- MODULE WSClientProofs ---------------------------
(***************************************************************************)
(* The safety properties of WSClient, for every set of clients and every   *)
(* retry budget.  The clients share nothing, so the inductive invariant is *)
(* a predicate Chain on the state of one of them: each critical section is *)
(* shown to keep it (the lemmas), then each step (the theorem).  The last  *)
(* section is about WSManager: initMonitorWS and the cleanup job take the  *)
(* clients through the same steps, and between them lose none.             *)
(***************************************************************************)
EXTENDS WSManager, TLAPS

\* The connection, its context and its reader come and go together, and a
\* reconnect is under way only when there is no connection.  The properties
\* alone are not inductive: they do not say that a reader belongs to the
\* current connection, nor that the budget is overdrawn only by a dead client.
Chain(s) ==
  /\ s.ctx = s.conn
  /\ s.conn # 0 => s.conn = s.gens /\ Pending(s) = 0 /\ ~s.gaveUp
  /\ s.open \subseteq {s.conn} \ {0}
  /\ s.broken \subseteq s.open
  /\ s.live \subseteq s.beats
  /\ s.live \subseteq {s.conn} \ {0}
  /\ s.closed => s.open = {} /\ s.live = {}
  /\ \A r \in s.readers : r.ctx = s.conn /\ r.ctx # 0
  /\ \A r1, r2 \in s.readers : r1 = r2
  /\ s.conn # 0 /\ ~s.closed => s.conn \in s.live /\ s.readers # {}
  /\ Pending(s) <= 1
  /\ s.conn = 0 /\ s.gens > 0 /\ ~s.closed /\ ~s.gaveUp => Pending(s) = 1
  /\ s.retry = 0 => Pending(s) = 0
  /\ s.gens + Pending(s) <= s.retry + 1
  /\ s.retry <= MaxRetry + 1
  /\ s.gaveUp <=> s.retry > MaxRetry
  /\ s.gaveUp => Pending(s) = 0

IInv == TypeOK /\ \A c \in Clients : Chain(client[c])

\* A new client satisfies the invariant.
LEMMA NewClientChain == NewClient \in ClientState /\ Chain(NewClient)
  BY MaxRetryAssumption DEF NewClient, ClientState, Chain, Pending

-----------------------------------------------------------------------------
(* What the critical sections do to each field.                            *)

\* Teardown forgets the connection and its context and leaves the rest.
LEMMA TeardownFields ==
  ASSUME NEW s \in ClientState
  PROVE  LET t == Teardown(s)
         IN /\ t \in ClientState
            /\ t.conn = 0 /\ t.ctx = 0
            /\ t.open = s.open \ {s.conn} /\ t.broken = s.broken \ {s.conn} /\ t.live = s.live \ {s.ctx}
            /\ t.readers = s.readers /\ t.beats = s.beats /\ t.gens = s.gens
            /\ t.retry = s.retry /\ t.closed = s.closed /\ t.gaveUp = s.gaveUp
            /\ t.timers = s.timers /\ t.failing = s.failing
  BY DEF Teardown, ClientState

\* Dialling tears down what there was and adds a socket.
LEMMA DialledFields ==
  ASSUME NEW s \in ClientState
  PROVE  LET t == Dialled(s)  g == s.gens + 1
         IN /\ t \in ClientState
            /\ t.conn = g /\ t.ctx = 0
            /\ t.open = (s.open \ {s.conn}) \cup {g}
            /\ t.broken = s.broken \ {s.conn} /\ t.live = s.live \ {s.ctx}
            /\ t.readers = s.readers /\ t.beats = s.beats /\ t.gens = s.gens
            /\ t.retry = s.retry /\ t.closed = s.closed /\ t.gaveUp = s.gaveUp
            /\ t.timers = s.timers /\ t.failing = s.failing
<1> DEFINE u == Teardown(s)
           g == s.gens + 1
<1>1. /\ u \in ClientState
      /\ u.conn = 0 /\ u.ctx = 0
      /\ u.open = s.open \ {s.conn} /\ u.broken = s.broken \ {s.conn} /\ u.live = s.live \ {s.ctx}
      /\ u.readers = s.readers /\ u.beats = s.beats /\ u.gens = s.gens
      /\ u.retry = s.retry /\ u.closed = s.closed /\ u.gaveUp = s.gaveUp
      /\ u.timers = s.timers /\ u.failing = s.failing
  BY TeardownFields
<1>2. g \in Nat
  BY DEF ClientState
<1>3. Dialled(s) = [u EXCEPT !.conn = g, !.open = @ \cup {g}]
  BY DEF Dialled
<1> DEFINE t == [u EXCEPT !.conn = g, !.open = @ \cup {g}]
<1> HIDE DEF u, g
<1>4. /\ t \in ClientState
      /\ t.conn = g /\ t.ctx = 0
      /\ t.open = (s.open \ {s.conn}) \cup {g}
      /\ t.broken = s.broken \ {s.conn} /\ t.live = s.live \ {s.ctx}
      /\ t.readers = s.readers /\ t.beats = s.beats /\ t.gens = s.gens
      /\ t.retry = s.retry /\ t.closed = s.closed /\ t.gaveUp = s.gaveUp
      /\ t.timers = s.timers /\ t.failing = s.failing
  BY <1>1, <1>2 DEF ClientState
<1> HIDE DEF t
<1>5. QED
  BY <1>3, <1>4 DEF g, t

\* A successful Connect numbers everything it creates with the next generation.
LEMMA EstablishedFields ==
  ASSUME NEW s \in ClientState
  PROVE  LET t == Established(s)  g == s.gens + 1
         IN /\ t \in ClientState
            /\ t.conn = g /\ t.ctx = g /\ t.gens = g
            /\ t.open = (s.open \ {s.conn}) \cup {g}
            /\ t.broken = s.broken \ {s.conn}
            /\ t.live = (s.live \ {s.ctx}) \cup {g}
            /\ t.beats = s.beats \cup {g}
            /\ t.readers = s.readers \cup {[ctx |-> g, on |-> 0, at |-> "loop"]}
            /\ t.retry = s.retry /\ t.closed = s.closed /\ t.gaveUp = s.gaveUp
            /\ t.timers = s.timers /\ t.failing = s.failing
<1> DEFINE u == Dialled(s)
           g == s.gens + 1
           r == [ctx |-> g, on |-> 0, at |-> "loop"]
<1>1. /\ u \in ClientState
      /\ u.conn = g /\ u.open = (s.open \ {s.conn}) \cup {g}
      /\ u.broken = s.broken \ {s.conn} /\ u.live = s.live \ {s.ctx}
      /\ u.readers = s.readers /\ u.beats = s.beats /\ u.gens = s.gens
      /\ u.retry = s.retry /\ u.closed = s.closed /\ u.gaveUp = s.gaveUp
      /\ u.timers = s.timers /\ u.failing = s.failing
  BY DialledFields
<1>2. r \in Reader /\ g \in Nat
  BY DEF Reader, ClientState
<1>3. Established(s) = [u EXCEPT !.ctx = g, !.gens = g, !.live = @ \cup {g},
        !.beats = @ \cup {g}, !.readers = @ \cup {r}]
  BY DEF Established
<1> DEFINE t == [u EXCEPT !.ctx = g, !.gens = g, !.live = @ \cup {g},
        !.beats = @ \cup {g}, !.readers = @ \cup {r}]
<1> HIDE DEF u, g, r
<1>4. /\ t \in ClientState
      /\ t.conn = g /\ t.ctx = g /\ t.gens = g
      /\ t.open = (s.open \ {s.conn}) \cup {g}
      /\ t.broken = s.broken \ {s.conn}
      /\ t.live = (s.live \ {s.ctx}) \cup {g}
      /\ t.beats = s.beats \cup {g}
      /\ t.readers = s.readers \cup {r}
      /\ t.retry = s.retry /\ t.closed = s.closed /\ t.gaveUp = s.gaveUp
      /\ t.timers = s.timers /\ t.failing = s.failing
  BY <1>1, <1>2 DEF ClientState
<1> HIDE DEF t
<1>5. QED
  BY <1>3, <1>4 DEF g, r, t

\* A Connect that fails leaves a closed client alone, and any other without a
\* connection: of the sockets that were open neither the old one nor the one it
\* dialled is left.
LEMMA ConnectErrorFields ==
  ASSUME NEW s \in ClientState
  PROVE  LET t == ConnectError(s)
         IN /\ t \in ClientState
            /\ s.closed => t = s
            /\ ~s.closed => /\ t.conn = 0 /\ t.ctx = 0
                            /\ t.open = s.open \ {s.conn, s.gens + 1}
                            /\ t.broken = s.broken \ {s.conn} /\ t.live = s.live \ {s.ctx}
            /\ t.readers = s.readers /\ t.beats = s.beats /\ t.gens = s.gens
            /\ t.retry = s.retry /\ t.closed = s.closed /\ t.gaveUp = s.gaveUp
            /\ t.timers = s.timers /\ t.failing = s.failing
<1> DEFINE u == Dialled(s)
           g == s.gens + 1
<1>1. /\ u \in ClientState
      /\ u.conn = g /\ u.ctx = 0 /\ u.open = (s.open \ {s.conn}) \cup {g}
      /\ u.broken = s.broken \ {s.conn} /\ u.live = s.live \ {s.ctx}
      /\ u.readers = s.readers /\ u.beats = s.beats /\ u.gens = s.gens
      /\ u.retry = s.retry /\ u.closed = s.closed /\ u.gaveUp = s.gaveUp
      /\ u.timers = s.timers /\ u.failing = s.failing
  BY DialledFields
<1>2. ConnectError(s) = IF s.closed THEN s ELSE [u EXCEPT !.open = @ \ {u.conn}, !.conn = 0]
  BY DEF ConnectError, MayConnect
<1> HIDE DEF u
<1>3. CASE s.closed
  BY <1>2, <1>3
<1>4. CASE ~s.closed
  <2> DEFINE t == [u EXCEPT !.open = @ \ {u.conn}, !.conn = 0]
  <2>1. /\ t \in ClientState
        /\ t.conn = 0 /\ t.ctx = 0 /\ t.open = u.open \ {g}
        /\ t.broken = s.broken \ {s.conn} /\ t.live = s.live \ {s.ctx}
        /\ t.readers = s.readers /\ t.beats = s.beats /\ t.gens = s.gens
        /\ t.retry = s.retry /\ t.closed = s.closed /\ t.gaveUp = s.gaveUp
        /\ t.timers = s.timers /\ t.failing = s.failing
    BY <1>1 DEF ClientState
  <2>2. u.open \ {g} = s.open \ {s.conn, g}
    BY <1>1
  <2>3. ConnectError(s) = t
    BY <1>2, <1>4
  <2> HIDE DEF t
  <2>4. QED
    BY <1>4, <2>1, <2>2, <2>3
<1>5. QED
  BY <1>3, <1>4

\* reconnect spends one retry and arms one timer, or gives up; a closed client
\* is left as it is.
LEMMA ReconnectFields ==
  ASSUME NEW s \in ClientState, ~s.closed
  PROVE  LET t == Reconnect(s)
         IN /\ t \in ClientState
            /\ t.conn = 0 /\ t.ctx = 0 /\ t.retry = s.retry + 1
            /\ t.open = s.open \ {s.conn} /\ t.broken = s.broken \ {s.conn} /\ t.live = s.live \ {s.ctx}
            /\ t.readers = s.readers /\ t.beats = s.beats /\ t.gens = s.gens
            /\ t.closed = s.closed /\ t.failing = s.failing
            /\ s.retry + 1 > MaxRetry => t.gaveUp /\ t.timers = s.timers
            /\ ~(s.retry + 1 > MaxRetry) =>
                 t.gaveUp = s.gaveUp /\ t.timers = s.timers + 1
<1> DEFINE u == Teardown(s)
           v == [u EXCEPT !.retry = @ + 1]
<1>1. /\ u \in ClientState
      /\ u.conn = 0 /\ u.ctx = 0
      /\ u.open = s.open \ {s.conn} /\ u.broken = s.broken \ {s.conn} /\ u.live = s.live \ {s.ctx}
      /\ u.readers = s.readers /\ u.beats = s.beats /\ u.gens = s.gens
      /\ u.retry = s.retry /\ u.closed = s.closed /\ u.gaveUp = s.gaveUp
      /\ u.timers = s.timers /\ u.failing = s.failing
  BY TeardownFields
<1>2. Reconnect(s) = IF v.retry > MaxRetry THEN [v EXCEPT !.gaveUp = TRUE]
                     ELSE [v EXCEPT !.timers = @ + 1]
  BY DEF Reconnect
<1> HIDE DEF u
<1>3. /\ v \in ClientState
      /\ v.conn = 0 /\ v.ctx = 0 /\ v.retry = s.retry + 1
      /\ v.open = s.open \ {s.conn} /\ v.broken = s.broken \ {s.conn} /\ v.live = s.live \ {s.ctx}
      /\ v.readers = s.readers /\ v.beats = s.beats /\ v.gens = s.gens
      /\ v.closed = s.closed /\ v.gaveUp = s.gaveUp
      /\ v.timers = s.timers /\ v.failing = s.failing
  BY <1>1 DEF ClientState
<1> HIDE DEF v
<1>4. CASE v.retry > MaxRetry
  BY <1>2, <1>3, <1>4 DEF ClientState
<1>5. CASE ~(v.retry > MaxRetry)
  BY <1>2, <1>3, <1>5 DEF ClientState
<1>6. QED
  BY <1>4, <1>5

-----------------------------------------------------------------------------
(* The critical sections keep Chain where their callers call them.         *)

\* Connecting a client that has no connection, no reader and nothing pending.
LEMMA EstablishedChain ==
  ASSUME NEW s \in ClientState, ~s.closed, s.conn = 0, s.ctx = 0, s.readers = {},
         s.open = {}, s.broken = {}, s.live = {}, Pending(s) = 0, ~s.gaveUp,
         s.gens + 1 <= s.retry + 1, s.retry <= MaxRetry
  PROVE  Established(s) \in ClientState /\ Chain(Established(s))
<1> DEFINE t == Established(s)
<1>1. /\ t \in ClientState
      /\ t.conn = s.gens + 1 /\ t.ctx = s.gens + 1 /\ t.gens = s.gens + 1
      /\ t.open = {s.gens + 1} /\ t.broken = {} /\ t.live = {s.gens + 1}
      /\ t.beats = s.beats \cup {s.gens + 1}
      /\ t.readers = {[ctx |-> s.gens + 1, on |-> 0, at |-> "loop"]}
      /\ t.retry = s.retry /\ t.closed = s.closed /\ t.gaveUp = s.gaveUp
      /\ t.timers = s.timers /\ t.failing = s.failing
  BY EstablishedFields
<1> HIDE DEF t
<1>2. Chain(t)
  BY <1>1, MaxRetryAssumption DEF Chain, Pending, ClientState
<1>3. QED
  BY <1>1, <1>2 DEF t

\* reconnect on an open client without another reconnect pending.
LEMMA ReconnectChain ==
  ASSUME NEW s \in ClientState, ~s.closed, s.readers = {},
         s.open \subseteq {s.conn}, s.broken \subseteq s.open, s.live \subseteq {s.ctx},
         Pending(s) = 0, ~s.gaveUp, s.gens <= s.retry + 1, s.retry <= MaxRetry
  PROVE  Reconnect(s) \in ClientState /\ Chain(Reconnect(s))
<1> DEFINE t == Reconnect(s)
<1>1. /\ t \in ClientState
      /\ t.conn = 0 /\ t.ctx = 0 /\ t.retry = s.retry + 1
      /\ t.open = {} /\ t.broken = {} /\ t.live = {}
      /\ t.readers = {} /\ t.beats = s.beats /\ t.gens = s.gens
      /\ t.closed = s.closed /\ t.failing = s.failing
      /\ s.retry + 1 > MaxRetry => t.gaveUp /\ t.timers = s.timers
      /\ ~(s.retry + 1 > MaxRetry) =>
           t.gaveUp = s.gaveUp /\ t.timers = s.timers + 1
  BY ReconnectFields
<1> HIDE DEF t
<1>2. Chain(t)
  BY <1>1, MaxRetryAssumption DEF Chain, Pending, ClientState
<1>3. QED
  BY <1>1, <1>2 DEF t

-----------------------------------------------------------------------------
(* Each step moves its client to a state that satisfies Chain.             *)

\* The result of a step of client c that keeps the invariant.
KeepsChain(c) == \E t \in ClientState : Chain(t) /\ Become(c, t)

\* The first Connect, from initMonitorWS.
LEMMA ConnectSteps ==
  ASSUME IInv, NEW c \in Clients, FirstConnectOK(c) \/ FirstConnectFails(c)
  PROVE  KeepsChain(c)
<1> DEFINE s == client[c]
<1>1. s \in ClientState /\ Chain(s)
  BY DEF IInv, TypeOK
<1> HIDE DEF s
<1>2. ASSUME s.gens = 0, s.retry = 0
      PROVE  /\ s.conn = 0 /\ s.ctx = 0 /\ s.readers = {} /\ Pending(s) = 0
             /\ s.open = {} /\ s.broken = {} /\ s.live = {} /\ ~s.gaveUp
             /\ s.gens + 1 <= s.retry + 1 /\ s.retry <= MaxRetry
  BY <1>1, <1>2, MaxRetryAssumption DEF Chain, ClientState
<1>3. CASE FirstConnectOK(c)
  <2>1. ~s.closed /\ s.gens = 0 /\ s.retry = 0 /\ Become(c, Established(s))
    BY <1>3 DEF FirstConnectOK, Fresh, MayConnect, s
  <2>2. QED
    BY <1>1, <1>2, <2>1, EstablishedChain DEF KeepsChain
<1>4. CASE FirstConnectFails(c)
  <2>1. s.gens = 0 /\ s.retry = 0 /\ Become(c, ConnectError(s))
    BY <1>4 DEF FirstConnectFails, Fresh, s
  <2>2. CASE s.closed
    BY <1>1, <2>1, <2>2 DEF KeepsChain, ConnectError, MayConnect
  <2>3. CASE ~s.closed
    <3> DEFINE t == ConnectError(s)
    <3>1. /\ t \in ClientState
          /\ t.conn = 0 /\ t.ctx = 0
          /\ t.open = {} /\ t.broken = {} /\ t.live = {}
          /\ t.readers = s.readers /\ t.beats = s.beats /\ t.gens = s.gens
          /\ t.retry = s.retry /\ t.closed = s.closed /\ t.gaveUp = s.gaveUp
          /\ t.timers = s.timers /\ t.failing = s.failing
      BY <1>1, <1>2, <2>1, <2>3, ConnectErrorFields
    <3>2. Become(c, t)
      BY <2>1
    <3> HIDE DEF t
    <3>3. Chain(t)
      BY <1>1, <1>2, <2>1, <3>1 DEF Chain, Pending
    <3>4. QED
      BY <3>1, <3>2, <3>3 DEF KeepsChain
  <2>4. QED
    BY <2>2, <2>3
<1>5. QED
  BY <1>3, <1>4

\* A reconnect timer, whichever way its Connect ends.
LEMMA TimerSteps ==
  ASSUME IInv, NEW c \in Clients, TimerStep(c)
  PROVE  KeepsChain(c)
<1> DEFINE s == client[c]
<1>1. s \in ClientState /\ Chain(s)
  BY DEF IInv, TypeOK
<1> HIDE DEF s
<1>n. /\ s.gens \in Nat /\ s.retry \in Nat /\ s.timers \in Nat /\ s.failing \in Nat
      /\ s.closed \in BOOLEAN /\ s.gaveUp \in BOOLEAN
  BY <1>1 DEF ClientState
\* With a reconnect pending there is no connection and nobody reading one.
<1>2. ASSUME s.timers > 0 \/ s.failing > 0
      PROVE  /\ s.conn = 0 /\ s.ctx = 0 /\ s.readers = {} /\ s.open = {} /\ s.broken = {} /\ s.live = {}
             /\ ~s.gaveUp /\ s.retry <= MaxRetry /\ s.timers + s.failing = 1
             /\ s.gens <= s.retry /\ s.retry # 0
  BY <1>1, <1>2, MaxRetryAssumption DEF Chain, ClientState, Pending
<1>3. CASE TimerConnects(c)
  <2> DEFINE u == [s EXCEPT !.timers = @ - 1]
  <2>1. s.timers > 0 /\ MayConnect(u) /\ Become(c, Established(u))
    BY <1>3 DEF TimerConnects, s
  <2>2. /\ u \in ClientState
        /\ u.timers = s.timers - 1 /\ u.failing = s.failing
        /\ u.conn = s.conn /\ u.ctx = s.ctx /\ u.readers = s.readers
        /\ u.open = s.open /\ u.broken = s.broken /\ u.live = s.live /\ u.gaveUp = s.gaveUp
        /\ u.gens = s.gens /\ u.retry = s.retry /\ u.closed = s.closed
    BY <1>1, <2>1 DEF ClientState
  <2> HIDE DEF u
  <2>3. /\ ~u.closed /\ u.conn = 0 /\ u.ctx = 0 /\ u.readers = {}
        /\ u.open = {} /\ u.broken = {} /\ u.live = {} /\ Pending(u) = 0 /\ ~u.gaveUp
        /\ u.gens + 1 <= u.retry + 1 /\ u.retry <= MaxRetry
    BY <1>n, <1>2, <2>1, <2>2 DEF Pending, MayConnect
  <2>4. QED
    BY <2>1, <2>2, <2>3, EstablishedChain DEF KeepsChain
<1>4. CASE TimerFails(c)
  <2> DEFINE u == [s EXCEPT !.timers = @ - 1, !.failing = @ + 1]
             t == ConnectError(u)
  <2>1. s.timers > 0 /\ Become(c, t)
    BY <1>4 DEF TimerFails, s
  <2>2. /\ u \in ClientState
        /\ u.timers = s.timers - 1 /\ u.failing = s.failing + 1
        /\ u.conn = s.conn /\ u.ctx = s.ctx /\ u.readers = s.readers
        /\ u.open = s.open /\ u.broken = s.broken /\ u.live = s.live /\ u.gaveUp = s.gaveUp
        /\ u.gens = s.gens /\ u.retry = s.retry /\ u.closed = s.closed
        /\ u.beats = s.beats
    <3> DEFINE v == [s EXCEPT !.timers = @ - 1]
    <3>1. /\ v \in ClientState
          /\ v.timers = s.timers - 1 /\ v.failing = s.failing
          /\ v.conn = s.conn /\ v.ctx = s.ctx /\ v.readers = s.readers
          /\ v.open = s.open /\ v.broken = s.broken /\ v.live = s.live /\ v.gaveUp = s.gaveUp
          /\ v.gens = s.gens /\ v.retry = s.retry /\ v.closed = s.closed
          /\ v.beats = s.beats
      BY <1>1, <2>1 DEF ClientState
    <3>2. u = [v EXCEPT !.failing = @ + 1]
      BY <1>1 DEF ClientState
    <3> HIDE DEF u, v
    <3>3. QED
      BY <1>n, <3>1, <3>2 DEF ClientState
  <2> HIDE DEF u
  <2>3. /\ t \in ClientState
        /\ t.conn = 0 /\ t.ctx = 0 /\ t.open = {} /\ t.broken = {} /\ t.live = {}
        /\ t.readers = {} /\ t.beats = s.beats /\ t.gens = s.gens
        /\ t.retry = s.retry /\ t.closed = s.closed /\ t.gaveUp = s.gaveUp
        /\ t.timers = s.timers - 1 /\ t.failing = s.failing + 1
    BY <1>2, <2>1, <2>2, ConnectErrorFields
  <2> HIDE DEF t
  <2>4. Chain(t)
    BY <1>1, <1>2, <2>1, <2>3 DEF Chain, Pending, ClientState
  <2>5. QED
    BY <2>1, <2>3, <2>4 DEF KeepsChain
<1>5. CASE RetryAfterFailure(c)
  <2> DEFINE u == [s EXCEPT !.failing = @ - 1]
  <2>1. s.failing > 0 /\ Become(c, Reconnect(u))
    BY <1>5 DEF RetryAfterFailure, s
  <2>2. /\ u \in ClientState
        /\ u.timers = s.timers /\ u.failing = s.failing - 1
        /\ u.conn = s.conn /\ u.ctx = s.ctx /\ u.readers = s.readers
        /\ u.open = s.open /\ u.broken = s.broken /\ u.live = s.live /\ u.gaveUp = s.gaveUp
        /\ u.gens = s.gens /\ u.retry = s.retry /\ u.closed = s.closed
        /\ u.beats = s.beats
    BY <1>1, <2>1 DEF ClientState
  <2> HIDE DEF u
  <2>3. CASE s.closed
    <3>1. Reconnect(u) = u
      BY <2>2, <2>3 DEF Reconnect
    <3>2. Chain(u)
      BY <1>1, <1>2, <2>1, <2>2, <2>3 DEF Chain, Pending, ClientState
    <3>3. QED
      BY <2>1, <2>2, <3>1, <3>2 DEF KeepsChain
  <2>4. CASE ~s.closed
    <3>1. ~u.closed
      BY <2>2, <2>4
    <3>2. /\ s.readers = {} /\ s.open = {} /\ s.broken = {} /\ s.live = {} /\ ~s.gaveUp
          /\ s.timers + s.failing = 1 /\ s.gens <= s.retry /\ s.retry <= MaxRetry
      BY <1>2, <2>1
    <3>3. u.readers = {} /\ u.open = {} /\ u.broken = {} /\ u.live = {} /\ ~u.gaveUp
      BY <2>2, <3>2
    <3>4. Pending(u) = 0
      BY <1>n, <2>1, <2>2, <3>2 DEF Pending
    <3>5. u.gens <= u.retry + 1 /\ u.retry <= MaxRetry
      BY <1>n, <2>2, <3>2
    <3>6. QED
      BY <2>1, <2>2, <3>1, <3>3, <3>4, <3>5, ReconnectChain DEF KeepsChain
  <2>5. QED
    BY <2>3, <2>4
<1>6. QED
  BY <1>3, <1>4, <1>5 DEF TimerStep

\* One turn of the loop of readMessages, or its end.
LEMMA ReaderSteps ==
  ASSUME IInv, NEW c \in Clients, ReaderStep(c)
  PROVE  KeepsChain(c)
<1> DEFINE s == client[c]
<1>1. s \in ClientState /\ Chain(s)
  BY DEF IInv, TypeOK
<1>2. PICK r \in s.readers :
        ReaderLoads(c, r) \/ ReaderReads(c, r) \/ ReaderErrs(c, r) \/ ReaderEnds(c, r)
  BY DEF ReaderStep
<1> DEFINE out(new) == Replace(s, r, new)
<1> HIDE DEF s
\* The reader is the only one and belongs to the current connection.
<1>3. /\ r \in Reader /\ s.readers = {r} /\ r.ctx = s.conn /\ s.conn # 0
      /\ s.ctx = s.conn /\ Pending(s) = 0 /\ ~s.gaveUp
  BY <1>1, <1>2 DEF Chain, ClientState
<1>4. ASSUME NEW new \in SUBSET Reader
      PROVE  LET u == out(new)
             IN /\ u \in ClientState /\ u.readers = new
                /\ u.conn = s.conn /\ u.ctx = s.ctx /\ u.open = s.open /\ u.broken = s.broken
                /\ u.live = s.live /\ u.beats = s.beats /\ u.gens = s.gens
                /\ u.retry = s.retry /\ u.closed = s.closed /\ u.gaveUp = s.gaveUp
                /\ u.timers = s.timers /\ u.failing = s.failing
  BY <1>1, <1>3 DEF Replace, ClientState
\* A step inside the loop keeps the reader and its context.
<1>5. ASSUME NEW q \in Reader, q.ctx = r.ctx
      PROVE  out({q}) \in ClientState /\ Chain(out({q}))
  <2> DEFINE u == out({q})
  <2>1. /\ u \in ClientState /\ u.readers = {q}
        /\ u.conn = s.conn /\ u.ctx = s.ctx /\ u.open = s.open /\ u.broken = s.broken
        /\ u.live = s.live /\ u.beats = s.beats /\ u.gens = s.gens
        /\ u.retry = s.retry /\ u.closed = s.closed /\ u.gaveUp = s.gaveUp
        /\ u.timers = s.timers /\ u.failing = s.failing
    BY <1>4
  <2> HIDE DEF u
  <2>2. Chain(u)
    BY <1>1, <1>3, <1>5, <2>1 DEF Chain, Pending
  <2>3. QED
    BY <2>1, <2>2 DEF u
<1>6. CASE ReaderLoads(c, r)
  <2> DEFINE q == [r EXCEPT !.on = s.conn, !.at = "reading"]
  <2>1. Become(c, out({q}))
    BY <1>3, <1>6 DEF ReaderLoads, s
  <2>2. q \in Reader /\ q.ctx = r.ctx
    BY <1>1, <1>3 DEF Reader, ClientState
  <2> HIDE DEF q, out
  <2>3. QED
    BY <1>5, <2>1, <2>2 DEF KeepsChain
<1>7. CASE ReaderReads(c, r) \/ ReaderErrs(c, r)
  <2>1. PICK a \in {"loop", "failed"} : Become(c, out({[r EXCEPT !.at = a]}))
    BY <1>7 DEF ReaderReads, ReaderErrs, s
  <2> DEFINE q == [r EXCEPT !.at = a]
  <2>2. q \in Reader /\ q.ctx = r.ctx
    BY <1>3, <2>1 DEF Reader
  <2>3. Become(c, out({q}))
    BY <2>1
  <2> HIDE DEF q, out
  <2>4. QED
    BY <1>5, <2>2, <2>3 DEF KeepsChain
<1>8. CASE ReaderEnds(c, r)
  <2> DEFINE u == out({})
  <2>1. Become(c, IF r.ctx \in s.live THEN Reconnect(u) ELSE u)
    <3>1. out({}).live = s.live
      BY <1>4
    <3>2. QED
      BY <1>8, <3>1 DEF ReaderEnds, s
  <2>2. /\ u \in ClientState /\ u.readers = {}
        /\ u.conn = s.conn /\ u.ctx = s.ctx /\ u.open = s.open /\ u.broken = s.broken
        /\ u.live = s.live /\ u.beats = s.beats /\ u.gens = s.gens
        /\ u.retry = s.retry /\ u.closed = s.closed /\ u.gaveUp = s.gaveUp
        /\ u.timers = s.timers /\ u.failing = s.failing
    BY <1>4
  <2> HIDE DEF u
  <2>3. CASE r.ctx \in s.live
    <3>1. ~s.closed
      BY <1>1, <2>3 DEF Chain
    <3>2. /\ u.open \subseteq {u.conn} /\ u.broken \subseteq u.open /\ u.live \subseteq {u.ctx}
          /\ Pending(u) = 0 /\ ~u.gaveUp
          /\ u.gens <= u.retry + 1 /\ u.retry <= MaxRetry
      BY <1>1, <1>3, <2>2, MaxRetryAssumption DEF Chain, Pending, ClientState
    <3>3. Reconnect(u) \in ClientState /\ Chain(Reconnect(u))
      BY <2>2, <3>1, <3>2, ReconnectChain
    <3>4. QED
      BY <2>1, <2>3, <3>3 DEF KeepsChain
  <2>4. CASE r.ctx \notin s.live
    <3>1. s.closed
      BY <1>1, <1>3, <2>4 DEF Chain
    <3>2. Chain(u)
      BY <1>1, <1>3, <2>2, <3>1 DEF Chain, Pending
    <3>3. QED
      BY <2>1, <2>2, <2>4, <3>2 DEF KeepsChain
  <2>5. QED
    BY <2>3, <2>4
<1>9. QED
  BY <1>2, <1>6, <1>7, <1>8

\* Close, from the cleanup job too, which may find the client closed already.
LEMMA ClosedChain ==
  ASSUME IInv, NEW c \in Clients, Become(c, Closed(client[c]))
  PROVE  KeepsChain(c)
<1> DEFINE s == client[c]
           u == Closed(s)
<1>1. s \in ClientState /\ Chain(s) /\ Become(c, u)
  BY DEF IInv, TypeOK
<1> HIDE DEF s
<1>2. /\ u \in ClientState /\ u.readers = s.readers /\ u.closed
      /\ u.conn = s.conn /\ u.ctx = s.ctx /\ u.open = s.open \ {s.conn} /\ u.broken = s.broken \ {s.conn}
      /\ u.live = s.live \ {s.ctx} /\ u.beats = s.beats /\ u.gens = s.gens
      /\ u.retry = s.retry /\ u.gaveUp = s.gaveUp
      /\ u.timers = s.timers /\ u.failing = s.failing
  BY <1>1 DEF ClientState, Closed
<1> HIDE DEF u
<1>3. Chain(u)
  BY <1>1, <1>2 DEF Chain, Pending
<1>4. QED
  BY <1>1, <1>2, <1>3 DEF KeepsChain

\* The heartbeat, Close and a connection the peer drops.
LEMMA OtherSteps ==
  ASSUME IInv, NEW c \in Clients,
         BeatStep(c) \/ Close(c) \/ \E g \in client[c].open : PeerDrops(c, g)
  PROVE  KeepsChain(c)
<1> DEFINE s == client[c]
<1>1. s \in ClientState /\ Chain(s)
  BY DEF IInv, TypeOK
<1> HIDE DEF s
<1>2. CASE BeatStep(c)
  <2>1. PICK g \in s.beats : BeatEnds(c, g)
    BY <1>2 DEF BeatStep, s
  <2> DEFINE u == [s EXCEPT !.beats = @ \ {g}]
  <2>2. Become(c, u) /\ (g \notin s.live \/ s.closed \/ s.conn = 0)
    BY <2>1 DEF BeatEnds, s
  <2>3. /\ u \in ClientState /\ u.readers = s.readers
        /\ u.conn = s.conn /\ u.ctx = s.ctx /\ u.open = s.open /\ u.broken = s.broken
        /\ u.live = s.live /\ u.beats = s.beats \ {g} /\ u.gens = s.gens
        /\ u.retry = s.retry /\ u.closed = s.closed /\ u.gaveUp = s.gaveUp
        /\ u.timers = s.timers /\ u.failing = s.failing
    BY <1>1 DEF ClientState
  <2> HIDE DEF u
  <2>4. Chain(u)
    BY <1>1, <2>2, <2>3 DEF Chain, Pending
  <2>5. QED
    BY <2>2, <2>3, <2>4 DEF KeepsChain
<1>3. CASE Close(c)
  BY <1>3, ClosedChain DEF Close
<1>4. CASE \E g \in s.open : PeerDrops(c, g)
  <2>1. PICK g \in s.open : PeerDrops(c, g)
    BY <1>4
  <2> DEFINE u == [s EXCEPT !.broken = @ \cup {g}]
  <2>2. Become(c, u)
    BY <2>1 DEF PeerDrops, s
  <2>3. /\ u \in ClientState /\ u.readers = s.readers
        /\ u.conn = s.conn /\ u.ctx = s.ctx /\ u.open = s.open /\ u.broken = s.broken \cup {g}
        /\ u.live = s.live /\ u.beats = s.beats /\ u.gens = s.gens
        /\ u.retry = s.retry /\ u.closed = s.closed /\ u.gaveUp = s.gaveUp
        /\ u.timers = s.timers /\ u.failing = s.failing
    BY <1>1 DEF ClientState
  <2> HIDE DEF u
  <2>4. Chain(u)
    BY <1>1, <2>3 DEF Chain, Pending
  <2>5. QED
    BY <2>2, <2>3, <2>4 DEF KeepsChain
<1>5. QED
  BY <1>2, <1>3, <1>4 DEF s

-----------------------------------------------------------------------------
(* The theorems.                                                           *)

\* IInv is inductive: every reachable state is well typed and every client's
\* connection, context, reader and reconnect chain belong together.
THEOREM Invariance == Spec => []IInv
<1>1. Init => IInv
  BY NewClientChain DEF Init, IInv, TypeOK
<1>2. IInv /\ [Next]_client => IInv'
  <2> SUFFICES ASSUME IInv, [Next]_client PROVE IInv'
    OBVIOUS
  <2>1. CASE UNCHANGED client
    BY <2>1 DEF IInv, TypeOK
  <2>2. ASSUME NEW c \in Clients, KeepsChain(c)
        PROVE  IInv'
    <3>1. PICK t \in ClientState : Chain(t) /\ client' = [client EXCEPT ![c] = t]
      BY <2>2 DEF KeepsChain, Become
    <3>2. QED
      BY <3>1 DEF IInv, TypeOK
  <2>3. CASE Next
    <3>1. PICK c \in Clients : FirstConnectOK(c) \/ FirstConnectFails(c)
                                 \/ Background(c) \/ Close(c)
      BY <2>3 DEF Next
    <3>2. KeepsChain(c)
      BY <3>1, ConnectSteps, TimerSteps, ReaderSteps, OtherSteps DEF Background
    <3>3. QED
      BY <2>2, <3>2
  <2>4. QED
    BY <2>1, <2>3
<1>3. QED
  BY <1>1, <1>2, PTL DEF Spec

\* Every field of every client keeps its type.
THEOREM TypeCorrect == Spec => []TypeOK
<1>1. IInv => TypeOK
  BY DEF IInv
<1>2. QED
  BY <1>1, Invariance, PTL

\* At most one goroutine may ever replace a client's connection.
THEOREM OneDriver == Spec => []SingleDriver
<1>1. ASSUME NEW s \in ClientState, Chain(s)
      PROVE  /\ Pending(s) <= 1
             /\ Pending(s) = 1 => Driving(s) = {}
             /\ \A r1, r2 \in Driving(s) : r1 = r2
  <2>1. Driving(s) \subseteq s.readers
    BY DEF Driving
  <2>2. Pending(s) = 1 => s.readers = {}
    BY <1>1 DEF Chain
  <2>3. QED
    BY <1>1, <2>1, <2>2 DEF Chain
<1>2. IInv => SingleDriver
  BY <1>1 DEF IInv, TypeOK, SingleDriver
<1>3. QED
  BY <1>2, Invariance, PTL

\* No error path loses the goroutine that would notice a lost connection.
THEOREM NoOrphan == Spec => []NeverOrphaned
<1>1. ASSUME NEW s \in ClientState, Chain(s), s.gens > 0, ~s.closed, ~s.gaveUp
      PROVE  Pending(s) = 1 \/ Driving(s) # {}
  <2>1. CASE s.conn = 0
    BY <1>1, <2>1 DEF Chain
  <2>2. CASE s.conn # 0
    <3>1. PICK r \in s.readers : r.ctx = s.conn
      BY <1>1, <2>2 DEF Chain
    <3>2. s.conn \in s.live
      BY <1>1, <2>2 DEF Chain
    <3>3. QED
      BY <3>1, <3>2 DEF Driving
  <2>3. QED
    BY <2>1, <2>2
<1>2. IInv => NeverOrphaned
  BY <1>1 DEF IInv, TypeOK, NeverOrphaned
<1>3. QED
  BY <1>2, Invariance, PTL

\* Only the current socket and context are alive, and none after Close.
THEOREM NoLeak == Spec => []NothingLeaks
<1>1. IInv => NothingLeaks
  BY DEF IInv, TypeOK, NothingLeaks, Chain, ClientState
<1>2. QED
  BY <1>1, Invariance, PTL

\* A live connection always has its heartbeat.
THEOREM HeartbeatRuns == Spec => []HeartbeatCovers
<1>1. IInv => HeartbeatCovers
  BY DEF IInv, HeartbeatCovers, Chain
<1>2. QED
  BY <1>1, Invariance, PTL

\* The retry budget bounds the connections of a client's whole life.
THEOREM BudgetHolds == Spec => []RetryBudget
<1>1. IInv => RetryBudget
  BY DEF IInv, RetryBudget, Chain
<1>2. QED
  BY <1>1, Invariance, PTL

-----------------------------------------------------------------------------
(* How a closed client comes to rest.                                      *)

\* A reader without a socket is further down its loop.
Later(r, q) ==
  (r.at = "loop" /\ q.at = "reading") \/ (r.at = "reading" /\ q.at = "failed")
\* One goroutine of a closed client has gone on towards its end, or has ended: its
\* reader, a heartbeat, or a timer's callback.
WindsDown(s, t) ==
  \/ /\ t.beats = s.beats /\ t.timers = s.timers /\ t.failing = s.failing
     /\ \E r \in s.readers :
          \/ t.readers = s.readers \ {r}
          \/ \E q \in Reader : Later(r, q) /\ t.readers = (s.readers \ {r}) \cup {q}
  \/ /\ t.readers = s.readers /\ t.timers = s.timers /\ t.failing = s.failing
     /\ t.beats \subseteq s.beats /\ t.beats # s.beats
  \/ /\ t.readers = s.readers /\ t.beats = s.beats
     /\ 2 * t.timers + t.failing < 2 * s.timers + s.failing
ClosedAdvance ==
  \A c \in Clients : client[c].closed =>
    client'[c].closed /\ (UNCHANGED client[c] \/ WindsDown(client[c], client'[c]))

\* The timer of a closed client fires, and its callback goes away again.
LEMMA TimerWindsDown ==
  ASSUME NEW c \in Clients, client \in [Clients -> ClientState], client[c].closed, TimerStep(c)
  PROVE  client'[c].closed /\ WindsDown(client[c], client'[c])
<1> DEFINE s == client[c]
<1>1. s \in ClientState /\ s.closed = TRUE
  BY DEF ClientState
<1>2. s.timers \in Nat /\ s.failing \in Nat
  BY <1>1 DEF ClientState
<1>3. ASSUME TimerConnects(c) PROVE FALSE
  <2>1. MayConnect([s EXCEPT !.timers = @ - 1])
    BY <1>3 DEF TimerConnects
  <2>2. QED
    BY <1>1, <2>1 DEF MayConnect, ClientState
<1>4. CASE TimerFails(c)
  <2> DEFINE u == [s EXCEPT !.timers = @ - 1, !.failing = @ + 1]
  <2>1. s.timers > 0 /\ Become(c, ConnectError(u))
    BY <1>4 DEF TimerFails
  <2>2. /\ u.closed = TRUE /\ u.readers = s.readers /\ u.beats = s.beats
        /\ u.timers = s.timers - 1 /\ u.failing = s.failing + 1
    BY <1>1 DEF ClientState
  <2> HIDE DEF s, u
  <2>3. ConnectError(u) = u
    BY <2>2 DEF ConnectError, MayConnect
  <2>4. client'[c] = u
    BY <2>1, <2>3 DEF Become
  <2>5. 2 * u.timers + u.failing < 2 * s.timers + s.failing
    BY <1>2, <2>1, <2>2
  <2>6. QED
    BY <2>2, <2>4, <2>5 DEF WindsDown, s
<1>5. CASE RetryAfterFailure(c)
  <2> DEFINE u == [s EXCEPT !.failing = @ - 1]
  <2>1. s.failing > 0 /\ Become(c, Reconnect(u))
    BY <1>5 DEF RetryAfterFailure
  <2>2. /\ u.closed = TRUE /\ u.readers = s.readers /\ u.beats = s.beats
        /\ u.timers = s.timers /\ u.failing = s.failing - 1
    BY <1>1 DEF ClientState
  <2> HIDE DEF s, u
  <2>3. Reconnect(u) = u
    BY <2>2 DEF Reconnect
  <2>4. client'[c] = u
    BY <2>1, <2>3 DEF Become
  <2>5. 2 * u.timers + u.failing < 2 * s.timers + s.failing
    BY <1>2, <2>1, <2>2
  <2>6. QED
    BY <2>2, <2>4, <2>5 DEF WindsDown, s
<1>6. QED
  BY <1>3, <1>4, <1>5 DEF TimerStep

\* The reader of a closed client finds its socket closed, and ends.
LEMMA ReaderWindsDown ==
  ASSUME NEW c \in Clients, client \in [Clients -> ClientState], client[c].closed,
         client[c].open = {}, NEW r \in client[c].readers,
         ReaderLoads(c, r) \/ ReaderReads(c, r) \/ ReaderErrs(c, r) \/ ReaderEnds(c, r)
  PROVE  client'[c].closed /\ WindsDown(client[c], client'[c])
<1> DEFINE s == client[c]
<1>1. s \in ClientState /\ s.closed = TRUE /\ r \in Reader /\ s.conn \in Nat
  BY DEF ClientState
<1>2. ASSUME NEW new, Become(c, Replace(s, r, new)),
             new = {} \/ \E q \in Reader : Later(r, q) /\ new = {q}
      PROVE  client'[c].closed /\ WindsDown(s, client'[c])
  <2> DEFINE u == Replace(s, r, new)
  <2>1. /\ u.closed = TRUE /\ u.readers = (s.readers \ {r}) \cup new
        /\ u.beats = s.beats /\ u.timers = s.timers /\ u.failing = s.failing
    BY <1>1 DEF Replace, ClientState
  <2>2. client'[c] = u
    BY <1>2 DEF Become
  <2> HIDE DEF s, u
  <2>3. r \in s.readers
    BY DEF s
  <2>4. QED
    BY <1>2, <2>1, <2>2, <2>3 DEF WindsDown
<1>3. CASE ReaderLoads(c, r)
  <2> DEFINE q == [r EXCEPT !.on = s.conn, !.at = "reading"]
  <2>1. r.at = "loop" /\ Become(c, Replace(s, r, IF s.conn = 0 THEN {} ELSE {q}))
    BY <1>3 DEF ReaderLoads
  <2>2. q \in Reader /\ Later(r, q)
    BY <1>1, <2>1 DEF Reader, Later
  <2> HIDE DEF s, q
  <2>3. PICK new \in {{}, {q}} : Become(c, Replace(s, r, new))
    BY <2>1
  <2>4. QED
    BY <1>2, <2>2, <2>3 DEF s
<1>4. ASSUME ReaderReads(c, r) PROVE FALSE
  BY <1>4 DEF ReaderReads
<1>5. CASE ReaderErrs(c, r)
  <2> DEFINE q == [r EXCEPT !.at = "failed"]
  <2>1. r.at = "reading" /\ Become(c, Replace(s, r, {q}))
    BY <1>5 DEF ReaderErrs
  <2>2. q \in Reader /\ Later(r, q)
    BY <1>1, <2>1 DEF Reader, Later
  <2> HIDE DEF s, q
  <2>3. QED
    BY <1>2, <2>1, <2>2 DEF s
<1>6. CASE ReaderEnds(c, r)
  <2>1. Become(c, IF r.ctx \in Replace(s, r, {}).live THEN Reconnect(Replace(s, r, {}))
                  ELSE Replace(s, r, {}))
    BY <1>6 DEF ReaderEnds
  <2>2. Replace(s, r, {}).closed = TRUE
    BY <1>1 DEF Replace, ClientState
  <2>3. Reconnect(Replace(s, r, {})) = Replace(s, r, {})
    BY <2>2 DEF Reconnect
  <2>4. Become(c, Replace(s, r, {}))
    BY <2>1, <2>3
  <2>5. QED
    BY <1>2, <2>4
<1>7. QED
  BY <1>3, <1>4, <1>5, <1>6

\* Any step of a closed client winds it down or changes nothing.
LEMMA ClosedSteps ==
  ASSUME IInv, NEW c \in Clients, client[c].closed,
         FirstConnectOK(c) \/ FirstConnectFails(c) \/ Background(c) \/ Close(c)
  PROVE  client'[c].closed /\ (UNCHANGED client[c] \/ WindsDown(client[c], client'[c]))
<1>1. client \in [Clients -> ClientState] /\ client[c].open = {}
  BY DEF IInv, TypeOK, Chain
<1>2. ASSUME FirstConnectOK(c) \/ Close(c) PROVE FALSE
  BY <1>2 DEF FirstConnectOK, MayConnect, Close
<1>3. CASE FirstConnectFails(c)
  BY <1>1, <1>3 DEF FirstConnectFails, ConnectError, MayConnect, Become
<1>4. ASSUME NEW g \in client[c].open, PeerDrops(c, g) PROVE FALSE
  BY <1>1, <1>4
<1>5. CASE BeatStep(c)
  <2>1. PICK g \in client[c].beats : client' = [client EXCEPT ![c].beats = @ \ {g}]
    BY <1>1, <1>5 DEF BeatStep, BeatEnds, Become
  <2>2. client'[c] = [client[c] EXCEPT !.beats = @ \ {g}] /\ client[c] \in ClientState
    BY <1>1, <2>1
  <2>3. /\ client'[c].closed = client[c].closed /\ client'[c].beats = client[c].beats \ {g}
        /\ client'[c].readers = client[c].readers /\ client'[c].timers = client[c].timers
        /\ client'[c].failing = client[c].failing
    BY <2>2 DEF ClientState
  <2>4. QED
    BY <2>1, <2>3 DEF WindsDown
<1>6. CASE TimerStep(c)
  BY <1>1, <1>6, TimerWindsDown
<1>7. CASE ReaderStep(c)
  BY <1>1, <1>7, ReaderWindsDown DEF ReaderStep
<1>8. QED
  BY <1>2, <1>3, <1>4, <1>5, <1>6, <1>7 DEF Background

\* The part of CloseQuiesces that needs no fairness: nothing reopens a closed
\* client, none of its goroutines is started again, and each step of one that was
\* running leads to its end, in whatever state Close found them.
THEOREM ClosedComesToRest == Spec => [][ClosedAdvance]_client
<1>1. IInv /\ [Next]_client => [ClosedAdvance]_client
  <2> SUFFICES ASSUME IInv, Next, NEW d \in Clients, client[d].closed
               PROVE  client'[d].closed /\ (UNCHANGED client[d] \/ WindsDown(client[d], client'[d]))
    BY DEF ClosedAdvance
  <2>1. PICK c \in Clients : FirstConnectOK(c) \/ FirstConnectFails(c) \/ Background(c) \/ Close(c)
    BY DEF Next
  <2>2. CASE c = d
    BY <2>1, <2>2, ClosedSteps
  <2>3. CASE c # d
    <3>1. UNCHANGED client[d]
      BY <2>1, <2>3 DEF FirstConnectOK, FirstConnectFails, Background, Close, TimerStep, ReaderStep,
         BeatStep, TimerConnects, TimerFails, RetryAfterFailure, ReaderLoads, ReaderReads,
         ReaderErrs, ReaderEnds, BeatEnds, PeerDrops, Become, IInv, TypeOK
    <3>2. QED
      BY <3>1
  <2>4. QED
    BY <2>2, <2>3
<1>2. QED
  BY <1>1, Invariance, PTL DEF Spec

-----------------------------------------------------------------------------
(* The abstract link.                                                      *)

\* What one step of MonitorLink may do to a link.
LinkMoves(l, m) ==
  \/ m = l
  \/ l.state \in {"fresh", "backoff"} /\ m = [state |-> "up", lost |-> l.lost]
  \/ /\ l.state \in {"up", "backoff"}
     /\ m = [state |-> IF l.lost + 1 > MaxRetry THEN "dead" ELSE "backoff", lost |-> l.lost + 1]
  \/ l.state # "closed" /\ m = [state |-> "closed", lost |-> l.lost]

\* The link shows neither readers nor contexts, nor the number of a connection.
LEMMA SameLink ==
  ASSUME NEW s \in ClientState, NEW t \in ClientState,
         t.closed = s.closed, t.retry = s.retry,
         s.closed \/ (t.gaveUp = s.gaveUp /\ Pending(t) = Pending(s) /\ (t.conn = 0 <=> s.conn = 0))
  PROVE  LinkOf(t) = LinkOf(s)
  BY DEF LinkOf

\* reconnect loses one link, counted, unless somebody closed the client.
LEMMA ReconnectLoses ==
  ASSUME NEW s \in ClientState, s.closed \/ (~s.gaveUp /\ Pending(s) = 0)
  PROVE  LET t == Reconnect(s)
         IN /\ s.closed => t = s
            /\ ~s.closed =>
                 LinkOf(t) = [state |-> IF s.retry + 1 > MaxRetry THEN "dead" ELSE "backoff",
                              lost |-> s.retry + 1]
<1> DEFINE t == Reconnect(s)
<1>1. s.closed => t = s
  BY DEF Reconnect
<1>2. CASE ~s.closed
  <2>1. /\ t.retry = s.retry + 1 /\ t.closed = s.closed /\ t.failing = s.failing
        /\ s.retry + 1 > MaxRetry => t.gaveUp /\ t.timers = s.timers
        /\ ~(s.retry + 1 > MaxRetry) => t.gaveUp = s.gaveUp /\ t.timers = s.timers + 1
    BY <1>2, ReconnectFields
  <2> HIDE DEF t
  <2>2. s.timers \in Nat /\ s.failing \in Nat /\ s.timers + s.failing = 0 /\ ~s.gaveUp
    BY <1>2 DEF ClientState, Pending
  <2>3. s.retry + 1 > MaxRetry => LinkOf(t) = [state |-> "dead", lost |-> s.retry + 1]
    BY <1>2, <2>1 DEF LinkOf
  <2>4. ~(s.retry + 1 > MaxRetry) => Pending(t) > 0 /\ ~t.gaveUp
    BY <2>1, <2>2 DEF Pending
  <2>5. ~(s.retry + 1 > MaxRetry) => LinkOf(t) = [state |-> "backoff", lost |-> s.retry + 1]
    BY <1>2, <2>1, <2>4 DEF LinkOf
  <2>6. QED
    BY <1>1, <2>3, <2>5 DEF t
<1>3. QED
  BY <1>1, <1>2

\* The first Connect brings the link up or leaves it as it was.
LEMMA ConnectMoves ==
  ASSUME IInv, NEW c \in Clients, FirstConnectOK(c) \/ FirstConnectFails(c)
  PROVE  LinkMoves(LinkOf(client[c]), LinkOf(client'[c]))
<1> DEFINE s == client[c]
<1>1. s \in ClientState /\ Chain(s) /\ DOMAIN client = Clients
  BY DEF IInv, TypeOK
<1>2. s.gens = 0 /\ s.retry = 0
  BY DEF FirstConnectOK, FirstConnectFails, Fresh
<1> HIDE DEF s
<1>3. s.conn = 0 /\ Pending(s) = 0 /\ ~s.gaveUp
  BY <1>1, <1>2, MaxRetryAssumption DEF Chain, ClientState
<1>4. CASE FirstConnectOK(c)
  <2> DEFINE t == Established(s)
  <2>1. ~s.closed /\ client'[c] = t
    BY <1>1, <1>4 DEF FirstConnectOK, MayConnect, Become, s
  <2>2. /\ t.conn = s.gens + 1 /\ t.retry = s.retry /\ t.closed = s.closed
        /\ t.gaveUp = s.gaveUp /\ t.timers = s.timers /\ t.failing = s.failing
    BY <1>1, EstablishedFields
  <2> HIDE DEF t
  <2>3. Pending(t) = 0 /\ t.conn # 0
    BY <1>2, <1>3, <2>2 DEF Pending
  <2>4. LinkOf(s) = [state |-> "fresh", lost |-> s.retry]
    BY <1>3, <2>1 DEF LinkOf
  <2>5. LinkOf(t) = [state |-> "up", lost |-> s.retry]
    BY <1>3, <2>1, <2>2, <2>3 DEF LinkOf
  <2>6. QED
    BY <2>1, <2>4, <2>5 DEF LinkMoves, s
<1>5. CASE FirstConnectFails(c)
  <2> DEFINE t == ConnectError(s)
  <2>1. client'[c] = t
    BY <1>1, <1>5 DEF FirstConnectFails, Become, s
  <2>2. /\ t \in ClientState /\ t.retry = s.retry /\ t.closed = s.closed /\ t.conn = 0
        /\ t.gaveUp = s.gaveUp /\ t.timers = s.timers /\ t.failing = s.failing
    BY <1>1, <1>3, ConnectErrorFields
  <2> HIDE DEF t
  <2>3. LinkOf(t) = LinkOf(s)
    BY <1>1, <1>3, <2>2, SameLink DEF Pending
  <2>4. QED
    BY <2>1, <2>3 DEF LinkMoves, s
<1>6. QED
  BY <1>4, <1>5

\* A timer's Connect brings the link up again; one that fails leaves it in
\* backoff until reconnect counts it.
LEMMA TimerMoves ==
  ASSUME IInv, NEW c \in Clients, TimerStep(c)
  PROVE  LinkMoves(LinkOf(client[c]), LinkOf(client'[c]))
<1> DEFINE s == client[c]
<1>1. s \in ClientState /\ Chain(s) /\ DOMAIN client = Clients
  BY DEF IInv, TypeOK
<1> HIDE DEF s
<1>2. s.timers \in Nat /\ s.failing \in Nat /\ s.gens \in Nat
  BY <1>1 DEF ClientState
<1>3. s.timers > 0 \/ s.failing > 0
  BY DEF TimerStep, TimerConnects, TimerFails, RetryAfterFailure, s
<1>4. Pending(s) > 0 /\ s.timers + s.failing = 1
  BY <1>1, <1>2, <1>3 DEF Chain, Pending
<1>5. ~s.gaveUp /\ s.conn = 0
  BY <1>1, <1>4 DEF Chain, Pending
<1>6. ~s.closed => LinkOf(s) = [state |-> "backoff", lost |-> s.retry]
  BY <1>4, <1>5 DEF LinkOf
<1>7. CASE TimerConnects(c)
  <2> DEFINE u == [s EXCEPT !.timers = @ - 1]
             t == Established(u)
  <2>1. s.timers > 0 /\ ~u.closed /\ client'[c] = t
    BY <1>1, <1>7 DEF TimerConnects, MayConnect, Become, s
  <2>2. /\ u \in ClientState /\ u.timers = s.timers - 1 /\ u.failing = s.failing
        /\ u.gaveUp = s.gaveUp /\ u.gens = s.gens /\ u.retry = s.retry /\ u.closed = s.closed
    BY <1>1, <2>1 DEF ClientState
  <2> HIDE DEF u
  <2>3. /\ t.conn = u.gens + 1 /\ t.retry = u.retry /\ t.closed = u.closed
        /\ t.gaveUp = u.gaveUp /\ t.timers = u.timers /\ t.failing = u.failing
    BY <2>2, EstablishedFields
  <2> HIDE DEF t
  <2>4. Pending(t) = 0 /\ t.conn # 0
    BY <1>2, <1>4, <2>2, <2>3 DEF Pending
  <2>5. LinkOf(t) = [state |-> "up", lost |-> s.retry]
    BY <1>5, <2>1, <2>2, <2>3, <2>4 DEF LinkOf
  <2>6. QED
    BY <1>6, <2>1, <2>2, <2>5 DEF LinkMoves, s
<1>8. CASE TimerFails(c)
  <2> DEFINE v == [s EXCEPT !.timers = @ - 1]
             u == [s EXCEPT !.timers = @ - 1, !.failing = @ + 1]
             t == ConnectError(u)
  <2>1. s.timers > 0 /\ client'[c] = t
    BY <1>1, <1>8 DEF TimerFails, Become, s
  <2>2. /\ v \in ClientState /\ v.timers = s.timers - 1 /\ v.failing = s.failing
        /\ v.gaveUp = s.gaveUp /\ v.retry = s.retry /\ v.closed = s.closed /\ v.conn = s.conn
    BY <1>1, <2>1 DEF ClientState
  <2>3. u = [v EXCEPT !.failing = @ + 1]
    BY <1>1 DEF ClientState
  <2> HIDE DEF u, v
  <2>4. /\ u \in ClientState /\ u.timers = s.timers - 1 /\ u.failing = s.failing + 1
        /\ u.gaveUp = s.gaveUp /\ u.retry = s.retry /\ u.closed = s.closed /\ u.conn = s.conn
    BY <1>2, <2>2, <2>3 DEF ClientState
  <2>5. /\ t \in ClientState /\ t.timers = u.timers /\ t.failing = u.failing
        /\ t.gaveUp = u.gaveUp /\ t.retry = u.retry /\ t.closed = u.closed /\ t.conn = 0
    BY <1>5, <2>4, ConnectErrorFields
  <2> HIDE DEF t
  <2>6. Pending(t) = Pending(s)
    BY <1>2, <2>1, <2>4, <2>5 DEF Pending
  <2>7. LinkOf(t) = LinkOf(s)
    BY <1>1, <1>5, <2>4, <2>5, <2>6, SameLink
  <2>8. QED
    BY <2>1, <2>7 DEF LinkMoves, s
<1>9. CASE RetryAfterFailure(c)
  <2> DEFINE u == [s EXCEPT !.failing = @ - 1]
             t == Reconnect(u)
  <2>1. s.failing > 0 /\ client'[c] = t
    BY <1>1, <1>9 DEF RetryAfterFailure, Become, s
  <2>2. /\ u \in ClientState /\ u.timers = s.timers /\ u.failing = s.failing - 1
        /\ u.gaveUp = s.gaveUp /\ u.retry = s.retry /\ u.closed = s.closed
    BY <1>1, <2>1 DEF ClientState
  <2> HIDE DEF u
  <2>3. Pending(u) = 0 /\ ~u.gaveUp
    BY <1>2, <1>4, <1>5, <2>1, <2>2 DEF Pending
  <2>4. CASE s.closed
    <3>1. t = u
      BY <2>2, <2>3, <2>4, ReconnectLoses
    <3>2. LinkOf(u) = LinkOf(s)
      BY <1>1, <2>2, <2>4, SameLink
    <3>3. QED
      BY <2>1, <3>1, <3>2 DEF LinkMoves, s
  <2>5. CASE ~s.closed
    <3>1. LinkOf(t) = [state |-> IF s.retry + 1 > MaxRetry THEN "dead" ELSE "backoff",
                       lost |-> s.retry + 1]
      BY <2>2, <2>3, <2>5, ReconnectLoses
    <3>2. QED
      BY <1>6, <2>1, <2>5, <3>1 DEF LinkMoves, s
  <2>6. QED
    BY <2>4, <2>5
<1>10. QED
  BY <1>7, <1>8, <1>9 DEF TimerStep

\* Only the end of a reader moves the link, and only from up.
LEMMA ReaderMoves ==
  ASSUME IInv, NEW c \in Clients, ReaderStep(c)
  PROVE  LinkMoves(LinkOf(client[c]), LinkOf(client'[c]))
<1> DEFINE s == client[c]
<1>1. s \in ClientState /\ Chain(s) /\ DOMAIN client = Clients
  BY DEF IInv, TypeOK
<1>2. PICK r \in s.readers :
        ReaderLoads(c, r) \/ ReaderReads(c, r) \/ ReaderErrs(c, r) \/ ReaderEnds(c, r)
  BY DEF ReaderStep
<1> DEFINE out(new) == Replace(s, r, new)
<1> HIDE DEF s
<1>3. /\ r \in Reader /\ s.conn # 0 /\ r.ctx = s.conn /\ Pending(s) = 0 /\ ~s.gaveUp
      /\ s.timers = 0 /\ s.failing = 0 /\ s.retry \in Nat
  BY <1>1, <1>2 DEF Chain, ClientState, Pending
<1>4. ASSUME NEW new \in SUBSET Reader
      PROVE  LET u == out(new)
             IN /\ u \in ClientState /\ u.live = s.live /\ u.conn = s.conn
                /\ u.retry = s.retry /\ u.closed = s.closed /\ u.gaveUp = s.gaveUp
                /\ u.timers = s.timers /\ u.failing = s.failing
  BY <1>1, <1>3 DEF Replace, ClientState
<1>5. ASSUME NEW new \in SUBSET Reader
      PROVE  LinkOf(out(new)) = LinkOf(s) /\ Pending(out(new)) = 0
  <2> DEFINE u == out(new)
  <2>1. /\ u \in ClientState /\ u.conn = s.conn
        /\ u.retry = s.retry /\ u.closed = s.closed /\ u.gaveUp = s.gaveUp
        /\ u.timers = s.timers /\ u.failing = s.failing
    BY <1>4
  <2> HIDE DEF u
  <2>2. Pending(u) = Pending(s)
    BY <2>1 DEF Pending
  <2>3. QED
    BY <1>1, <1>3, <2>1, <2>2, SameLink DEF u
<1>6. CASE \E new \in SUBSET Reader : Become(c, out(new))
  <2>1. PICK new \in SUBSET Reader : client'[c] = out(new)
    BY <1>1, <1>6 DEF Become
  <2> HIDE DEF out
  <2>2. QED
    BY <1>5, <2>1 DEF LinkMoves, s
<1>7. ASSUME ReaderLoads(c, r) \/ ReaderReads(c, r) \/ ReaderErrs(c, r)
      PROVE  \E new \in SUBSET Reader : Become(c, out(new))
  <2>1. CASE ReaderLoads(c, r)
    <3> DEFINE q == [r EXCEPT !.on = s.conn, !.at = "reading"]
    <3>1. Become(c, out({q}))
      BY <1>3, <2>1 DEF ReaderLoads, s
    <3>2. q \in Reader
      BY <1>1, <1>3 DEF Reader, ClientState
    <3> HIDE DEF q, out
    <3>3. QED
      BY <3>1, <3>2
  <2>2. CASE ReaderReads(c, r) \/ ReaderErrs(c, r)
    <3>1. PICK a \in {"loop", "failed"} : Become(c, out({[r EXCEPT !.at = a]}))
      BY <2>2 DEF ReaderReads, ReaderErrs, s
    <3> DEFINE q == [r EXCEPT !.at = a]
    <3>2. Become(c, out({q})) /\ q \in Reader
      BY <1>3, <3>1 DEF Reader
    <3> HIDE DEF q, out
    <3>3. QED
      BY <3>2
  <2>3. QED
    BY <1>7, <2>1, <2>2
<1>8. CASE ReaderEnds(c, r)
  <2> DEFINE u == out({})
  <2>1. u \in ClientState /\ u.live = s.live /\ u.retry = s.retry /\ u.closed = s.closed /\ u.gaveUp = s.gaveUp
    BY <1>4
  <2>2. LinkOf(u) = LinkOf(s) /\ Pending(u) = 0
    BY <1>5
  <2>3. client'[c] = IF r.ctx \in u.live THEN Reconnect(u) ELSE u
    BY <1>1, <1>8 DEF ReaderEnds, Become, s
  <2> HIDE DEF u
  <2>4. CASE r.ctx \in s.live
    <3>1. ~s.closed
      BY <1>1, <2>4 DEF Chain
    <3>2. LinkOf(s) = [state |-> "up", lost |-> s.retry]
      BY <1>3, <3>1 DEF LinkOf
    <3>3. LinkOf(Reconnect(u)) =
            [state |-> IF s.retry + 1 > MaxRetry THEN "dead" ELSE "backoff", lost |-> s.retry + 1]
      BY <1>3, <2>1, <2>2, <3>1, ReconnectLoses
    <3>4. QED
      BY <2>1, <2>3, <2>4, <3>2, <3>3 DEF LinkMoves, s
  <2>5. CASE r.ctx \notin s.live
    BY <2>1, <2>2, <2>3, <2>5 DEF LinkMoves, s
  <2>6. QED
    BY <2>4, <2>5
<1>9. QED
  BY <1>2, <1>6, <1>7, <1>8

\* The heartbeat and the peer do not move the link; Close shuts it.
LEMMA OtherMoves ==
  ASSUME IInv, NEW c \in Clients,
         BeatStep(c) \/ Close(c) \/ \E g \in client[c].open : PeerDrops(c, g)
  PROVE  LinkMoves(LinkOf(client[c]), LinkOf(client'[c]))
<1> DEFINE s == client[c]
<1>1. s \in ClientState /\ DOMAIN client = Clients
  BY DEF IInv, TypeOK
<1> HIDE DEF s
<1>2. CASE BeatStep(c)
  <2>1. PICK g \in s.beats : Become(c, [s EXCEPT !.beats = @ \ {g}])
    BY <1>2 DEF BeatStep, BeatEnds, s
  <2> DEFINE t == [s EXCEPT !.beats = @ \ {g}]
  <2>2. client'[c] = t
    BY <1>1, <2>1 DEF Become
  <2>3. LinkOf(t) = LinkOf(s)
    BY <1>1 DEF LinkOf, Pending, ClientState
  <2> HIDE DEF t
  <2>4. QED
    BY <2>2, <2>3 DEF LinkMoves, s
<1>3. CASE Close(c)
  <2> DEFINE t == Closed(s)
  <2>1. ~s.closed /\ client'[c] = t
    BY <1>1, <1>3 DEF Close, Become, s
  <2>2. t.closed /\ t.retry = s.retry
    BY <1>1 DEF Closed, ClientState
  <2> HIDE DEF t
  <2>3. LinkOf(t) = [state |-> "closed", lost |-> LinkOf(s).lost] /\ LinkOf(s).state # "closed"
    BY <2>1, <2>2 DEF LinkOf
  <2>4. QED
    BY <2>1, <2>3 DEF LinkMoves, s
<1>4. CASE \E g \in s.open : PeerDrops(c, g)
  <2>1. PICK g \in s.open : Become(c, [s EXCEPT !.broken = @ \cup {g}])
    BY <1>4 DEF PeerDrops, s
  <2> DEFINE t == [s EXCEPT !.broken = @ \cup {g}]
  <2>2. client'[c] = t
    BY <1>1, <2>1 DEF Become
  <2>3. LinkOf(t) = LinkOf(s)
    BY <1>1 DEF LinkOf, Pending, ClientState
  <2> HIDE DEF t
  <2>4. QED
    BY <2>2, <2>3 DEF LinkMoves, s
<1>5. QED
  BY <1>2, <1>3, <1>4 DEF s

\* The links of all clients, as MonitorLink is given them.
Links == [c \in Clients |-> LinkOf(client[c])]

\* The clients implement the steps of the abstract link, for any number of them
\* and any budget: a link is lost, counted, redialled and given up one step at a
\* time, and a closed one stays closed.
THEOREM LinkImplemented == Spec => Link!LinkInit /\ [][Link!LinkNext]_Links
<1>1. Init => Link!LinkInit
  BY MaxRetryAssumption DEF Init, Link!LinkInit, LinkOf, NewClient, Pending
<1>2. IInv /\ [Next]_client => [Link!LinkNext]_Links
  <2> SUFFICES ASSUME IInv, [Next]_client PROVE Link!LinkNext \/ UNCHANGED Links
    OBVIOUS
  <2>1. CASE UNCHANGED client
    BY <2>1 DEF Links
  <2>2. CASE Next
    <3>1. PICK c \in Clients : FirstConnectOK(c) \/ FirstConnectFails(c)
                                 \/ Background(c) \/ Close(c)
      BY <2>2 DEF Next
    <3> DEFINE l == LinkOf(client[c])
               m == LinkOf(client'[c])
    <3>2. LinkMoves(l, m)
      BY <3>1, ConnectMoves, TimerMoves, ReaderMoves, OtherMoves DEF Background
    <3>3. KeepsChain(c)
      BY <3>1, ConnectSteps, TimerSteps, ReaderSteps, OtherSteps DEF Background
    <3>4. client \in [Clients -> ClientState]
      BY DEF IInv, TypeOK
    <3>5. \A d \in Clients : d # c => client'[d] = client[d]
      BY <3>3, <3>4 DEF KeepsChain, Become
    <3>6. Links' = [Links EXCEPT ![c] = m]
      BY <3>5 DEF Links
    <3>7. Links[c] = l /\ l = [state |-> l.state, lost |-> l.lost]
      BY DEF Links, LinkOf
    <3> HIDE DEF l, m
    <3>8. CASE m = l
      BY <3>6, <3>7, <3>8 DEF Links
    <3>9. CASE m # l
      <4>1. Link!LinkStep(c)
        BY <3>2, <3>6, <3>7, <3>9
           DEF LinkMoves, Links, Link!LinkStep, Link!Move, Link!Lose, Link!Redial, Link!Shut
      <4>2. QED
        BY <4>1 DEF Link!LinkNext
    <3>10. QED
      BY <3>8, <3>9
  <2>3. QED
    BY <2>1, <2>2
<1>3. QED
  BY <1>1, <1>2, Invariance, PTL DEF Spec

-----------------------------------------------------------------------------
(* The owners of the clients.                                              *)

\* A step of its own goroutines neither closes nor reopens a client, and a
\* client that was never connected has none but those of a finished heartbeat.
LEMMA BackgroundKeeps ==
  ASSUME IInv, NEW c \in Clients, Background(c)
  PROVE  /\ client' = [client EXCEPT ![c] = client'[c]]
         /\ client'[c].closed = client[c].closed
         /\ Fresh(c) => Fresh(c)'
<1> DEFINE s == client[c]
           Same(t) == t.closed = s.closed /\ (Fresh(c) => t.gens = 0 /\ t.retry = 0)
<1>1. s \in ClientState /\ Chain(s) /\ DOMAIN client = Clients
  BY DEF IInv, TypeOK
<1>2. SUFFICES \E t : Become(c, t) /\ Same(t)
  <2>1. PICK t : Become(c, t) /\ Same(t)
    BY <1>2
  <2>2. client'[c] = t
    BY <1>1, <2>1 DEF Become
  <2>3. QED
    BY <2>1, <2>2 DEF Become, Fresh
<1> HIDE DEF s
<1>3. ASSUME Fresh(c)
      PROVE  s.timers = 0 /\ s.failing = 0 /\ s.readers = {} /\ s.open = {}
  <2>1. s.gens = 0 /\ s.retry = 0
    BY <1>3 DEF Fresh, s
  <2>2. /\ Pending(s) = 0 /\ (s.conn # 0 => s.conn = s.gens)
        /\ (\A r \in s.readers : r.ctx = s.conn /\ r.ctx # 0)
        /\ s.open \subseteq {s.conn} \ {0}
    BY <1>1, <2>1 DEF Chain
  <2>3. s.conn = 0
    BY <2>1, <2>2
  <2>4. s.timers \in Nat /\ s.failing \in Nat
    BY <1>1 DEF ClientState
  <2>5. s.timers = 0 /\ s.failing = 0
    BY <2>2, <2>4 DEF Pending
  <2>6. QED
    BY <2>2, <2>3, <2>5
<1>4. CASE TimerConnects(c)
  <2> DEFINE u == [s EXCEPT !.timers = @ - 1]
  <2>1. s.timers > 0 /\ Become(c, Established(u))
    BY <1>4 DEF TimerConnects, s
  <2>2. u \in ClientState /\ u.closed = s.closed
    BY <1>1, <2>1 DEF ClientState
  <2> HIDE DEF u
  <2>3. ~Fresh(c)
    BY <1>3, <2>1
  <2>4. Established(u).closed = s.closed
    BY <2>2, EstablishedFields
  <2>5. QED
    BY <2>1, <2>3, <2>4
<1>5. CASE TimerFails(c)
  <2> DEFINE v == [s EXCEPT !.timers = @ - 1]
             u == [s EXCEPT !.timers = @ - 1, !.failing = @ + 1]
  <2>1. s.timers > 0 /\ Become(c, ConnectError(u))
    BY <1>5 DEF TimerFails, s
  <2>2. v \in ClientState /\ v.closed = s.closed /\ v.failing \in Nat
    BY <1>1, <2>1 DEF ClientState
  <2>3. u = [v EXCEPT !.failing = @ + 1]
    BY <1>1 DEF ClientState
  <2> HIDE DEF u, v
  <2>4. u \in ClientState /\ u.closed = s.closed
    BY <2>2, <2>3 DEF ClientState
  <2>5. ConnectError(u).closed = s.closed
    BY <2>4, ConnectErrorFields
  <2>6. ~Fresh(c)
    BY <1>3, <2>1
  <2>7. QED
    BY <2>1, <2>5, <2>6
<1>6. CASE RetryAfterFailure(c)
  <2> DEFINE u == [s EXCEPT !.failing = @ - 1]
  <2>1. s.failing > 0 /\ Become(c, Reconnect(u))
    BY <1>6 DEF RetryAfterFailure, s
  <2>2. u \in ClientState /\ u.closed = s.closed
    BY <1>1, <2>1 DEF ClientState
  <2> HIDE DEF u
  <2>3. u.closed => Reconnect(u) = u
    BY DEF Reconnect
  <2>4. ~u.closed => Reconnect(u).closed = u.closed
    BY <2>2, ReconnectFields
  <2>5. ~Fresh(c)
    BY <1>3, <2>1
  <2>6. QED
    BY <2>1, <2>2, <2>3, <2>4, <2>5
<1>7. CASE ReaderStep(c)
  <2>1. PICK r \in s.readers :
          ReaderLoads(c, r) \/ ReaderReads(c, r) \/ ReaderErrs(c, r) \/ ReaderEnds(c, r)
    BY <1>7 DEF ReaderStep, s
  <2>2. ~Fresh(c) /\ r \in Reader
    BY <1>1, <1>3, <2>1 DEF ClientState
  <2>3. ASSUME NEW new PROVE Replace(s, r, new).closed = s.closed
    BY <1>1 DEF Replace, ClientState
  <2>4. CASE \E new : Become(c, Replace(s, r, new))
    BY <2>2, <2>3, <2>4
  <2>5. CASE ReaderEnds(c, r)
    <3> DEFINE u == Replace(s, r, {})
    <3>1. Become(c, IF r.ctx \in u.live THEN Reconnect(u) ELSE u)
      BY <2>5 DEF ReaderEnds, s
    <3>2. u \in ClientState /\ u.closed = s.closed
      BY <1>1 DEF Replace, ClientState
    <3> HIDE DEF u
    <3>3. u.closed => Reconnect(u) = u
      BY DEF Reconnect
    <3>4. ~u.closed => Reconnect(u).closed = u.closed
      BY <3>2, ReconnectFields
    <3>5. QED
      BY <2>2, <3>1, <3>2, <3>3, <3>4
  <2>6. QED
    BY <2>1, <2>4, <2>5 DEF ReaderLoads, ReaderReads, ReaderErrs, s
<1>8. CASE BeatStep(c)
  <2>1. PICK g \in s.beats : Become(c, [s EXCEPT !.beats = @ \ {g}])
    BY <1>8 DEF BeatStep, BeatEnds, s
  <2> DEFINE t == [s EXCEPT !.beats = @ \ {g}]
  <2>2. t.closed = s.closed /\ t.gens = s.gens /\ t.retry = s.retry
    BY <1>1 DEF ClientState
  <2>3. Become(c, t)
    BY <2>1
  <2> HIDE DEF t
  <2>4. QED
    BY <2>2, <2>3 DEF Fresh, s
<1>9. CASE \E g \in s.open : PeerDrops(c, g)
  <2>1. PICK g \in s.open : Become(c, [s EXCEPT !.broken = @ \cup {g}])
    BY <1>9 DEF PeerDrops, s
  <2>2. ~Fresh(c)
    BY <1>3, <2>1
  <2>3. [s EXCEPT !.broken = @ \cup {g}].closed = s.closed
    BY <1>1 DEF ClientState
  <2>4. QED
    BY <2>1, <2>2, <2>3
<1>10. QED
  BY <1>4, <1>5, <1>6, <1>7, <1>8, <1>9 DEF Background, TimerStep, s

\* The batch exists only while it is connected, and the manager is empty until
\* it is handed over; a running client of the batch is one that connected, so a
\* round that is given up leaves none behind; and the sweep has every client
\* it will not return to the manager either still to look at or closed.
OwnInv ==
  /\ init.phase = "connect" \/ init.batch = {}
  /\ init.phase = "connect" => init.queue \subseteq init.batch
  /\ init.phase # "done" => managed = {}
  /\ \A c \in Clients :
       Fresh(c) \/ client[c].closed \/ c \in managed \/ (c \in init.batch /\ c \in init.connected)
  /\ sweep.running =>
       \A c \in managed : client[c].closed \/ c \in sweep.todo \cup sweep.alive \cup sweep.doomed
  /\ ~sweep.running => sweep.todo = {} /\ sweep.doomed = {}
  /\ \A c, d \in sweep.doomed : c = d
  /\ managed \subseteq Clients
  /\ sweep.todo \subseteq managed /\ sweep.alive \subseteq managed

\* The records of the two owners.
OwnType ==
  /\ init \in [phase : {"create", "connect", "failed", "done"}, round : Nat,
               queue : SUBSET Clients, batch : SUBSET Clients, connected : SUBSET Clients]
  /\ sweep \in [running : BOOLEAN, todo : SUBSET Clients, alive : SUBSET Clients,
                doomed : SUBSET Clients]

MInv == IInv /\ OwnType /\ OwnInv

\* No client runs at the start, and nobody owns one.
LEMMA MInvInit == ManagerInit => MInv
<1> SUFFICES ASSUME ManagerInit PROVE MInv
  OBVIOUS
<1>1. IInv
  BY NewClientChain DEF ManagerInit, Init, IInv, TypeOK
<1>2. \A c \in Clients : Fresh(c)
  BY DEF ManagerInit, Init, Fresh, NewClient
<1>3. QED
  BY <1>1, <1>2 DEF ManagerInit, NoSweep, MInv, OwnType, OwnInv

\* Whoever takes a client through one of its steps keeps the client's invariant.
LEMMA ClientsKeep == ASSUME IInv, [ManagerNext]_vars PROVE IInv'
<1>1. CASE UNCHANGED client
  BY <1>1 DEF IInv, TypeOK
<1>2. ASSUME NEW c \in Clients, KeepsChain(c)
      PROVE  IInv'
  <2>1. PICK t \in ClientState : Chain(t) /\ client' = [client EXCEPT ![c] = t]
    BY <1>2 DEF KeepsChain, Become
  <2>2. QED
    BY <2>1 DEF IInv, TypeOK
<1>3. ASSUME NEW c \in Clients, ConnectNext(c)
      PROVE  IInv'
  BY <1>2, <1>3, ConnectSteps DEF ConnectNext
<1>4. ASSUME NEW c \in Clients, SweepCloses(c)
      PROVE  IInv'
  BY <1>2, <1>4, ClosedChain DEF SweepCloses
<1>5. ASSUME NEW c \in Clients, BackgroundStep(c)
      PROVE  IInv'
  BY <1>2, <1>5, TimerSteps, ReaderSteps, OtherSteps DEF BackgroundStep, Background
<1>6. QED
  BY <1>1, <1>3, <1>4, <1>5
     DEF ManagerNext, InitStep, SweepStep, CreateFails, CreateClients, RoundFails, AddClients,
         SweepStarts, SweepFindsAlive, SweepFindsDead, SweepEnds, vars

\* The start-up goroutine.
LEMMA InitKeepsOwned == ASSUME MInv, InitStep PROVE OwnType' /\ OwnInv'
<1>0. OwnType /\ OwnInv /\ client \in [Clients -> ClientState]
  BY DEF MInv, IInv, TypeOK
<1>1. CASE CreateFails \/ RoundFails
  <2>1. UNCHANGED <<client, managed, sweep>> /\ init' = NextRound /\ init.phase # "done"
    BY <1>1 DEF CreateFails, RoundFails
  <2>2. /\ init'.phase \in {"create", "failed"} /\ init'.batch = {} /\ init'.round \in Nat
        /\ OwnType'
    <3>1. CASE init.round < MaxAttempts
      <4> DEFINE n == init.round + 1
      <4>1. init' = [init EXCEPT !.phase = "create", !.round = n, !.batch = {}]
        BY <2>1, <3>1 DEF NextRound
      <4>2. n \in Nat
        BY <1>0 DEF OwnType
      <4> HIDE DEF n
      <4>3. QED
        BY <1>0, <2>1, <4>1, <4>2 DEF OwnType
    <3>2. CASE ~(init.round < MaxAttempts)
      <4>1. init' = [init EXCEPT !.phase = "failed", !.batch = {}]
        BY <2>1, <3>2 DEF NextRound
      <4>2. QED
        BY <1>0, <2>1, <4>1 DEF OwnType
    <3>3. QED
      BY <3>1, <3>2
  <2>3. \A c \in Clients : ~(c \in init.batch /\ c \in init.connected)
    BY <1>0, <1>1 DEF CreateFails, RoundFails, Enough, OwnInv
  <2>4. QED
    BY <1>0, <2>1, <2>2, <2>3 DEF OwnInv, Fresh
<1>2. CASE CreateClients
  <2>1. PICK S \in SUBSET Clients \ {{}} :
          init' = [init EXCEPT !.phase = "connect", !.queue = S, !.batch = S, !.connected = {}]
    BY <1>2 DEF CreateClients
  <2>2. UNCHANGED <<client, managed, sweep>> /\ init.phase = "create"
    BY <1>2 DEF CreateClients
  <2>3. /\ init'.phase = "connect" /\ init'.queue = S /\ init'.batch = S /\ OwnType'
    BY <1>0, <2>1, <2>2 DEF OwnType
  <2>4. init.batch = {}
    BY <1>0, <2>2 DEF OwnInv
  <2>5. QED
    BY <1>0, <2>2, <2>3, <2>4 DEF OwnInv, Fresh
<1>3. CASE AddClients
  <2>1. /\ init' = [init EXCEPT !.phase = "done", !.batch = {}] /\ managed' = managed \cup init.batch
        /\ UNCHANGED <<client, sweep>> /\ ~sweep.running
    BY <1>3 DEF AddClients
  <2>2. /\ init.batch \subseteq Clients
        /\ init'.phase = "done" /\ init'.batch = {} /\ OwnType'
    BY <1>0, <2>1 DEF OwnType
  <2>3. QED
    BY <1>0, <2>1, <2>2 DEF OwnInv, Fresh
<1>4. ASSUME NEW c \in Clients, ConnectNext(c)
      PROVE  OwnType' /\ OwnInv'
  <2>1. init.phase = "connect" /\ c \in init.queue /\ UNCHANGED <<managed, sweep>> /\ managed = {}
    BY <1>0, <1>4 DEF ConnectNext, OwnInv
  <2>2. /\ init'.phase = "connect" /\ init'.batch = init.batch /\ init'.queue = init.queue \ {c}
        /\ init.connected \subseteq init'.connected /\ OwnType'
    <3>1. CASE init' = [init EXCEPT !.queue = @ \ {c}, !.connected = @ \cup {c}]
      BY <1>0, <2>1, <3>1 DEF OwnType
    <3>2. CASE init' = [init EXCEPT !.queue = @ \ {c}]
      BY <1>0, <2>1, <3>2 DEF OwnType
    <3>3. QED
      BY <1>4, <3>1, <3>2 DEF ConnectNext
  <2>3. ASSUME NEW d \in Clients, d # c PROVE client'[d] = client[d]
    BY <1>0, <1>4, <2>3 DEF ConnectNext, FirstConnectOK, FirstConnectFails, Become
  <2>4. Fresh(c)' \/ c \in init'.connected
    <3>1. CASE FirstConnectOK(c) /\ init' = [init EXCEPT !.queue = @ \ {c}, !.connected = @ \cup {c}]
      BY <1>0, <3>1 DEF OwnType
    <3>2. CASE FirstConnectFails(c)
      <4>1. client'[c] = ConnectError(client[c]) /\ Fresh(c)
        BY <1>0, <3>2 DEF FirstConnectFails, Become
      <4>2. ConnectError(client[c]).gens = client[c].gens /\ ConnectError(client[c]).retry = client[c].retry
        BY <1>0, ConnectErrorFields
      <4>3. QED
        BY <4>1, <4>2 DEF Fresh
    <3>3. QED
      BY <1>4, <3>1, <3>2 DEF ConnectNext
  <2>5. QED
    BY <1>0, <2>1, <2>2, <2>3, <2>4 DEF OwnInv, Fresh
<1>5. QED
  BY <1>1, <1>2, <1>3, <1>4 DEF InitStep

\* The cleanup job.
LEMMA SweepKeepsOwned == ASSUME MInv, SweepStarts \/ SweepStep PROVE OwnType' /\ OwnInv'
<1>0. OwnType /\ OwnInv /\ client \in [Clients -> ClientState]
  BY DEF MInv, IInv, TypeOK
<1>1. CASE SweepStarts
  <2>1. /\ UNCHANGED <<client, init, managed>>
        /\ sweep' = [running |-> TRUE, todo |-> managed, alive |-> {}, doomed |-> {}]
    BY <1>1 DEF SweepStarts, NoSweep
  <2>2. QED
    BY <1>0, <2>1 DEF OwnType, OwnInv, Fresh
<1>2. CASE SweepEnds
  <2>1. /\ UNCHANGED <<client, init>> /\ managed' = sweep.alive /\ sweep.running
        /\ sweep' = [running |-> FALSE, todo |-> {}, alive |-> {}, doomed |-> {}]
        /\ sweep.todo = {} /\ sweep.doomed = {}
    BY <1>2 DEF SweepEnds, NoSweep
  <2>2. QED
    BY <1>0, <2>1 DEF OwnType, OwnInv, Fresh
<1>3. ASSUME NEW c \in Clients, SweepFindsAlive(c) \/ SweepFindsDead(c)
      PROVE  OwnType' /\ OwnInv'
  <2>1. /\ UNCHANGED <<client, init, managed>> /\ sweep.doomed = {} /\ c \in sweep.todo
        /\ \/ sweep' = [sweep EXCEPT !.todo = @ \ {c}, !.alive = @ \cup {c}]
           \/ sweep' = [sweep EXCEPT !.todo = @ \ {c}, !.doomed = {c}]
    BY <1>3 DEF SweepFindsAlive, SweepFindsDead
  <2>2. /\ sweep'.running = sweep.running /\ sweep'.todo = sweep.todo \ {c} /\ OwnType'
        /\ \/ sweep'.alive = sweep.alive \cup {c} /\ sweep'.doomed = {}
           \/ sweep'.alive = sweep.alive /\ sweep'.doomed = {c}
    <3>1. CASE sweep' = [sweep EXCEPT !.todo = @ \ {c}, !.alive = @ \cup {c}]
      BY <1>0, <2>1, <3>1 DEF OwnType
    <3>2. CASE sweep' = [sweep EXCEPT !.todo = @ \ {c}, !.doomed = {c}]
      BY <1>0, <2>1, <3>2 DEF OwnType
    <3>3. QED
      BY <2>1, <3>1, <3>2
  <2>3. sweep.running
    BY <1>0, <2>1 DEF OwnInv, OwnType
  <2>4. QED
    BY <1>0, <2>1, <2>2, <2>3 DEF OwnInv, Fresh
<1>4. ASSUME NEW c \in Clients, SweepCloses(c)
      PROVE  OwnType' /\ OwnInv'
  <2>1. /\ UNCHANGED <<init, managed>> /\ c \in sweep.doomed
        /\ sweep' = [sweep EXCEPT !.doomed = {}] /\ client' = [client EXCEPT ![c] = Closed(client[c])]
    BY <1>4 DEF SweepCloses, Become
  <2>2. Closed(client[c]).closed = TRUE
    BY <1>0 DEF Closed, ClientState
  <2>3. client'[c].closed /\ \A d \in Clients : d # c => client'[d] = client[d]
    BY <1>0, <2>1, <2>2
  <2>4. /\ sweep'.running = sweep.running /\ sweep'.todo = sweep.todo /\ sweep'.alive = sweep.alive
        /\ sweep'.doomed = {} /\ OwnType'
    BY <1>0, <2>1 DEF OwnType
  <2>5. sweep.running /\ sweep.doomed = {c}
    BY <1>0, <2>1 DEF OwnInv, OwnType
  <2>6. QED
    BY <1>0, <2>1, <2>3, <2>4, <2>5 DEF OwnInv, Fresh
<1>5. QED
  BY <1>1, <1>2, <1>3, <1>4 DEF SweepStep

\* The clients' own goroutines.
LEMMA BackgroundKeepsOwned ==
  ASSUME MInv, NEW c \in Clients, BackgroundStep(c) PROVE OwnType' /\ OwnInv'
<1>0. OwnType /\ OwnInv /\ IInv /\ client \in [Clients -> ClientState]
  BY DEF MInv, IInv, TypeOK
<1>1. UNCHANGED <<init, managed, sweep>> /\ Background(c)
  BY DEF BackgroundStep
<1>2. /\ client' = [client EXCEPT ![c] = client'[c]]
      /\ client'[c].closed = client[c].closed
      /\ Fresh(c) => Fresh(c)'
  BY <1>0, <1>1, BackgroundKeeps
<1>3. \A d \in Clients : /\ client'[d].closed = client[d].closed
                         /\ Fresh(d) => Fresh(d)'
  BY <1>0, <1>2 DEF Fresh
<1>4. OwnType'
  BY <1>0, <1>1 DEF OwnType
<1>5. QED
  BY <1>0, <1>1, <1>3, <1>4 DEF OwnInv

\* MInv is inductive.
LEMMA ManagerInvariance == ManagerSpec => []MInv
<1>1. MInv /\ [ManagerNext]_vars => MInv'
  <2> SUFFICES ASSUME MInv, [ManagerNext]_vars PROVE MInv'
    OBVIOUS
  <2>1. IInv'
    BY ClientsKeep DEF MInv
  <2>2. CASE UNCHANGED vars
    BY <2>1, <2>2 DEF MInv, OwnType, OwnInv, Fresh, vars
  <2>3. CASE ManagerNext
    BY <2>1, <2>3, InitKeepsOwned, SweepKeepsOwned, BackgroundKeepsOwned DEF ManagerNext, MInv
  <2>4. QED
    BY <2>2, <2>3
<1>2. QED
  BY <1>1, MInvInit, PTL DEF ManagerSpec

\* Every client that runs is owned: by initMonitorWS until the batch is handed
\* over, then by the manager until it is closed.
THEOREM EveryoneOwned == ManagerSpec => []OwnedOrClosed
<1>1. MInv => OwnedOrClosed
  BY DEF MInv, OwnInv, OwnedOrClosed
<1>2. QED
  BY <1>1, ManagerInvariance, PTL

-----------------------------------------------------------------------------
(* How a client without life is found and dropped.                         *)

\* What keeps a state without life: no timer, no context made live, no reader but
\* those there were and their next positions in the loop.
LEMMA StillLifeless ==
  ASSUME NEW s \in ClientState, NEW t \in ClientState, Pending(s) = 0, Driving(s) = {},
         t.timers = s.timers, t.failing = s.failing, t.live \subseteq s.live,
         \A r \in t.readers : \E q \in s.readers : q.ctx = r.ctx
  PROVE  Pending(t) = 0 /\ Driving(t) = {}
  BY DEF Pending, Driving

\* No step of a client's own goroutines brings it back to life.
LEMMA LifelessStays ==
  ASSUME IInv, NEW c \in Clients, Lifeless(c), Background(c)
  PROVE  Lifeless(c)'
<1> DEFINE s == client[c]
<1>1. s \in ClientState /\ Pending(s) = 0 /\ Driving(s) = {} /\ DOMAIN client = Clients
  BY DEF IInv, TypeOK, Lifeless
<1>2. SUFFICES \E t \in ClientState :
                 /\ Become(c, t) /\ t.timers = s.timers /\ t.failing = s.failing
                 /\ t.live \subseteq s.live
                 /\ \A r \in t.readers : \E q \in s.readers : q.ctx = r.ctx
  <2>1. PICK t \in ClientState :
               /\ Become(c, t) /\ t.timers = s.timers /\ t.failing = s.failing
               /\ t.live \subseteq s.live
               /\ \A r \in t.readers : \E q \in s.readers : q.ctx = r.ctx
    BY <1>2
  <2>2. client'[c] = t
    BY <1>1, <2>1 DEF Become
  <2>3. Pending(t) = 0 /\ Driving(t) = {}
    BY <1>1, <2>1, StillLifeless
  <2>4. QED
    BY <2>2, <2>3 DEF Lifeless
<1>3. s.timers = 0 /\ s.failing = 0
  BY <1>1 DEF Pending, ClientState
<1>4. ~TimerStep(c)
  BY <1>3 DEF TimerStep, TimerConnects, TimerFails, RetryAfterFailure
<1> HIDE DEF s
<1>5. ASSUME NEW r \in s.readers, NEW q \in Reader, q.ctx = r.ctx,
             Become(c, [s EXCEPT !.readers = (@ \ {r}) \cup {q}])
      PROVE  \E t \in ClientState :
                 /\ Become(c, t) /\ t.timers = s.timers /\ t.failing = s.failing
                 /\ t.live \subseteq s.live
                 /\ \A x \in t.readers : \E y \in s.readers : y.ctx = x.ctx
  <2> DEFINE t == [s EXCEPT !.readers = (@ \ {r}) \cup {q}]
  <2>1. /\ t \in ClientState /\ t.timers = s.timers /\ t.failing = s.failing /\ t.live = s.live
        /\ t.readers = (s.readers \ {r}) \cup {q}
    BY <1>1, <1>5 DEF ClientState
  <2>2. Become(c, t)
    BY <1>5
  <2> HIDE DEF t
  <2>3. QED
    BY <1>5, <2>1, <2>2
<1>6. ASSUME NEW r \in s.readers, Become(c, [s EXCEPT !.readers = (@ \ {r}) \cup {}])
      PROVE  \E t \in ClientState :
                 /\ Become(c, t) /\ t.timers = s.timers /\ t.failing = s.failing
                 /\ t.live \subseteq s.live
                 /\ \A x \in t.readers : \E y \in s.readers : y.ctx = x.ctx
  <2> DEFINE t == [s EXCEPT !.readers = (@ \ {r}) \cup {}]
  <2>1. /\ t \in ClientState /\ t.timers = s.timers /\ t.failing = s.failing /\ t.live = s.live
        /\ t.readers = s.readers \ {r}
    BY <1>1, <1>6 DEF ClientState
  <2>2. Become(c, t)
    BY <1>6
  <2> HIDE DEF t
  <2>3. QED
    BY <2>1, <2>2
<1>7. ASSUME NEW r \in s.readers,
             ReaderLoads(c, r) \/ ReaderReads(c, r) \/ ReaderErrs(c, r) \/ ReaderEnds(c, r)
      PROVE  \E t \in ClientState :
                 /\ Become(c, t) /\ t.timers = s.timers /\ t.failing = s.failing
                 /\ t.live \subseteq s.live
                 /\ \A x \in t.readers : \E y \in s.readers : y.ctx = x.ctx
  <2>0. r \in Reader /\ s.conn \in Nat
    BY <1>1 DEF ClientState
  <2>1. CASE ReaderLoads(c, r)
    <3> DEFINE q == [r EXCEPT !.on = s.conn, !.at = "reading"]
    <3>1. q \in Reader /\ q.ctx = r.ctx
      BY <2>0 DEF Reader
    <3>2. Become(c, [s EXCEPT !.readers = (@ \ {r}) \cup (IF s.conn = 0 THEN {} ELSE {q})])
      BY <2>1 DEF ReaderLoads, Replace, s
    <3> HIDE DEF q
    <3>3. CASE s.conn = 0
      BY <1>6, <3>2, <3>3
    <3>4. CASE s.conn # 0
      BY <1>5, <3>1, <3>2, <3>4
    <3>5. QED
      BY <3>3, <3>4
  <2>2. CASE ReaderReads(c, r)
    <3> DEFINE q == [r EXCEPT !.at = "loop"]
    <3>1. q \in Reader /\ q.ctx = r.ctx
      BY <2>0 DEF Reader
    <3>2. Become(c, [s EXCEPT !.readers = (@ \ {r}) \cup {q}])
      BY <2>2 DEF ReaderReads, Replace, s
    <3> HIDE DEF q
    <3>3. QED
      BY <1>5, <3>1, <3>2
  <2>3. CASE ReaderErrs(c, r)
    <3> DEFINE q == [r EXCEPT !.at = "failed"]
    <3>1. q \in Reader /\ q.ctx = r.ctx
      BY <2>0 DEF Reader
    <3>2. Become(c, [s EXCEPT !.readers = (@ \ {r}) \cup {q}])
      BY <2>3 DEF ReaderErrs, Replace, s
    <3> HIDE DEF q
    <3>3. QED
      BY <1>5, <3>1, <3>2
  <2>4. CASE ReaderEnds(c, r)
    <3> DEFINE u == [s EXCEPT !.readers = (@ \ {r}) \cup {}]
    <3>1. u.live = s.live
      BY <1>1 DEF ClientState
    <3>2. r.ctx \notin s.live
      BY <1>1 DEF Driving
    <3>3. Become(c, IF r.ctx \in u.live THEN Reconnect(u) ELSE u)
      BY <2>4 DEF ReaderEnds, Replace, s
    <3>4. Become(c, u)
      BY <3>1, <3>2, <3>3
    <3>5. QED
      BY <1>6, <3>4
  <2>5. QED
    BY <1>7, <2>1, <2>2, <2>3, <2>4
<1>8. CASE BeatStep(c)
  <2>1. PICK g \in s.beats : Become(c, [s EXCEPT !.beats = @ \ {g}])
    BY <1>8 DEF BeatStep, BeatEnds, s
  <2>2. /\ [s EXCEPT !.beats = @ \ {g}] \in ClientState
        /\ [s EXCEPT !.beats = @ \ {g}].timers = s.timers
        /\ [s EXCEPT !.beats = @ \ {g}].failing = s.failing
        /\ [s EXCEPT !.beats = @ \ {g}].live = s.live
        /\ [s EXCEPT !.beats = @ \ {g}].readers = s.readers
    BY <1>1 DEF ClientState
  <2>3. QED
    BY <2>1, <2>2
<1>9. ASSUME NEW g \in s.open, PeerDrops(c, g)
      PROVE  \E t \in ClientState :
                 /\ Become(c, t) /\ t.timers = s.timers /\ t.failing = s.failing
                 /\ t.live \subseteq s.live
                 /\ \A x \in t.readers : \E y \in s.readers : y.ctx = x.ctx
  <2>1. Become(c, [s EXCEPT !.broken = @ \cup {g}])
    BY <1>9 DEF PeerDrops, s
  <2>2. /\ [s EXCEPT !.broken = @ \cup {g}] \in ClientState
        /\ [s EXCEPT !.broken = @ \cup {g}].timers = s.timers
        /\ [s EXCEPT !.broken = @ \cup {g}].failing = s.failing
        /\ [s EXCEPT !.broken = @ \cup {g}].live = s.live
        /\ [s EXCEPT !.broken = @ \cup {g}].readers = s.readers
    BY <1>1 DEF ClientState
  <2>3. QED
    BY <2>1, <2>2
<1>10. QED
  BY <1>4, <1>7, <1>8, <1>9 DEF Background, ReaderStep, s

\* Nor does closing it.
LEMMA LifelessClosed ==
  ASSUME NEW s \in ClientState, Pending(s) = 0, Driving(s) = {}
  PROVE  Pending(Closed(s)) = 0 /\ Driving(Closed(s)) = {}
<1> DEFINE t == Closed(s)
<1>1. /\ t \in ClientState /\ t.timers = s.timers /\ t.failing = s.failing
      /\ t.readers = s.readers /\ t.live = s.live \ {s.ctx}
  BY DEF Closed, ClientState
<1> HIDE DEF t
<1>2. Pending(t) = 0 /\ Driving(t) = {}
  BY <1>1, StillLifeless
<1>3. QED
  BY <1>2 DEF t

\* y is nearer to the end of a sweep than x: the sweep has ended, has fewer clients
\* to look at, or has closed the one it found.
NearerDone(x, y) ==
  /\ x.running
  /\ \/ ~y.running
     \/ y.todo \subseteq x.todo /\ y.todo # x.todo
     \/ y.todo = x.todo /\ x.doomed # {} /\ y.doomed = {}

\* Steps of a sweep.
LEMMA SweepLowers == ASSUME OwnType, OwnInv, SweepStep PROVE NearerDone(sweep, sweep')
<1>0. /\ sweep \in [running : BOOLEAN, todo : SUBSET Clients, alive : SUBSET Clients,
                    doomed : SUBSET Clients]
      /\ ~sweep.running => sweep.todo = {} /\ sweep.doomed = {}
  BY DEF OwnType, OwnInv
<1>1. CASE SweepEnds
  BY <1>1 DEF SweepEnds, NoSweep, NearerDone
<1>2. ASSUME NEW c \in Clients, SweepFindsAlive(c) \/ SweepFindsDead(c)
      PROVE  NearerDone(sweep, sweep')
  <2>1. c \in sweep.todo /\ sweep'.todo = sweep.todo \ {c}
    BY <1>0, <1>2 DEF SweepFindsAlive, SweepFindsDead
  <2>2. QED
    BY <1>0, <2>1 DEF NearerDone
<1>3. ASSUME NEW c \in Clients, SweepCloses(c) PROVE NearerDone(sweep, sweep')
  <2>1. c \in sweep.doomed /\ sweep'.todo = sweep.todo /\ sweep'.doomed = {}
    BY <1>0, <1>3 DEF SweepCloses
  <2>2. QED
    BY <1>0, <2>1 DEF NearerDone
<1>4. QED
  BY <1>1, <1>2, <1>3 DEF SweepStep

\* IsConnected denies a client without life, so a sweep that comes to it closes it.
LifelessShows == \A c \in Clients : Lifeless(c) => ~LooksConnected(c)
\* A managed client without life stays so, and is closed by the time it is forgotten.
LifelessRemains ==
  \A c \in managed : Lifeless(c) => Lifeless(c)' /\ (c \in managed' \/ client'[c].closed)
\* A sweep goes on to its end, and nobody else moves it.
SweepAdvances ==
  /\ SweepStep => NearerDone(sweep, sweep')
  /\ UNCHANGED sweep \/ SweepStep \/ SweepStarts

\* A client that could still look connected has a reader that drives it.
LEMMA LifelessIsShown == ASSUME IInv PROVE LifelessShows
<1> SUFFICES ASSUME NEW c \in Clients, Lifeless(c), LooksConnected(c) PROVE FALSE
  BY DEF LifelessShows
<1>1. /\ Chain(client[c]) /\ Driving(client[c]) = {}
      /\ client[c].conn # 0 /\ ~client[c].closed
  BY DEF IInv, Lifeless, LooksConnected
<1>2. PICK r \in client[c].readers : r.ctx \in client[c].live
  BY <1>1 DEF Chain
<1>3. QED
  BY <1>1, <1>2 DEF Driving

\* Steps of every actor keep a managed client without life as it is.
LEMMA LifelessKept ==
  ASSUME MInv, ManagerNext, NEW c \in managed, Lifeless(c)
  PROVE  Lifeless(c)' /\ (c \in managed' \/ client'[c].closed)
<1>0. /\ OwnType /\ OwnInv /\ IInv /\ c \in Clients /\ init.phase = "done"
      /\ client \in [Clients -> ClientState] /\ Pending(client[c]) = 0 /\ Driving(client[c]) = {}
  BY DEF MInv, IInv, TypeOK, OwnInv, Lifeless
<1>1. ASSUME UNCHANGED client, managed \subseteq managed'
      PROVE  Lifeless(c)' /\ (c \in managed' \/ client'[c].closed)
  BY <1>0, <1>1 DEF Lifeless
<1>2. CASE InitStep
  BY <1>0, <1>2 DEF InitStep, CreateFails, CreateClients, RoundFails, AddClients, ConnectNext
<1>3. CASE SweepStarts
  BY <1>1, <1>3 DEF SweepStarts
<1>4. CASE SweepEnds
  <2>1. UNCHANGED client /\ managed' = sweep.alive /\ sweep.running /\ sweep.todo = {} /\ sweep.doomed = {}
    BY <1>4 DEF SweepEnds
  <2>2. client[c].closed \/ c \in sweep.alive
    BY <1>0, <2>1 DEF OwnInv
  <2>3. QED
    BY <1>0, <2>1, <2>2 DEF Lifeless
<1>5. ASSUME NEW d \in Clients, SweepFindsAlive(d) \/ SweepFindsDead(d)
      PROVE  Lifeless(c)' /\ (c \in managed' \/ client'[c].closed)
  BY <1>1, <1>5 DEF SweepFindsAlive, SweepFindsDead
<1>6. ASSUME NEW d \in Clients, SweepCloses(d)
      PROVE  Lifeless(c)' /\ (c \in managed' \/ client'[c].closed)
  <2>1. client' = [client EXCEPT ![d] = Closed(client[d])] /\ UNCHANGED managed
    BY <1>6 DEF SweepCloses, Become
  <2>2. CASE d = c
    <3>1. client'[c] = Closed(client[c])
      BY <1>0, <2>1, <2>2
    <3>2. Pending(client'[c]) = 0 /\ Driving(client'[c]) = {}
      BY <1>0, <3>1, LifelessClosed
    <3>3. QED
      BY <2>1, <3>2 DEF Lifeless
  <2>3. CASE d # c
    BY <1>0, <2>1, <2>3 DEF Lifeless
  <2>4. QED
    BY <2>2, <2>3
<1>7. ASSUME NEW d \in Clients, BackgroundStep(d)
      PROVE  Lifeless(c)' /\ (c \in managed' \/ client'[c].closed)
  <2>1. Background(d) /\ UNCHANGED managed
    BY <1>7 DEF BackgroundStep
  <2>2. CASE d = c
    BY <1>0, <2>1, <2>2, LifelessStays
  <2>3. CASE d # c
    <3>1. client'[c] = client[c]
      BY <1>0, <2>1, <2>3, BackgroundKeeps
    <3>2. QED
      BY <1>0, <2>1, <3>1 DEF Lifeless
  <2>4. QED
    BY <2>2, <2>3
<1>8. QED
  BY <1>2, <1>3, <1>4, <1>5, <1>6, <1>7 DEF ManagerNext, SweepStep

\* The part of LifelessIsDropped that needs no fairness: IsConnected denies a client
\* without life, nothing that initMonitorWS, a sweep, a goroutine or the network does
\* gives it back its life, it leaves the manager only closed, and a sweep that has
\* begun comes nearer to its end with each of its steps.
THEOREM LifelessIsFound ==
  ManagerSpec => []LifelessShows /\ [][LifelessRemains /\ SweepAdvances]_vars
<1>1. MInv => LifelessShows
  BY LifelessIsShown DEF MInv
<1>2. MInv /\ [ManagerNext]_vars => [LifelessRemains /\ SweepAdvances]_vars
  <2> SUFFICES ASSUME MInv, ManagerNext PROVE LifelessRemains /\ SweepAdvances
    BY DEF vars
  <2>1. LifelessRemains
    BY LifelessKept DEF LifelessRemains
  <2>2. SweepStep => NearerDone(sweep, sweep')
    BY SweepLowers DEF MInv
  <2>3. UNCHANGED sweep \/ SweepStep \/ SweepStarts
    BY DEF ManagerNext, InitStep, CreateFails, CreateClients, RoundFails, AddClients, ConnectNext,
       BackgroundStep
  <2>4. QED
    BY <2>1, <2>2, <2>3 DEF SweepAdvances
<1>3. QED
  BY <1>1, <1>2, ManagerInvariance, PTL DEF ManagerSpec

-----------------------------------------------------------------------------
(* The owners take a client only through its own steps.                    *)

\* Closing a client twice is closing it once, so a sweep that finds a client
\* closed, or closed since it looked, changes nothing of it.
LEMMA ClosedAgain ==
  ASSUME IInv, NEW c \in Clients, client[c].closed
  PROVE  Closed(client[c]) = client[c]
<1> DEFINE s == client[c]
<1>1. s \in ClientState /\ Chain(s) /\ s.closed
  BY DEF IInv, TypeOK
<1> HIDE DEF s
<1>2. s.closed = TRUE
  BY <1>1 DEF ClientState
<1>3. s.live = {} /\ s.open = {}
  BY <1>1 DEF Chain
<1>4. s.broken \ {s.conn} = s.broken
  BY <1>1, <1>3 DEF Chain
<1>5. s = [s EXCEPT !.closed = TRUE, !.live = s.live, !.open = s.open, !.broken = s.broken]
  BY <1>1, <1>2 DEF ClientState
<1>6. Closed(s) = s
  BY <1>2, <1>3, <1>4, <1>5 DEF Closed
<1>7. QED
  BY <1>6 DEF s

\* Under initMonitorWS and the cleanup job a client takes no step that WSClient
\* does not give it: what holds of every client holds of the managed ones.
THEOREM ManagerImplementsClients == ManagerSpec => Spec
<1>1. ManagerInit => Init
  BY DEF ManagerInit
<1>2. IInv /\ [ManagerNext]_vars => [Next]_client
  <2> SUFFICES ASSUME IInv, [ManagerNext]_vars, client' # client PROVE Next
    OBVIOUS
  <2>1. ASSUME NEW c \in Clients, ConnectNext(c)
        PROVE  Next
    BY <2>1 DEF ConnectNext, Next
  <2>2. ASSUME NEW c \in Clients, SweepCloses(c)
        PROVE  Next
    <3>1. Become(c, Closed(client[c]))
      BY <2>2 DEF SweepCloses
    <3>2. ~client[c].closed
      BY <3>1, ClosedAgain DEF Become, IInv, TypeOK
    <3>3. QED
      BY <3>1, <3>2 DEF Close, Next
  <2>3. ASSUME NEW c \in Clients, BackgroundStep(c)
        PROVE  Next
    BY <2>3 DEF BackgroundStep, Next
  <2>4. QED
    BY <2>1, <2>2, <2>3
       DEF ManagerNext, InitStep, SweepStep, CreateFails, CreateClients, RoundFails, AddClients,
           SweepStarts, SweepFindsAlive, SweepFindsDead, SweepEnds, vars
<1>3. ManagerInit => IInv
  BY MInvInit DEF MInv
<1>4. QED
  BY <1>1, <1>2, <1>3, ClientsKeep, PTL DEF ManagerSpec, Spec

\* So every safety property of the clients, and the steps of the abstract link,
\* hold of the clients that initMonitorWS starts and the cleanup job closes.
THEOREM ManagedClientsHold ==
  ManagerSpec => /\ [](SingleDriver /\ NeverOrphaned /\ NothingLeaks /\ HeartbeatCovers /\ RetryBudget)
                 /\ Link!LinkInit /\ [][Link!LinkNext]_Links
<1>1. Spec => [](SingleDriver /\ NeverOrphaned /\ NothingLeaks /\ HeartbeatCovers /\ RetryBudget)
  BY OneDriver, NoOrphan, NoLeak, HeartbeatRuns, BudgetHolds, PTL
<1>2. QED
  BY <1>1, ManagerImplementsClients, LinkImplemented
=============================================================================
