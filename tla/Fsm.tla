-------------------------------- MODULE Fsm ---------------------------------
(***************************************************************************)
(* HandlerFSM: the state machine that connects, runs the pipeline, idles   *)
(* when a connection is lost and stops on request.                         *)
(*                                                                         *)
(* Two threads drive it.  "fsm" executes HandlerFSM.run.  "main" waits for *)
(* it and, on a keyboard interrupt, calls stop_machine once.  Both send    *)
(* events through python-statemachine's engine: an event is queued, and    *)
(* whichever thread finds the processing lock free works the queue off,    *)
(* callbacks included, while the other one's send returns at once.  So     *)
(* do_idle and do_run may run inside the engine or outside it, on either   *)
(* thread: "owner" tells which.                                            *)
(*                                                                         *)
(* Waits on the connection condition have timeouts: a notification only    *)
(* shortens them, and is left out.                                         *)
(***************************************************************************)
EXTENDS Naturals, Sequences

CONSTANTS
  Conns,         \* the connections: InfluxDB and the MQTT broker
  MaxChanges,    \* bound: changes of the environment
  MaxQueue,      \* bound: events waiting in the engine's queue
  StopOutcomes,  \* how stopping the pipeline may end (see module Pipeline)
  ConnTroubles   \* how a call of a connection may fail (see Mqtt and Checker)

ASSUME FsmAssumption ==
  /\ MaxChanges \in Nat /\ MaxQueue \in Nat \ {0}
  /\ "returns" \in StopOutcomes
  /\ StopOutcomes \subseteq {"returns", "raises", "hangs"}
  /\ ConnTroubles \subseteq {"raises", "locks"}

Threads == {"fsm", "main"}
Events  == {"init", "connection", "disconnection", "finish"}

VARIABLES
  state,    \* current_state
  queue,    \* the engine's external queue
  owner,    \* holder of the engine's processing lock, or "none"
  event,    \* __event
  up,       \* connections established
  reach,    \* environment: services that accept a connection
  changes,  \* environment: changes so far
  writer,   \* MsgDispatcher.influx_writer: "none", "live" or "stopped"
  live,     \* writer threads started and not yet stopped
  pc        \* where each thread is

engine  == <<state, queue, owner>>
env     == <<reach, changes>>
session == <<writer, live>>

vars == <<engine, event, up, env, session, pc>>

Both == up = Conns   \* are_both_connected

Goto(t, from, to) == pc[t] = from /\ pc' = [pc EXCEPT ![t] = to]

\* send queues the event, and then tries the lock.
Put(t, from, e) == /\ Len(queue) < MaxQueue
                   /\ Goto(t, from, "try") /\ queue' = Append(queue, e)

\* Returning from do_idle, do_run or do_stop: to the engine when it made the
\* call, else to the loop of run, or out of it.
After(t, outside) == IF owner = t THEN "take" ELSE outside

Init ==
  /\ state = "starting" /\ queue = <<>> /\ owner = "none"
  /\ event = FALSE
  /\ up = {} /\ reach \in SUBSET Conns /\ changes = 0
  /\ writer = "none" /\ live = 0
  /\ pc = [t \in Threads |-> IF t = "fsm" THEN "top" ELSE "idle"]

----------------------------------------------------------------------------
(* The loop of HandlerFSM.run, do_state and do_start.                      *)

\* do_start makes fresh connection objects, and is about to send init.
Top ==
  /\ \/ state = "starting" /\ Put("fsm", "top", "init") /\ up' = {}
     \/ state = "idling"  /\ Goto("fsm", "top", "idleEnter") /\ UNCHANGED <<queue, up>>
     \/ state = "running" /\ Goto("fsm", "top", "runEnter")  /\ UNCHANGED <<queue, up>>
     \/ state = "final"   /\ Goto("fsm", "top", "stopWriter") /\ UNCHANGED <<queue, up>>
  /\ UNCHANGED <<state, owner, event, env, session>>

----------------------------------------------------------------------------
(* do_idle.                                                                *)

ResetEvent == event' = FALSE

IdleEnter(t) ==
  /\ Goto(t, "idleEnter", "idleConnect")
  /\ ResetEvent
  /\ UNCHANGED <<engine, up, env, session>>

IdleConnect(t) ==   \* start_connections
  /\ Goto(t, "idleConnect", "idleTest")
  /\ up' = up \cup reach
  /\ UNCHANGED <<engine, event, env, session>>

IdleTest(t) ==
  /\ Goto(t, "idleTest", IF event \/ Both THEN "idleSend" ELSE "idleConnect")
  /\ UNCHANGED <<engine, event, up, env, session>>

IdleSend(t) ==
  /\ IF Both THEN Put(t, "idleSend", "connection")
             ELSE Goto(t, "idleSend", After(t, "top")) /\ UNCHANGED queue
  /\ UNCHANGED <<state, owner, event, up, env, session>>

----------------------------------------------------------------------------
(* on_enter_running and do_run.                                            *)

SetWriter(t) ==
  /\ Goto(t, "setWriter", "runEnter")
  /\ writer' = "live" /\ live' = live + 1
  /\ UNCHANGED <<engine, event, up, env>>

RunEnter(t) ==
  /\ Goto(t, "runEnter", "runTest")
  /\ ResetEvent
  /\ UNCHANGED <<engine, up, env, session>>

\* Mutant: do_run looks at the event only.
RunTestEventOnly(t) ==
  /\ event
  /\ Goto(t, "runTest", "runSend")
  /\ UNCHANGED <<engine, event, up, env, session>>

\* Mutant: do_run looks at the connections only.
RunTestConnectionsOnly(t) ==
  /\ ~Both
  /\ Goto(t, "runTest", "runSend")
  /\ UNCHANGED <<engine, event, up, env, session>>

RunTest(t) ==   \* it waits as long as the loop goes round
  /\ event \/ ~Both
  /\ Goto(t, "runTest", "runSend")
  /\ UNCHANGED <<engine, event, up, env, session>>

RunSend(t) ==
  /\ IF Both THEN Goto(t, "runSend", After(t, "top")) /\ UNCHANGED queue
             ELSE Put(t, "runSend", "disconnection")
  /\ UNCHANGED <<state, owner, event, up, env, session>>

----------------------------------------------------------------------------
(* do_stop: MsgDispatcher.graceful_stop, then stop_connections.            *)

\* An exception leaves the thread's outermost call: the thread is over, the
\* engine clears its queue and releases its lock when it was processing.
Raise(t) ==
  /\ pc' = [pc EXCEPT ![t] = "raised"]
  /\ IF owner = t THEN queue' = <<>> /\ owner' = "none"
                  ELSE UNCHANGED <<queue, owner>>

\* Mutant: every stop is taken for the first.
WriterEndsAgain == live' = live - 1

\* The writer's thread, if there is one and it is alive, has ended.
WriterEnds == live' = IF writer = "live" THEN live - 1 ELSE live

StopWriter(t) ==
  /\ \/ /\ Goto(t, "stopWriter", "stopConns")
        /\ WriterEnds
        /\ writer' = IF writer = "none" THEN "none" ELSE "stopped"
        /\ UNCHANGED <<queue, owner>>
     \/ /\ writer # "none" /\ "hangs" \in StopOutcomes
        /\ Goto(t, "stopWriter", "hung")
        /\ UNCHANGED <<queue, owner, session>>
     \/ /\ writer # "none" /\ "raises" \in StopOutcomes
        /\ pc[t] = "stopWriter" /\ Raise(t)
        /\ UNCHANGED session
  /\ UNCHANGED <<state, event, up, env>>

\* Mutant: do_stop leaves the connections alone.
StopConnsNot(t) ==
  /\ Goto(t, "stopConns", After(t, "done"))
  /\ UNCHANGED <<engine, event, up, env, session>>

StopConns(t) ==
  /\ Goto(t, "stopConns", After(t, "done"))
  /\ up' = {}
  /\ UNCHANGED <<engine, event, env, session>>

----------------------------------------------------------------------------
(* The engine.                                                             *)

\* Once its event is queued, a thread works the queue off if nobody does; a
\* nested send leaves that to the loop it was called from.
Try(t) ==
  /\ \/ /\ owner \in {t, "none"} /\ Goto(t, "try", "take")
        /\ owner' = t
     \/ /\ owner \notin {t, "none"} /\ UNCHANGED owner
        /\ Goto(t, "try", IF t = "fsm" THEN "top" ELSE "join")
  /\ UNCHANGED <<state, queue, event, up, env, session>>

Handle(t, e) == pc[t] = "take" /\ queue # <<>> /\ Head(queue) = e /\ queue' = Tail(queue)

TakeInit(t) ==
  /\ Handle(t, "init") /\ state = "starting"
  /\ state' = "idling" /\ Goto(t, "take", "idleEnter")
  /\ UNCHANGED <<owner, event, up, env, session>>

\* Mutant: the machine is running without a writer.
TakeConnectionBare(t) ==
  /\ Handle(t, "connection") /\ state = "idling"
  /\ IF Both THEN state' = "running" /\ Goto(t, "take", "runEnter")
             ELSE UNCHANGED <<state, pc>>
  /\ UNCHANGED <<owner, event, up, env, session>>

\* Mutant: the event is taken in every state, the final one included.
TakeConnectionAlways(t) ==
  /\ Handle(t, "connection")
  /\ IF Both THEN state' = "running" /\ Goto(t, "take", "setWriter")
             ELSE UNCHANGED <<state, pc>>
  /\ UNCHANGED <<owner, event, up, env, session>>

\* When a connection has been lost since it was sent, the machine stays in
\* idling: the engine does not enter a state again that it is in.
TakeConnection(t) ==
  /\ Handle(t, "connection") /\ state = "idling"
  /\ IF Both THEN state' = "running" /\ Goto(t, "take", "setWriter")
             ELSE UNCHANGED <<state, pc>>
  /\ UNCHANGED <<owner, event, up, env, session>>

\* Mutant: on_disconnection does not stop the pipeline.
TakeDisconnectionOnly(t) ==
  /\ Handle(t, "disconnection") /\ state = "running"
  /\ state' = "idling" /\ Goto(t, "take", "idleEnter")
  /\ UNCHANGED <<owner, event, up, env, session>>

\* on_disconnection stops the pipeline before the state changes.
TakeDisconnection(t) ==
  /\ Handle(t, "disconnection") /\ state \in {"idling", "running"}
  /\ Goto(t, "take", "drop")
  /\ UNCHANGED <<state, owner, event, up, env, session>>

Drop(t) ==
  /\ \/ /\ Goto(t, "drop", IF state = "running" THEN "idleEnter" ELSE "take")
        /\ state' = "idling"
        /\ WriterEnds /\ writer' = "none"
        /\ UNCHANGED <<queue, owner>>
     \/ /\ writer # "none" /\ "hangs" \in StopOutcomes
        /\ Goto(t, "drop", "hung")
        /\ UNCHANGED <<engine, session>>
     \/ /\ writer # "none" /\ "raises" \in StopOutcomes
        /\ pc[t] = "drop" /\ Raise(t)
        /\ UNCHANGED <<state, session>>
  /\ UNCHANGED <<event, up, env>>

TakeFinish(t) ==
  /\ Handle(t, "finish") /\ state \in {"idling", "running"}
  /\ state' = "final" /\ Goto(t, "take", "stopWriter")
  /\ UNCHANGED <<owner, event, up, env, session>>

Allowed == { <<"init", "starting">>, <<"connection", "idling">>,
             <<"disconnection", "running">>, <<"disconnection", "idling">>,
             <<"finish", "idling">>, <<"finish", "running">> }

\* TransitionNotAllowed; a machine in its final state may also ignore events.
TakeRefused(t) ==
  /\ pc[t] = "take" /\ queue # <<>> /\ <<Head(queue), state>> \notin Allowed
  /\ \/ Raise(t)
     \/ state = "final" /\ queue' = Tail(queue) /\ UNCHANGED <<owner, pc>>
  /\ UNCHANGED <<state, event, up, env, session>>

\* The queue is seen empty, and only then is the lock released.
TakeNothing(t) ==
  /\ queue = <<>> /\ Goto(t, "take", "release")
  /\ UNCHANGED <<engine, event, up, env, session>>

Release(t) ==
  /\ Goto(t, "release", IF t = "fsm" THEN "top" ELSE "join")
  /\ owner' = "none"
  /\ UNCHANGED <<state, queue, event, up, env, session>>

----------------------------------------------------------------------------
(* Calls of the connections that do not return.                            *)

TakesConnection(t) == pc[t] = "take" /\ queue # <<>> /\ Head(queue) = "connection"

\* start_connections and are_both_connected.
AsksConnections(t) ==
  pc[t] \in {"idleConnect", "idleTest", "idleSend", "runTest", "runSend"} \/ TakesConnection(t)

\* log_status asks is_connected too, when it is to log on MQTT.
LogsStatus(t) == pc[t] \in {"top", "idleEnter", "setWriter", "drop", "stopWriter"}

\* MQTTConnection's connect and disconnect may wait for ever with its lock
\* held (Mqtt: LockedOut), and then so does whoever asks is_connected.
ConnLocks(t) ==
  /\ "locks" \in ConnTroubles
  /\ \/ pc[t] \in {"idleConnect", "stopConns"}
     \/ /\ AsksConnections(t) \/ LogsStatus(t)
        /\ \E u \in Threads : pc[u] = "locked"
  /\ pc' = [pc EXCEPT ![t] = "locked"]
  /\ UNCHANGED <<engine, event, up, env, session>>

\* InfluxConnection's is_connected raises when the other thread closes the
\* connection meanwhile (Checker: RaiseNeedsRival).
ConnRaises(t) ==
  /\ "raises" \in ConnTroubles /\ pc["main"] # "idle"
  /\ AsksConnections(t) /\ Raise(t)
  /\ UNCHANGED <<state, event, up, env, session>>

----------------------------------------------------------------------------
(* The main thread: stop_machine, then join.                               *)

Interrupt ==   \* a keyboard interrupt
  /\ Goto("main", "idle", "put")
  /\ event' = TRUE
  /\ UNCHANGED <<engine, up, env, session>>

SendFinish ==
  /\ Put("main", "put", "finish")
  /\ UNCHANGED <<state, owner, event, up, env, session>>

ThreadOver == pc["fsm"] \in {"done", "raised"}

Join ==
  /\ ThreadOver /\ Goto("main", "join", "done")
  /\ UNCHANGED <<engine, event, up, env, session>>

----------------------------------------------------------------------------
(* Environment: services come and go, connections are lost.                *)

Environment ==
  /\ changes < MaxChanges /\ changes' = changes + 1
  /\ \/ reach' \in (SUBSET Conns) \ {reach} /\ UNCHANGED up
     \/ UNCHANGED reach /\ \E c \in up : up' = up \ {c}
  /\ UNCHANGED <<engine, event, session, pc>>

----------------------------------------------------------------------------
Step(t) == \/ IdleEnter(t) \/ IdleConnect(t) \/ IdleTest(t) \/ IdleSend(t)
           \/ SetWriter(t) \/ RunEnter(t) \/ RunTest(t) \/ RunSend(t)
           \/ StopWriter(t) \/ StopConns(t)
           \/ Try(t) \/ TakeInit(t) \/ TakeConnection(t) \/ TakeDisconnection(t)
           \/ Drop(t) \/ TakeFinish(t) \/ TakeRefused(t) \/ TakeNothing(t)
           \/ Release(t)

FsmStep  == Top \/ Step("fsm")
MainStep == SendFinish \/ Join \/ Step("main")
Trouble  == \E t \in Threads : ConnLocks(t) \/ ConnRaises(t)

Next == FsmStep \/ MainStep \/ Interrupt \/ Environment \/ Trouble

\* Threads that can run do.  The interrupt, the environment and trouble with
\* the connections are free.
FairSpec == Init /\ [][Next]_vars /\ WF_vars(FsmStep) /\ WF_vars(MainStep)

Spec == Init /\ [][Next]_vars

----------------------------------------------------------------------------
(* Safety.                                                                 *)

Stuck == {"raised", "hung", "locked"}

\* Every variable holds a value of its type: fields of HandlerFSM,
\* ConnectionHandler and MsgDispatcher, and the engine's queue and lock.
TypeOK ==
  /\ state \in {"starting", "idling", "running", "final"}
  /\ queue \in Seq(Events) /\ owner \in Threads \cup {"none"}
  /\ event \in BOOLEAN
  /\ up \subseteq Conns /\ reach \subseteq Conns /\ changes \in 0..MaxChanges
  /\ writer \in {"none", "live", "stopped"} /\ live \in Nat
  /\ pc \in [Threads -> {"top", "idleEnter", "idleConnect", "idleTest", "idleSend",
                         "setWriter", "runEnter", "runTest", "runSend", "stopWriter",
                         "stopConns", "try", "take", "drop", "release", "idle", "put",
                         "join", "done"} \cup Stuck]

\* At most one InfluxWriter is at work, and it is the one MsgDispatcher holds:
\* whichever thread runs the callbacks, and however stopping it ends, no
\* writer is replaced without having been stopped.
NoWriterLost == live = IF writer = "live" THEN 1 ELSE 0

\* In the running state there is a writer to hand data messages to, but for
\* the moment on_enter_running makes it, which a connection that locks up may
\* make last.
RunningHasWriter ==
  state = "running" =>
    \/ writer = "live"
    \/ \E t \in Threads : pc[t] = "setWriter" \/ (owner = t /\ pc[t] = "locked")

\* HandlerFSM.run returns with the writer stopped and both connections down,
\* also when the main thread ran on_enter_final.
CleanEnd == pc["fsm"] = "done" => live = 0 /\ up = {}

\* The final state is final: whatever events are still queued or sent by the
\* other thread, the machine stays in it and no writer is started any more.
FinalIsFinal == [][state = "final" => state' = "final" /\ live' <= live]_vars

----------------------------------------------------------------------------
(* Liveness.                                                               *)

Untroubled == pc["fsm"] \notin Stuck

\* Whatever connections were lost before, when the services stay reachable
\* and nobody stops it the machine ends up running.
Reconnects ==
  <>[](reach = Conns) /\ [](pc["main"] = "idle" /\ Untroubled)
    => <>[](state = "running" /\ Both)

\* A stop request ends the FSM thread, and with it the wait of the main one,
\* unless something raises or hangs.  It is lost only one way: __event is reset
\* behind its back, by the do_idle or do_run it just missed.
StopOutcome ==
  pc["main"] = "put" ~> \/ pc["main"] = "done" /\ state = "final"
                        \/ \E t \in Threads : pc[t] \in Stuck
                        \/ ~event

----------------------------------------------------------------------------
(* What the documentation says and the code does not do.                   *)

\* stop_machine "triggers the finish event to transition to the final state".
StopReachesFinal ==
  pc["main"] = "put" ~> \/ state = "final"
                        \/ \E t \in Threads : pc[t] \in Stuck
=============================================================================
