------------------------------ MODULE Checker -------------------------------
(***************************************************************************)
(* InfluxConnection and its ConnectionChecker: a thread that pings         *)
(* InfluxDB every few seconds and reports a lost connection.  Unlike       *)
(* MQTTConnection the class has no lock.  The FSM thread and, on a stop,   *)
(* the main one call connect, disconnect and is_connected; the writer      *)
(* calls reset_ping after each commit; checkers ping.                      *)
(*                                                                         *)
(* A checker's one event serves three ends: stop sets it, the checker sets *)
(* it when a ping fails, and reset_timer sets and clears it.               *)
(***************************************************************************)
EXTENDS Naturals

CONSTANTS
  Checkers,    \* bound: checker instances; one that is over is used again
  MaxRivals,   \* bound: calls the main thread makes beside the FSM thread's
  None         \* Python's None

ASSUME CheckerAssumption ==
  /\ Checkers # {} /\ MaxRivals \in Nat
  /\ \A k \in Checkers : k \notin {None, "acked", "fsm", "main"}

Callers == {"fsm", "main"}

VARIABLES
  client,    \* self.connection is not None
  current,   \* self.connection_checker
  kpc,       \* where each checker is
  event,     \* of each checker: _stop_event
  stopping,  \* of each checker: is_stopping
  failed,    \* history, of each checker: it has seen a ping fail
  ask,       \* of callers and checkers: where they are in is_connected
  cpc,       \* where each caller is
  joins,     \* the checker each caller stops
  rivals,    \* calls the main thread has made
  pulse,     \* the writer: None, "acked" or the checker whose reset_timer it is in
  service    \* environment: InfluxDB answers

checker == <<kpc, event, stopping, failed>>
caller  == <<cpc, joins, rivals>>
vars    == <<client, current, checker, ask, caller, pulse, service>>

Init ==
  /\ client = FALSE /\ current = CHOOSE k \in Checkers : TRUE
  /\ kpc = [k \in Checkers |-> "new"]
  /\ event = [k \in Checkers |-> FALSE] /\ stopping = event /\ failed = event
  /\ ask = [p \in Callers \cup Checkers |-> "none"]
  /\ cpc = [t \in Callers |-> "idle"] /\ joins = [t \in Callers |-> None]
  /\ rivals = 0 /\ pulse = None
  /\ service \in BOOLEAN

Alive(k) == kpc[k] \notin {"new", "over", "died"}   \* as join sees it

\* An instance nobody refers to any more, or yet to be made.
Unused(k) == /\ ~Alive(k) /\ k # current /\ k # pulse
             /\ \A t \in Callers : joins[t] # k

CheckerAt(k, from, to) == kpc[k] = from /\ kpc' = [kpc EXCEPT ![k] = to]
CallerAt(t, from, to)  == cpc[t] = from /\ cpc' = [cpc EXCEPT ![t] = to]

----------------------------------------------------------------------------
(* is_connected, whoever calls it, reads self.connection three times.      *)

Asking(p) == IF p \in Callers THEN cpc[p] \in {"asking", "connecting"}
                              ELSE kpc[p] \in {"first", "look"}

AskAt(p, from, to) == Asking(p) /\ ask[p] = from /\ ask' = [ask EXCEPT ![p] = to]

\* Mutant: is_connected without the test of the base class.
AskTestNot(p) ==
  /\ AskAt(p, "none", "ping")
  /\ UNCHANGED <<client, current, checker, caller, pulse, service>>

AskTest(p) ==   \* the test of the base class
  /\ client /\ AskAt(p, "none", "ping")
  /\ UNCHANGED <<client, current, checker, caller, pulse, service>>

\* find_buckets raises when InfluxDB does not answer, and on None.
AskPing(p) ==
  /\ ~(client /\ service) /\ AskAt(p, "ping", "health")
  /\ UNCHANGED <<client, current, checker, caller, pulse, service>>

\* The handler then calls health on self.connection: when that is None by
\* now, AttributeError goes to the caller.
AnswersTrue(p)  == client /\ service /\ AskAt(p, "ping", "none")
AnswersFalse(p) == \/ ~client /\ AskAt(p, "none", "none")
                   \/ client /\ AskAt(p, "health", "none")
AnswerRaises(p) == ~client /\ AskAt(p, "health", "none")

----------------------------------------------------------------------------
(* ConnectionChecker.run.  The wait between two pings ends by its timeout  *)
(* or by the event, and changes nothing.                                   *)

\* It clears the event also of a stop that came before.
Boot(k) ==
  /\ CheckerAt(k, "boot", "first")
  /\ event' = [event EXCEPT ![k] = FALSE]
  /\ UNCHANGED <<client, current, stopping, failed, ask, caller, pulse, service>>

First(k) ==   \* on_connect, or not
  /\ AnswersTrue(k) \/ AnswersFalse(k)
  /\ CheckerAt(k, "first", "test")
  /\ UNCHANGED <<client, current, event, stopping, failed, caller, pulse, service>>

\* Mutant: the loop looks at the event only.
LoopTestEventOnly(k) ==
  /\ CheckerAt(k, "test", IF event[k] THEN "over" ELSE "look")
  /\ UNCHANGED <<client, current, event, stopping, failed, ask, caller, pulse, service>>

\* The loop goes on, or on_disconnect tells the state machine.
LoopTest(k) ==
  /\ CheckerAt(k, "test", IF event[k] \/ stopping[k] THEN "over" ELSE "look")
  /\ UNCHANGED <<client, current, event, stopping, failed, ask, caller, pulse, service>>

LookUp(k) ==
  /\ AnswersTrue(k) /\ CheckerAt(k, "look", "test")
  /\ UNCHANGED <<client, current, event, stopping, failed, caller, pulse, service>>

\* Mutant: a failed ping is not remembered.
LookDownForgets(k) ==
  /\ AnswersFalse(k) /\ CheckerAt(k, "look", "test")
  /\ UNCHANGED <<client, current, event, stopping, failed, caller, pulse, service>>

LookDown(k) ==
  /\ AnswersFalse(k) /\ CheckerAt(k, "look", "test")
  /\ event' = [event EXCEPT ![k] = TRUE] /\ failed' = [failed EXCEPT ![k] = TRUE]
  /\ UNCHANGED <<client, current, stopping, caller, pulse, service>>

Dies(k) ==   \* is_connected raises: the thread ends without on_disconnect
  /\ AnswerRaises(k)
  /\ kpc' = [kpc EXCEPT ![k] = "died"]
  /\ UNCHANGED <<client, current, event, stopping, failed, caller, pulse, service>>

----------------------------------------------------------------------------
(* connect, disconnect, is_connected.                                      *)

\* connection_checker.stop(), up to its join.
Stop(t, from, to) ==
  /\ CallerAt(t, from, to)
  /\ joins' = [joins EXCEPT ![t] = current]
  /\ stopping' = [stopping EXCEPT ![current] = TRUE]
  /\ event' = [event EXCEPT ![current] = TRUE]
  /\ UNCHANGED <<client, current, kpc, failed, ask, pulse, service>>

Counted(t) == IF t = "main" THEN rivals < MaxRivals /\ rivals' = rivals + 1
                            ELSE UNCHANGED rivals

\* A checker that was not started cannot be joined; stop ignores the error.
Join(t, from, to) ==
  /\ CallerAt(t, from, to) /\ ~Alive(joins[t])
  /\ joins' = [joins EXCEPT ![t] = None]
  /\ UNCHANGED <<client, current, checker, ask, rivals, pulse, service>>

Connect(t) == Stop(t, "idle", "joinOld") /\ Counted(t)
JoinOld(t) == Join(t, "joinOld", "newClient")

NewClient(t) ==
  /\ CallerAt(t, "newClient", "newChecker")
  /\ client' = TRUE
  /\ UNCHANGED <<current, checker, ask, joins, rivals, pulse, service>>

NewChecker(t) ==
  /\ CallerAt(t, "newChecker", "start")
  /\ \E k \in Checkers :
       /\ Unused(k) /\ current' = k
       /\ kpc' = [kpc EXCEPT ![k] = "new"]
       /\ event' = [event EXCEPT ![k] = FALSE] /\ stopping' = [stopping EXCEPT ![k] = FALSE]
       /\ failed' = [failed EXCEPT ![k] = FALSE]
  /\ UNCHANGED <<client, ask, joins, rivals, pulse, service>>

\* Mutant: connect makes a checker and does not start it.
StartNot(t) ==
  /\ CallerAt(t, "start", "connecting")
  /\ UNCHANGED <<client, current, checker, ask, joins, rivals, pulse, service>>

\* Another caller may have made its own checker meanwhile: that one is started
\* here, or cannot be a second time and connect returns False.
Start(t) ==
  /\ IF kpc[current] = "new"
       THEN CallerAt(t, "start", "connecting") /\ kpc' = [kpc EXCEPT ![current] = "boot"]
       ELSE CallerAt(t, "start", "idle") /\ UNCHANGED kpc
  /\ UNCHANGED <<client, current, event, stopping, failed, ask, joins, rivals, pulse, service>>

IsConnected(t) ==
  /\ CallerAt(t, "idle", "asking") /\ Counted(t)
  /\ UNCHANGED <<client, current, checker, ask, joins, pulse, service>>

Returns(t) ==   \* connect catches what is_connected raises
  /\ \/ AnswersTrue(t) \/ AnswersFalse(t)
     \/ cpc[t] = "connecting" /\ AnswerRaises(t)
  /\ cpc' = [cpc EXCEPT ![t] = "idle"]
  /\ UNCHANGED <<client, current, checker, joins, rivals, pulse, service>>

Raises(t) ==   \* start_connections and are_both_connected do not
  /\ AnswerRaises(t) /\ CallerAt(t, "asking", "raised")
  /\ UNCHANGED <<client, current, checker, joins, rivals, pulse, service>>

Disconnect(t) ==   \* without a connection it returns False
  /\ client /\ CallerAt(t, "idle", "stopCurrent") /\ Counted(t)
  /\ client' = FALSE
  /\ UNCHANGED <<current, checker, ask, joins, pulse, service>>

StopCurrent(t) == Stop(t, "stopCurrent", "joinCurrent") /\ UNCHANGED rivals

\* Mutant: disconnect forgets the checker along with the connection.
JoinCurrentForgets(t) ==
  /\ CallerAt(t, "joinCurrent", "idle") /\ ~Alive(joins[t])
  /\ joins' = [joins EXCEPT ![t] = None] /\ current' = None
  /\ UNCHANGED <<client, checker, ask, rivals, pulse, service>>

JoinCurrent(t) == Join(t, "joinCurrent", "idle")

----------------------------------------------------------------------------
(* The writer: reset_ping after a commit that InfluxDB acknowledged.       *)

Acknowledged ==
  /\ client /\ service /\ pulse = None /\ pulse' = "acked"
  /\ UNCHANGED <<client, current, checker, ask, caller, service>>

PulseSet ==
  /\ pulse = "acked" /\ pulse' = current
  /\ event' = [event EXCEPT ![current] = TRUE]
  /\ UNCHANGED <<client, current, kpc, stopping, failed, ask, caller, service>>

\* Mutant: reset_timer leaves the event set.
PulseClearNot ==
  /\ pulse \in Checkers /\ pulse' = None
  /\ UNCHANGED <<client, current, checker, ask, caller, service>>

PulseClear ==
  /\ pulse \in Checkers /\ pulse' = None
  /\ event' = [event EXCEPT ![pulse] = FALSE]
  /\ UNCHANGED <<client, current, kpc, stopping, failed, ask, caller, service>>

----------------------------------------------------------------------------
Service ==   \* environment
  /\ service' = ~service
  /\ UNCHANGED <<client, current, checker, ask, caller, pulse>>

Ask(p)     == AskTest(p) \/ AskPing(p)
Run(k)     == \/ Ask(k) \/ Boot(k) \/ First(k) \/ LoopTest(k) \/ LookUp(k) \/ LookDown(k)
              \/ Dies(k)
Call(t)    == Connect(t) \/ IsConnected(t) \/ Disconnect(t)
Working(t) == \/ Ask(t) \/ JoinOld(t) \/ NewClient(t) \/ NewChecker(t) \/ Start(t)
              \/ Returns(t) \/ Raises(t) \/ StopCurrent(t) \/ JoinCurrent(t)

Next == \/ \E k \in Checkers : Run(k)
        \/ \E t \in Callers : Call(t) \/ Working(t)
        \/ Acknowledged \/ PulseSet \/ PulseClear \/ Service

Spec == Init /\ [][Next]_vars

\* Threads run; the wait of a checker times out.  Nothing makes calls or
\* commits come, nor InfluxDB answer.
FairSpec == /\ Spec /\ WF_vars(PulseSet) /\ WF_vars(PulseClear)
            /\ \A k \in Checkers : WF_vars(Run(k))
            /\ \A t \in Callers : WF_vars(Working(t))

----------------------------------------------------------------------------
(* Safety.                                                                 *)

\* Every variable holds a value of its type: fields of InfluxConnection and
\* ConnectionChecker, the threads' places.
TypeOK ==
  /\ client \in BOOLEAN /\ current \in Checkers
  /\ kpc \in [Checkers -> {"new", "boot", "first", "test", "look", "over", "died"}]
  /\ event \in [Checkers -> BOOLEAN] /\ stopping \in [Checkers -> BOOLEAN]
  /\ failed \in [Checkers -> BOOLEAN]
  /\ ask \in [Callers \cup Checkers -> {"none", "ping", "health"}]
  /\ cpc \in [Callers -> {"idle", "joinOld", "newClient", "newChecker", "start",
                          "connecting", "asking", "raised", "stopCurrent", "joinCurrent"}]
  /\ joins \in [Callers -> Checkers \cup {None}]
  /\ rivals \in 0..MaxRivals /\ pulse \in Checkers \cup {None, "acked"}
  /\ service \in BOOLEAN

\* A checker reports a disconnection for one of three reasons: it was stopped,
\* it has seen a ping fail, or it looked at its event between the set and the
\* clear of reset_timer.  The last one is no reason the class means it to
\* have: a commit that succeeded ends the watch over the connection.
EndsForAReason ==
  [][\A k \in Checkers : kpc[k] = "test" /\ kpc'[k] = "over"
                           => stopping[k] \/ failed[k] \/ pulse = k]_vars

\* When no call is under way and there is a connection, either its checker is
\* at work or it has reported its end: the state machine was told to look for
\* itself.  Calls of two threads may interleave in any way before.
UnwatchedWasReported ==
  client /\ (\A t \in Callers : cpc[t] = "idle") => Alive(current) \/ kpc[current] = "over"

\* is_connected lets an exception out, which ends the FSM thread, only because
\* another thread has closed the connection under its ping.
RaiseNeedsRival == cpc["fsm"] = "raised" => rivals > 0

----------------------------------------------------------------------------
(* Liveness.                                                               *)

\* A stop ends its checker: however the event is cleared behind its back, the
\* join returns.
StopReturns ==
  \A t \in Callers : cpc[t] \in {"joinOld", "joinCurrent"}
                       ~> cpc[t] \notin {"joinOld", "joinCurrent"}

\* When InfluxDB stays away, or the connection stays closed, no checker goes
\* on as if nothing had happened: each one ends, whatever reset_ping did to the
\* event in which it keeps that a ping has failed.
LostIsNoticed ==
  <>[](~service \/ ~client) => \A k \in Checkers : []<>(~Alive(k))
=============================================================================
