---------------------------- MODULE CheckerProofs ----------------------------
(***************************************************************************)
(* Theorems about Checker, for any set of checkers and any number of calls *)
(* of the main thread.  The step that preserves an invariant is split by   *)
(* who takes it: a checker, a caller, the writer or InfluxDB.              *)
(***************************************************************************)
EXTENDS Checker, TLAPS

USE CheckerAssumption DEF Callers, checker, caller

----------------------------------------------------------------------------
(* Types.                                                                  *)

LEMMA InitType == Init => TypeOK
<1> SUFFICES ASSUME Init PROVE TypeOK
  OBVIOUS
<1>1. current \in Checkers
  BY DEF Init
<1>2. /\ client \in BOOLEAN /\ service \in BOOLEAN
      /\ pulse \in Checkers \cup {None, "acked"}
  <2>1. client = FALSE /\ pulse = None /\ service \in BOOLEAN
    BY DEF Init
  <2>2. QED
    BY <2>1
<1>3. /\ event \in [Checkers -> BOOLEAN] /\ stopping \in [Checkers -> BOOLEAN]
      /\ failed \in [Checkers -> BOOLEAN]
  BY DEF Init
<1>4. /\ ask \in [Callers \cup Checkers -> {"none", "ping", "health"}]
      /\ joins \in [Callers -> Checkers \cup {None}] /\ rivals \in 0..MaxRivals
  BY DEF Init
<1>5. QED
  BY <1>1, <1>2, <1>3, <1>4 DEF Init, TypeOK

\* is_connected, up to its answer.
LEMMA AskType ==
  ASSUME NEW p \in Callers \cup Checkers, TypeOK, Ask(p)
  PROVE  TypeOK'
<1>1. ask' \in [Callers \cup Checkers -> {"none", "ping", "health"}]
  BY DEF Ask, AskTest, AskPing, AskAt, TypeOK
<1>2. UNCHANGED <<client, current, checker, caller, pulse, service>>
  BY DEF Ask, AskTest, AskPing
<1>3. QED
  BY <1>1, <1>2 DEF TypeOK

LEMMA RunType ==
  ASSUME NEW k \in Checkers, TypeOK, Run(k)
  PROVE  TypeOK'
<1>1. CASE Ask(k)
  BY <1>1, AskType
<1>2. CASE Boot(k)
  BY <1>2 DEF Boot, CheckerAt, TypeOK
<1>3. CASE First(k)
  BY <1>3 DEF First, CheckerAt, AnswersTrue, AnswersFalse, AskAt, TypeOK
<1>4. CASE LoopTest(k)
  BY <1>4 DEF LoopTest, CheckerAt, TypeOK
<1>5. CASE LookUp(k)
  BY <1>5 DEF LookUp, CheckerAt, AnswersTrue, AskAt, TypeOK
<1>6. CASE LookDown(k)
  BY <1>6 DEF LookDown, CheckerAt, AnswersFalse, AskAt, TypeOK
<1>7. CASE Dies(k)
  BY <1>7 DEF Dies, AnswerRaises, AskAt, TypeOK
<1>8. QED
  BY <1>1, <1>2, <1>3, <1>4, <1>5, <1>6, <1>7 DEF Run

\* connection_checker.stop, from wherever it is called.
LEMMA StopType ==
  ASSUME NEW t \in Callers, NEW from, TypeOK, rivals' \in 0..MaxRivals,
         NEW to \in {"joinOld", "joinCurrent"}, Stop(t, from, to)
  PROVE  TypeOK'
  BY DEF Stop, CallerAt, TypeOK

LEMMA JoinType ==
  ASSUME NEW t \in Callers, NEW from, TypeOK,
         NEW to \in {"newClient", "idle"}, Join(t, from, to)
  PROVE  TypeOK'
  BY DEF Join, CallerAt, TypeOK

LEMMA CountedType ==
  ASSUME NEW t \in Callers, TypeOK, Counted(t)
  PROVE  rivals' \in 0..MaxRivals
  BY DEF Counted, TypeOK

LEMMA CallType ==
  ASSUME NEW t \in Callers, TypeOK, Call(t)
  PROVE  TypeOK'
<1>1. CASE Connect(t)
  BY <1>1, StopType, CountedType DEF Connect
<1>2. CASE IsConnected(t)
  BY <1>2, CountedType DEF IsConnected, CallerAt, TypeOK
<1>3. CASE Disconnect(t)
  BY <1>3, CountedType DEF Disconnect, CallerAt, TypeOK
<1>4. QED
  BY <1>1, <1>2, <1>3 DEF Call

LEMMA WorkingType ==
  ASSUME NEW t \in Callers, TypeOK, Working(t)
  PROVE  TypeOK'
<1>1. CASE Ask(t)
  BY <1>1, AskType
<1>2. CASE JoinOld(t) \/ JoinCurrent(t)
  BY <1>2, JoinType DEF JoinOld, JoinCurrent
<1>3. CASE NewClient(t)
  BY <1>3 DEF NewClient, CallerAt, TypeOK
<1>4. CASE NewChecker(t)
  BY <1>4 DEF NewChecker, CallerAt, TypeOK
<1>5. CASE Start(t)
  BY <1>5 DEF Start, CallerAt, TypeOK
<1>6. CASE Returns(t)
  BY <1>6 DEF Returns, AnswersTrue, AnswersFalse, AnswerRaises, AskAt, TypeOK
<1>7. CASE Raises(t)
  BY <1>7 DEF Raises, AnswerRaises, AskAt, CallerAt, TypeOK
<1>8. CASE StopCurrent(t)
  <2>1. rivals' \in 0..MaxRivals
    BY <1>8 DEF StopCurrent, TypeOK
  <2>2. QED
    BY <1>8, <2>1, StopType DEF StopCurrent
<1>9. QED
  BY <1>1, <1>2, <1>3, <1>4, <1>5, <1>6, <1>7, <1>8 DEF Working

LEMMA NextType == TypeOK /\ [Next]_vars => TypeOK'
<1> SUFFICES ASSUME TypeOK, [Next]_vars PROVE TypeOK'
  OBVIOUS
<1>1. ASSUME NEW k \in Checkers, Run(k) PROVE TypeOK'
  BY <1>1, RunType
<1>2. ASSUME NEW t \in Callers, Call(t) PROVE TypeOK'
  BY <1>2, CallType
<1>3. ASSUME NEW t \in Callers, Working(t) PROVE TypeOK'
  BY <1>3, WorkingType
<1>4. CASE Acknowledged \/ PulseSet \/ PulseClear
  BY <1>4 DEF Acknowledged, PulseSet, PulseClear, TypeOK
<1>5. CASE Service
  BY <1>5 DEF Service, TypeOK
<1>6. CASE UNCHANGED vars
  BY <1>6 DEF vars, TypeOK
<1>7. QED
  BY <1>1, <1>2, <1>3, <1>4, <1>5, <1>6 DEF Next

\* Every variable of InfluxConnection and its checkers keeps its type.
THEOREM CheckerTypeCorrect == Spec => []TypeOK
  BY InitType, NextType, PTL DEF Spec

----------------------------------------------------------------------------
(* Why a checker ends.                                                     *)

\* A checker's event is set for one of the reasons EndsForAReason names.
EventHasReason ==
  \A k \in Checkers : event[k] => stopping[k] \/ failed[k] \/ pulse = k

LEMMA EventRun ==
  ASSUME NEW k \in Checkers, TypeOK, EventHasReason, Run(k)
  PROVE  EventHasReason'
<1>1. CASE Ask(k) \/ First(k) \/ LoopTest(k) \/ LookUp(k) \/ Dies(k)
  BY <1>1 DEF Ask, AskTest, AskPing, First, LoopTest, LookUp, Dies, EventHasReason
<1>2. CASE Boot(k)
  BY <1>2 DEF Boot, TypeOK, EventHasReason
<1>3. CASE LookDown(k)
  BY <1>3 DEF LookDown, TypeOK, EventHasReason
<1>4. QED
  BY <1>1, <1>2, <1>3 DEF Run

LEMMA EventStop ==
  ASSUME NEW t \in Callers, NEW from, NEW to, TypeOK, EventHasReason, Stop(t, from, to)
  PROVE  EventHasReason'
  BY DEF Stop, TypeOK, EventHasReason

LEMMA EventCaller ==
  ASSUME NEW t \in Callers, TypeOK, EventHasReason, Call(t) \/ Working(t)
  PROVE  EventHasReason'
<1>1. CASE Connect(t) \/ StopCurrent(t)
  BY <1>1, EventStop DEF Connect, StopCurrent
<1>2. CASE NewChecker(t)
  BY <1>2 DEF NewChecker, TypeOK, EventHasReason
<1>3. CASE \/ Ask(t) \/ IsConnected(t) \/ Disconnect(t) \/ JoinOld(t) \/ NewClient(t)
           \/ Start(t) \/ Returns(t) \/ Raises(t) \/ JoinCurrent(t)
  BY <1>3 DEF Ask, AskTest, AskPing, IsConnected, Disconnect, JoinOld, Join, NewClient,
              Start, Returns, Raises, JoinCurrent, EventHasReason
<1>4. QED
  BY <1>1, <1>2, <1>3 DEF Call, Working

LEMMA EventNext == TypeOK /\ EventHasReason /\ [Next]_vars => EventHasReason'
<1> SUFFICES ASSUME TypeOK, EventHasReason, [Next]_vars PROVE EventHasReason'
  OBVIOUS
<1>1. ASSUME NEW k \in Checkers, Run(k) PROVE EventHasReason'
  BY <1>1, EventRun
<1>2. ASSUME NEW t \in Callers, Call(t) \/ Working(t) PROVE EventHasReason'
  BY <1>2, EventCaller
<1>3. CASE Acknowledged
  BY <1>3 DEF Acknowledged, EventHasReason
<1>4. CASE PulseSet
  BY <1>4 DEF PulseSet, TypeOK, EventHasReason
<1>5. CASE PulseClear
  BY <1>5 DEF PulseClear, TypeOK, EventHasReason
<1>6. CASE Service \/ UNCHANGED vars
  BY <1>6 DEF Service, vars, EventHasReason
<1>7. QED
  BY <1>1, <1>2, <1>3, <1>4, <1>5, <1>6 DEF Next

\* Only the test of the loop ends a checker.
LEMMA OnlyTestEnds ==
  ASSUME NEW k \in Checkers, TypeOK, Next, kpc[k] = "test", kpc'[k] = "over"
  PROVE  event[k] \/ stopping[k]
<1>1. ASSUME NEW j \in Checkers, Run(j) PROVE event[k] \/ stopping[k]
  <2>1. kpc' # kpc
    OBVIOUS
  <2>2. CASE LoopTest(j)
    BY <2>2 DEF LoopTest, CheckerAt, TypeOK
  <2>3. CASE Boot(j) \/ First(j) \/ LookUp(j) \/ LookDown(j) \/ Dies(j)
    BY <2>3 DEF Boot, First, LookUp, LookDown, Dies, CheckerAt, TypeOK
  <2>4. QED
    BY <1>1, <2>1, <2>2, <2>3 DEF Run, Ask, AskTest, AskPing
<1>2. ASSUME NEW t \in Callers, Call(t) PROVE FALSE
  BY <1>2 DEF Call, Connect, Stop, IsConnected, Disconnect
<1>3. ASSUME NEW t \in Callers, Working(t) PROVE FALSE
  <2>1. kpc' # kpc
    OBVIOUS
  <2>2. CASE NewChecker(t) \/ Start(t)
    BY <2>2 DEF NewChecker, Start, TypeOK
  <2>3. QED
    BY <1>3, <2>1, <2>2 DEF Working, Ask, AskTest, AskPing, JoinOld, JoinCurrent, Join,
                            NewClient, Returns, Raises, StopCurrent, Stop
<1>4. CASE Acknowledged \/ PulseSet \/ PulseClear \/ Service
  BY <1>4 DEF Acknowledged, PulseSet, PulseClear, Service
<1>5. QED
  BY <1>1, <1>2, <1>3, <1>4 DEF Next

\* A checker reports a disconnection only after a stop, a failed ping, or in
\* the middle of a reset_timer.
THEOREM CheckerEndsForAReason == Spec => EndsForAReason
<1>1. Init => EventHasReason
  BY DEF Init, EventHasReason
<1>2. Spec => []EventHasReason
  BY <1>1, CheckerTypeCorrect, EventNext, PTL DEF Spec
<1>3. TypeOK /\ EventHasReason /\ [Next]_vars =>
        [\A k \in Checkers : kpc[k] = "test" /\ kpc'[k] = "over"
                                => stopping[k] \/ failed[k] \/ pulse = k]_vars
  BY OnlyTestEnds DEF EventHasReason, vars
<1>4. QED
  BY <1>2, <1>3, CheckerTypeCorrect, PTL DEF Spec, EndsForAReason

----------------------------------------------------------------------------
(* When is_connected raises.                                               *)

\* As long as the main thread has made no call, it is in none, and the FSM
\* thread, in the middle of is_connected, finds the connection it found at first.
Alone ==
  rivals = 0 =>
    /\ cpc["main"] = "idle" /\ cpc["fsm"] # "raised"
    /\ ask["fsm"] # "none" => client /\ cpc["fsm"] \in {"asking", "connecting"}

LEMMA AloneNext == TypeOK /\ Alone /\ [Next]_vars => Alone'
<1> SUFFICES ASSUME TypeOK, Alone, [Next]_vars PROVE Alone'
  OBVIOUS
<1>1. ASSUME NEW k \in Checkers, Run(k) PROVE Alone'
  <2>1. UNCHANGED <<client, caller>> /\ ask'["fsm"] = ask["fsm"]
    BY <1>1 DEF Run, Ask, AskTest, AskPing, Boot, First, LoopTest, LookUp, LookDown, Dies,
                AnswersTrue, AnswersFalse, AnswerRaises, AskAt, TypeOK
  <2>2. QED
    BY <2>1 DEF Alone
<1>2. ASSUME Call("main") PROVE Alone'
  BY <1>2 DEF Call, Connect, IsConnected, Disconnect, Stop, Counted, TypeOK, Alone
<1>3. ASSUME Working("main") PROVE Alone'
  <2>1. cpc["main"] # "idle" /\ rivals' = rivals
    BY <1>3 DEF Working, Ask, AskTest, AskPing, AskAt, Asking, JoinOld, NewClient, NewChecker,
                Start, Returns, AnswersTrue, AnswersFalse, AnswerRaises, Raises, StopCurrent,
                JoinCurrent, Stop, Join, CallerAt
  <2>2. QED
    BY <2>1 DEF Alone
<1>4. ASSUME Call("fsm") PROVE Alone'
  BY <1>4 DEF Call, Connect, IsConnected, Disconnect, Stop, Counted, CallerAt, TypeOK, Alone
<1>5. ASSUME Working("fsm") PROVE Alone'
  <2>1. CASE Ask("fsm")
    BY <2>1 DEF Ask, AskTest, AskPing, AskAt, Asking, TypeOK, Alone
  <2>2. CASE Returns("fsm") \/ Raises("fsm")
    BY <2>2 DEF Returns, Raises, AnswersTrue, AnswersFalse, AnswerRaises, AskAt, Asking,
                CallerAt, TypeOK, Alone
  <2>3. CASE \/ JoinOld("fsm") \/ NewClient("fsm") \/ NewChecker("fsm") \/ Start("fsm")
             \/ StopCurrent("fsm") \/ JoinCurrent("fsm")
    BY <2>3 DEF JoinOld, NewClient, NewChecker, Start, StopCurrent, JoinCurrent, Stop, Join,
                CallerAt, TypeOK, Alone
  <2>4. QED
    BY <1>5, <2>1, <2>2, <2>3 DEF Working
<1>6. CASE Acknowledged \/ PulseSet \/ PulseClear \/ Service \/ UNCHANGED vars
  BY <1>6 DEF Acknowledged, PulseSet, PulseClear, Service, vars, Alone
<1>7. QED
  BY <1>1, <1>2, <1>3, <1>4, <1>5, <1>6 DEF Next

\* is_connected raises in the FSM thread only after the main thread has called
\* the connection too.
THEOREM RaiseTakesTwo == Spec => []RaiseNeedsRival
<1>1. Init => Alone
  BY DEF Init, Alone
<1>2. TypeOK /\ Alone => RaiseNeedsRival
  BY DEF TypeOK, Alone, RaiseNeedsRival
<1>3. QED
  BY <1>1, <1>2, CheckerTypeCorrect, AloneNext, PTL DEF Spec

----------------------------------------------------------------------------
(* Who watches over the connection.                                        *)

\* With a connection, a current checker that was not started, or that died, is
\* about to be started or replaced.  One dies without a connection only, and
\* only connect, on its way to a new checker, makes one.
Watched ==
  client =>
    /\ kpc[current] = "new" => \E t \in Callers : cpc[t] \in {"newChecker", "start"}
    /\ kpc[current] = "died" => \E t \in Callers : cpc[t] = "newChecker"

LEMMA WatchedRun ==
  ASSUME NEW k \in Checkers, TypeOK, Watched, Run(k)
  PROVE  Watched'
<1>1. CASE Dies(k)
  <2>1. ~client /\ client' = client
    BY <1>1 DEF Dies, AnswerRaises
  <2>2. QED
    BY <2>1 DEF Watched
<1>2. CASE Boot(k) \/ First(k) \/ LoopTest(k) \/ LookUp(k) \/ LookDown(k)
  <2>1. UNCHANGED <<client, current, cpc>>
    BY <1>2 DEF Boot, First, LoopTest, LookUp, LookDown
  <2>2. \A j \in Checkers : kpc'[j] = kpc[j] \/ kpc'[j] \notin {"new", "died"}
    BY <1>2 DEF Boot, First, LoopTest, LookUp, LookDown, CheckerAt, TypeOK
  <2>3. QED
    BY <2>1, <2>2 DEF TypeOK, Watched
<1>3. CASE Ask(k)
  BY <1>3 DEF Ask, AskTest, AskPing, Watched
<1>4. QED
  BY <1>1, <1>2, <1>3 DEF Run

LEMMA WatchedCall ==
  ASSUME NEW t \in Callers, TypeOK, Watched, Call(t)
  PROVE  Watched'
  BY DEF Call, Connect, Stop, IsConnected, Disconnect, CallerAt, TypeOK, Watched

LEMMA WatchedWorking ==
  ASSUME NEW t \in Callers, TypeOK, Watched, Working(t)
  PROVE  Watched'
<1>1. CASE NewClient(t)
  BY <1>1 DEF NewClient, CallerAt, TypeOK, Watched
<1>2. CASE NewChecker(t)
  BY <1>2 DEF NewChecker, CallerAt, TypeOK, Watched
<1>3. CASE Start(t)
  BY <1>3 DEF Start, CallerAt, TypeOK, Watched
<1>4. CASE JoinOld(t) \/ JoinCurrent(t)
  BY <1>4 DEF JoinOld, JoinCurrent, Join, CallerAt, TypeOK, Watched
<1>5. CASE Returns(t) \/ Raises(t)
  BY <1>5 DEF Returns, Raises, AnswersTrue, AnswersFalse, AnswerRaises, AskAt, Asking, CallerAt,
              TypeOK, Watched
<1>6. CASE StopCurrent(t)
  BY <1>6 DEF StopCurrent, Stop, CallerAt, TypeOK, Watched
<1>7. CASE Ask(t)
  BY <1>7 DEF Ask, AskTest, AskPing, Watched
<1>8. QED
  BY <1>1, <1>2, <1>3, <1>4, <1>5, <1>6, <1>7 DEF Working

LEMMA WatchedNext == TypeOK /\ Watched /\ [Next]_vars => Watched'
<1> SUFFICES ASSUME TypeOK, Watched, [Next]_vars PROVE Watched'
  OBVIOUS
<1>1. CASE Acknowledged \/ PulseSet \/ PulseClear \/ Service \/ UNCHANGED vars
  BY <1>1 DEF Acknowledged, PulseSet, PulseClear, Service, vars, Watched
<1>2. QED
  BY <1>1, WatchedRun, WatchedCall, WatchedWorking DEF Next

\* However the calls of the two threads interleave: once they have returned, a
\* connection that exists is watched, or its checker has reported its end.
THEOREM ConnectionIsWatched == Spec => []UnwatchedWasReported
<1>1. Init => Watched
  BY DEF Init, Watched
<1>2. TypeOK /\ Watched => UnwatchedWasReported
  BY DEF TypeOK, Watched, UnwatchedWasReported, Alive
<1>3. QED
  BY <1>1, <1>2, CheckerTypeCorrect, WatchedNext, PTL DEF Spec
=============================================================================
