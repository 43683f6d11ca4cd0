------------------------------ MODULE FsmProofs ------------------------------
(***************************************************************************)
(* Theorems about Fsm, for any connections, any bound on the changes of    *)
(* the environment, any length of the engine's queue and any of the ways   *)
(* in which stopping the pipeline or asking a connection may fail.         *)
(*                                                                         *)
(* What makes its invariants inductive is where each thread can be: the    *)
(* callbacks that replace the writer run under the processing lock only,   *)
(* the main thread runs callbacks under it only, and the lock's holder     *)
(* knows the state its callback belongs to.                                *)
(***************************************************************************)
EXTENDS Fsm, SequenceTheorems, TLAPS

Idling   == {"idleEnter", "idleConnect", "idleTest", "idleSend"}
Running  == {"runEnter", "runTest", "runSend"}
Stopping == {"stopWriter", "stopConns"}

\* The holder of the processing lock is in the engine or in a callback, and
\* the machine is in the state that callback belongs to.
Processing ==
  \A t \in Threads : owner = t =>
    /\ pc[t] \in Idling \cup Running \cup Stopping
                 \cup {"setWriter", "try", "take", "drop", "release", "hung", "locked"}
    /\ pc[t] \in Idling => state = "idling"
    /\ pc[t] \in Running \cup {"setWriter"} => state = "running"
    /\ pc[t] = "drop" => state \in {"idling", "running"}
    /\ pc[t] \in Stopping => state = "final"

\* Without the lock, the FSM thread is in its own loop, which stops only in
\* the final state, and the main one is between the calls of stop_machine.
Outside ==
  /\ owner # "fsm" =>
       /\ pc["fsm"] \in Idling \cup Running \cup Stopping \cup {"top", "try", "done"} \cup Stuck
       /\ pc["fsm"] \in Stopping \cup {"done"} => state = "final"
  /\ owner # "main" => pc["main"] \in {"idle", "put", "try", "join", "done", "raised"}

\* The writer each state and each step goes with.
WriterPerState ==
  /\ state \in {"starting", "idling"} => writer = "none"
  /\ state = "running" => writer \in {"none", "live"}
  /\ \A t \in Threads : /\ pc[t] = "setWriter" => writer = "none"
                        /\ pc[t] = "stopConns" => writer # "live"
  /\ pc["fsm"] = "done" => writer # "live" /\ up = {}

Inv  == Processing /\ Outside /\ WriterPerState /\ NoWriterLost /\ RunningHasWriter
IInv == TypeOK /\ Inv

USE FsmAssumption DEF Threads, engine, env, session, vars, Idling, Running, Stopping, Stuck

----------------------------------------------------------------------------
(* The queue: sends append to it, the engine takes its head.               *)

LEMMA PutType ==
  ASSUME TypeOK, NEW t \in Threads, NEW e \in Events, NEW from, Put(t, from, e)
  PROVE  queue' \in Seq(Events)
BY AppendProperties DEF TypeOK, Put

LEMMA HandleType ==
  ASSUME TypeOK, queue # <<>>
  PROVE  Head(queue) \in Events /\ Tail(queue) \in Seq(Events)
BY HeadTailProperties DEF TypeOK

LEMMA EmptyType == <<>> \in Seq(Events)
BY EmptySeq

----------------------------------------------------------------------------
LEMMA InitInvariant == Init => IInv
<1> SUFFICES ASSUME Init PROVE IInv
  OBVIOUS
<1>1. TypeOK
  <2>1. queue \in Seq(Events)
    BY EmptyType DEF Init
  <2>2. pc \in [Threads -> {"top", "idle"}]
    BY DEF Init
  <2>3. changes \in 0..MaxChanges /\ live \in Nat
    BY DEF Init
  <2>4. QED
    BY <2>1, <2>2, <2>3 DEF Init, TypeOK
<1>2. Inv
  BY DEF Init, Inv, Processing, Outside, WriterPerState, NoWriterLost, RunningHasWriter
<1>3. QED
  BY <1>1, <1>2 DEF IInv

----------------------------------------------------------------------------
(* Type correctness, action by action.  A writer that ends was counted:    *)
(* that the count stays a natural number is not a matter of types alone.   *)

LEMMA StepType ==
  ASSUME TypeOK, NoWriterLost, NEW t \in Threads, Step(t)
  PROVE  TypeOK'
<1> USE DEF TypeOK, Goto, After, ResetEvent, WriterEnds, Raise
<1>1. CASE IdleEnter(t)
  BY <1>1 DEF IdleEnter
<1>2. CASE IdleConnect(t)
  BY <1>2 DEF IdleConnect
<1>3. CASE IdleTest(t)
  BY <1>3 DEF IdleTest
<1>4. CASE IdleSend(t)
  <2>1. queue' \in Seq(Events)
    BY <1>4, PutType DEF IdleSend, Events
  <2>2. QED
    BY <1>4, <2>1 DEF IdleSend, Put
<1>5. CASE SetWriter(t)
  BY <1>5 DEF SetWriter
<1>6. CASE RunEnter(t)
  BY <1>6 DEF RunEnter
<1>7. CASE RunTest(t)
  BY <1>7 DEF RunTest
<1>8. CASE RunSend(t)
  <2>1. queue' \in Seq(Events)
    BY <1>8, PutType DEF RunSend, Events
  <2>2. QED
    BY <1>8, <2>1 DEF RunSend, Put
<1>9. CASE StopWriter(t)
  <2>1. live' \in Nat
    BY <1>9 DEF StopWriter, NoWriterLost
  <2>2. queue' \in Seq(Events) /\ owner' \in Threads \cup {"none"}
    BY <1>9, EmptyType DEF StopWriter
  <2>3. QED
    BY <1>9, <2>1, <2>2 DEF StopWriter
<1>10. CASE StopConns(t)
  BY <1>10 DEF StopConns
<1>11. CASE Try(t)
  BY <1>11 DEF Try
<1>12. CASE TakeInit(t)
  BY <1>12, HandleType DEF TakeInit, Handle
<1>13. CASE TakeConnection(t)
  BY <1>13, HandleType DEF TakeConnection, Handle
<1>14. CASE TakeDisconnection(t)
  BY <1>14, HandleType DEF TakeDisconnection, Handle
<1>15. CASE Drop(t)
  <2>1. live' \in Nat
    BY <1>15 DEF Drop, NoWriterLost
  <2>2. queue' \in Seq(Events) /\ owner' \in Threads \cup {"none"}
    BY <1>15, EmptyType DEF Drop
  <2>3. QED
    BY <1>15, <2>1, <2>2 DEF Drop
<1>16. CASE TakeFinish(t)
  BY <1>16, HandleType DEF TakeFinish, Handle
<1>17. CASE TakeRefused(t)
  <2>1. queue' \in Seq(Events)
    BY <1>17, HandleType, EmptyType DEF TakeRefused
  <2>2. QED
    BY <1>17, <2>1 DEF TakeRefused
<1>18. CASE TakeNothing(t)
  BY <1>18 DEF TakeNothing
<1>19. CASE Release(t)
  BY <1>19 DEF Release
<1>20. QED
  BY <1>1, <1>2, <1>3, <1>4, <1>5, <1>6, <1>7, <1>8, <1>9, <1>10, <1>11, <1>12, <1>13,
     <1>14, <1>15, <1>16, <1>17, <1>18, <1>19 DEF Step

LEMMA NextType ==
  ASSUME TypeOK, NoWriterLost, [Next]_vars
  PROVE  TypeOK'
<1> USE DEF TypeOK, Goto
<1>1. ASSUME NEW t \in Threads, Step(t)
      PROVE  TypeOK'
  BY <1>1, StepType
<1>2. CASE Top
  <2>1. queue' \in Seq(Events)
    BY <1>2, PutType DEF Top, Events
  <2>2. QED
    BY <1>2, <2>1 DEF Top, Put
<1>3. CASE SendFinish
  <2>1. queue' \in Seq(Events)
    BY <1>3, PutType DEF SendFinish, Events
  <2>2. QED
    BY <1>3, <2>1 DEF SendFinish, Put
<1>4. CASE Join
  BY <1>4 DEF Join
<1>5. CASE Interrupt
  BY <1>5 DEF Interrupt
<1>6. CASE Environment
  BY <1>6 DEF Environment
<1>7. CASE Trouble
  <2>1. PICK t \in Threads : ConnLocks(t) \/ ConnRaises(t)
    BY <1>7 DEF Trouble
  <2>2. CASE ConnLocks(t)
    BY <2>2 DEF ConnLocks
  <2>3. CASE ConnRaises(t)
    <3>1. queue' \in Seq(Events)
      BY <2>3, EmptyType DEF ConnRaises, Raise
    <3>2. QED
      BY <2>3, <3>1 DEF ConnRaises, Raise
  <2>4. QED
    BY <2>1, <2>2, <2>3
<1>8. CASE UNCHANGED vars
  BY <1>8
<1>9. QED
  BY <1>1, <1>2, <1>3, <1>4, <1>5, <1>6, <1>7, <1>8 DEF Next, FsmStep, MainStep

----------------------------------------------------------------------------
(* The rest of the invariant.                                              *)

LEMMA StepInvariant ==
  ASSUME IInv, TypeOK', NEW t \in Threads, Step(t)
  PROVE  Inv'
<1> USE DEF IInv, TypeOK, Inv, Goto, After, ResetEvent, Raise, Both, Put, Handle, WriterEnds,
            Processing, Outside, WriterPerState, NoWriterLost, RunningHasWriter
<1>1. CASE IdleEnter(t)
  BY <1>1 DEF IdleEnter
<1>2. CASE IdleConnect(t)
  BY <1>2 DEF IdleConnect
<1>3. CASE IdleTest(t)
  BY <1>3 DEF IdleTest
<1>4. CASE IdleSend(t)
  BY <1>4 DEF IdleSend
<1>5. CASE SetWriter(t)
  BY <1>5 DEF SetWriter
<1>6. CASE RunEnter(t)
  BY <1>6 DEF RunEnter
<1>7. CASE RunTest(t)
  BY <1>7 DEF RunTest
<1>8. CASE RunSend(t)
  BY <1>8 DEF RunSend
<1>9. CASE StopWriter(t)
  BY <1>9 DEF StopWriter
<1>10. CASE StopConns(t)
  BY <1>10 DEF StopConns
<1>11. CASE Try(t)
  BY <1>11 DEF Try
<1>12. CASE TakeInit(t)
  BY <1>12 DEF TakeInit
<1>13. CASE TakeConnection(t)
  BY <1>13 DEF TakeConnection
<1>14. CASE TakeDisconnection(t)
  BY <1>14 DEF TakeDisconnection
<1>15. CASE Drop(t)
  BY <1>15 DEF Drop
<1>16. CASE TakeFinish(t)
  BY <1>16 DEF TakeFinish
<1>17. CASE TakeRefused(t)
  BY <1>17 DEF TakeRefused
<1>18. CASE TakeNothing(t)
  BY <1>18 DEF TakeNothing
<1>19. CASE Release(t)
  BY <1>19 DEF Release
<1>20. QED
  BY <1>1, <1>2, <1>3, <1>4, <1>5, <1>6, <1>7, <1>8, <1>9, <1>10, <1>11, <1>12, <1>13,
     <1>14, <1>15, <1>16, <1>17, <1>18, <1>19 DEF Step

LEMMA NextInvariant ==
  ASSUME IInv, [Next]_vars
  PROVE  IInv'
<1>1. TypeOK'
  BY NextType DEF IInv, Inv
<1>2. SUFFICES Inv'
  BY <1>1 DEF IInv
<1> USE DEF IInv, TypeOK, Inv, Goto, Raise, Both, Put,
            Processing, Outside, WriterPerState, NoWriterLost, RunningHasWriter
<1>3. ASSUME NEW t \in Threads, Step(t)
      PROVE  Inv'
  BY <1>1, <1>3, StepInvariant
<1>4. CASE Top
  BY <1>4 DEF Top
<1>5. CASE SendFinish
  BY <1>5 DEF SendFinish
<1>6. CASE Join
  BY <1>6 DEF Join
<1>7. CASE Interrupt
  BY <1>7 DEF Interrupt
<1>8. CASE Environment
  BY <1>8 DEF Environment
<1>9. CASE Trouble
  <2>1. PICK t \in Threads : ConnLocks(t) \/ ConnRaises(t)
    BY <1>9 DEF Trouble
  <2>2. CASE ConnLocks(t)
    BY <2>2 DEF ConnLocks, AsksConnections, TakesConnection, LogsStatus
  <2>3. CASE ConnRaises(t)
    BY <2>3 DEF ConnRaises, AsksConnections, TakesConnection
  <2>4. QED
    BY <2>1, <2>2, <2>3
<1>10. CASE UNCHANGED vars
  BY <1>10
<1>11. QED
  BY <1>3, <1>4, <1>5, <1>6, <1>7, <1>8, <1>9, <1>10 DEF Next, FsmStep, MainStep

LEMMA Invariant == Spec => []IInv
<1>1. IInv /\ [Next]_vars => IInv'
  BY NextInvariant
<1>2. QED
  BY InitInvariant, <1>1, PTL DEF Spec

----------------------------------------------------------------------------
\* Every variable keeps its type.  For the count of the writers at work this
\* rests on the whole invariant: the code never stops one it did not start.
THEOREM FsmTypeCorrect == Spec => []TypeOK
<1>1. IInv => TypeOK
  BY DEF IInv
<1>2. QED
  BY Invariant, <1>1, PTL

\* Whichever of the two threads runs on_enter_running, on_disconnection or
\* on_enter_final, and however stopping the pipeline ends, no writer is started
\* while another one is at work, and MsgDispatcher holds the one that is.
THEOREM WritersReplacedInTurn == Spec => []NoWriterLost
<1>1. IInv => NoWriterLost
  BY DEF IInv, Inv
<1>2. QED
  BY Invariant, <1>1, PTL

\* While the machine is running, messages have a writer to go to, once
\* on_enter_running has made it.
THEOREM WriterWhileRunning == Spec => []RunningHasWriter
<1>1. IInv => RunningHasWriter
  BY DEF IInv, Inv
<1>2. QED
  BY Invariant, <1>1, PTL

\* HandlerFSM.run returns only with no writer at work and both connections
\* down, whichever thread stopped them, and none comes back afterwards.
THEOREM RunEndsCleanly == Spec => []CleanEnd
<1>1. IInv => CleanEnd
  BY DEF IInv, Inv, WriterPerState, NoWriterLost, CleanEnd
<1>2. QED
  BY Invariant, <1>1, PTL

\* The two threads exclude each other from everything that is done under the
\* engine's processing lock: making the writer, on_disconnection, taking an
\* event, releasing the lock.
EngineIsExclusive ==
  \A t \in Threads : pc[t] \in {"setWriter", "take", "drop", "release"} => owner = t

\* The processing lock of python-statemachine's engine does what HandlerFSM
\* takes it for, nested sends and exceptions included.
THEOREM CallbacksExclusive == Spec => []EngineIsExclusive
<1>1. IInv => EngineIsExclusive
  BY DEF IInv, Inv, TypeOK, Outside, EngineIsExclusive
<1>2. QED
  BY Invariant, <1>1, PTL

----------------------------------------------------------------------------
(* The final state.                                                        *)

LEMMA StepInFinal ==
  ASSUME IInv, NEW t \in Threads, Step(t), state = "final"
  PROVE  state' = "final" /\ live' <= live
<1> USE DEF IInv, Inv, TypeOK, Goto, ResetEvent, Raise, Handle, Processing, Outside, WriterEnds
<1>1. ~ SetWriter(t) /\ ~ TakeInit(t) /\ ~ TakeConnection(t) /\ ~ TakeDisconnection(t)
      /\ ~ TakeFinish(t) /\ ~ Drop(t)
  BY DEF SetWriter, TakeInit, TakeConnection, TakeDisconnection, TakeFinish, Drop
<1>2. CASE StopWriter(t)
  BY <1>2 DEF StopWriter
<1>3. CASE UNCHANGED <<state, live>>
  BY <1>3
<1>4. QED
  BY <1>1, <1>2, <1>3 DEF Step, IdleEnter, IdleConnect, IdleTest, IdleSend, RunEnter, RunTest,
       RunSend, StopConns, Try, TakeRefused, TakeNothing, Release

\* Once final, the machine stays so, and no writer is started any more,
\* whatever events are still queued or sent by either thread.
THEOREM FinalStateIsFinal == Spec => FinalIsFinal
<1> DEFINE Stays == state = "final" => state' = "final" /\ live' <= live
<1>1. IInv /\ [Next]_vars => [Stays]_vars
  <2> SUFFICES ASSUME IInv, [Next]_vars, state = "final"
               PROVE  state' = "final" /\ live' <= live
    OBVIOUS
  <2>1. ASSUME NEW t \in Threads, Step(t)
        PROVE  state' = "final" /\ live' <= live
    BY <2>1, StepInFinal
  <2>2. CASE UNCHANGED <<state, live>>
    BY <2>2 DEF IInv, TypeOK
  <2>3. QED
    BY <2>1, <2>2 DEF Next, FsmStep, MainStep, Top, SendFinish, Join, Interrupt, Environment,
         Trouble, ConnLocks, ConnRaises
<1>2. QED
  BY Invariant, <1>1, PTL DEF Spec, FinalIsFinal
----------------------------------------------------------------------------
(* The finish that stop_machine sends.                                     *)

FinishQueued == \E i \in 1..Len(queue) : queue[i] = "finish"
SomeRaised   == \E t \in Threads : pc[t] = "raised"

\* From when stop_machine has sent finish, the event is in the engine's queue
\* until the machine is in the final state, or an exception has cleared it.
FinishKept ==
  pc["main"] \notin {"idle", "put"} => FinishQueued \/ state = "final" \/ SomeRaised

\* What a step does to the queue.
Kept     == queue' = queue
Extended == \E e \in Events : queue' = Append(queue, e)
Taken    == /\ queue # <<>> /\ queue' = Tail(queue)
            /\ Head(queue) = "finish" => state' = "final"
Cleared  == SomeRaised'

LEMMA QueueMoves ==
  ASSUME TypeOK, NEW t \in Threads, Step(t)
  PROVE  Kept \/ Extended \/ Taken \/ Cleared
<1> USE DEF Kept, Extended, Taken, Cleared, SomeRaised, Goto
<1>1. CASE IdleSend(t) \/ RunSend(t)
  BY <1>1 DEF IdleSend, RunSend, Put, Events
<1>2. CASE StopWriter(t) \/ Drop(t)
  BY <1>2 DEF StopWriter, Drop, Raise, TypeOK
<1>3. CASE TakeInit(t) \/ TakeConnection(t) \/ TakeDisconnection(t) \/ TakeFinish(t)
  BY <1>3 DEF TakeInit, TakeConnection, TakeDisconnection, TakeFinish, Handle
<1>4. CASE TakeRefused(t)
  <2>1. CASE Raise(t)
    BY <2>1 DEF Raise, TypeOK
  <2>2. CASE state = "final" /\ queue' = Tail(queue)
    BY <1>4, <2>2 DEF TakeRefused
  <2>3. QED
    BY <1>4, <2>1, <2>2 DEF TakeRefused
<1>5. CASE UNCHANGED queue
  BY <1>5
<1>6. QED
  BY <1>1, <1>2, <1>3, <1>4, <1>5 DEF Step, IdleEnter, IdleConnect, IdleTest, SetWriter, RunEnter,
       RunTest, StopConns, Try, TakeNothing, Release

\* An exception ends its thread, and the main thread does not go back.
LEMMA ThreadsGoOn ==
  ASSUME TypeOK, NEW t \in Threads, Step(t)
  PROVE  /\ SomeRaised => SomeRaised'
         /\ pc["main"] \in {"idle", "put"} => pc'["main"] = pc["main"]
<1> USE DEF TypeOK, SomeRaised, Goto, After
<1>1. pc[t] \notin {"raised", "idle", "put"} /\ \A u \in Threads \ {t} : pc'[u] = pc[u]
  BY DEF Step, IdleEnter, IdleConnect, IdleTest, IdleSend, SetWriter, RunEnter, RunTest, RunSend,
         StopWriter, StopConns, Try, TakeInit, TakeConnection, TakeDisconnection, Drop, TakeFinish,
         TakeRefused, TakeNothing, Release, Put, Handle, Raise
<1>2. QED
  BY <1>1

LEMMA FinishStays ==
  ASSUME TypeOK, FinishQueued, Kept \/ Extended \/ Taken \/ Cleared
  PROVE  FinishQueued' \/ state' = "final" \/ SomeRaised'
<1>1. PICK i \in 1..Len(queue) : queue[i] = "finish"
  BY DEF FinishQueued
<1>2. queue \in Seq(Events) /\ Len(queue) \in Nat
  BY LenProperties DEF TypeOK
<1>3. CASE Kept
  BY <1>3 DEF Kept, FinishQueued
<1>4. CASE Extended
  <2>1. i \in 1..Len(queue') /\ queue'[i] = "finish"
    BY <1>1, <1>2, <1>4, AppendProperties DEF Extended
  <2>2. QED
    BY <2>1 DEF FinishQueued
<1>5. CASE Taken
  <2>1. CASE i = 1
    BY <1>1, <1>5, <2>1 DEF Taken
  <2>2. CASE i # 1
    <3>1. i - 1 \in 1..Len(queue') /\ queue'[i - 1] = "finish"
      BY <1>1, <1>2, <1>5, <2>2, HeadTailProperties DEF Taken
    <3>2. QED
      BY <3>1 DEF FinishQueued
  <2>3. QED
    BY <2>1, <2>2
<1>6. QED
  BY <1>3, <1>4, <1>5 DEF Cleared

LEMMA FinishNext == IInv /\ FinishKept /\ [Next]_vars => FinishKept'
<1> SUFFICES ASSUME IInv, FinishKept, [Next]_vars PROVE FinishKept'
  OBVIOUS
<1> USE DEF IInv, FinishKept
<1>1. ASSUME NEW t \in Threads, Step(t) PROVE FinishKept'
  <2>1. /\ Kept \/ Extended \/ Taken \/ Cleared
        /\ SomeRaised => SomeRaised'
        /\ pc["main"] \in {"idle", "put"} => pc'["main"] = pc["main"]
        /\ state = "final" => state' = "final"
    BY <1>1, QueueMoves, ThreadsGoOn, StepInFinal
  <2>2. QED
    BY <2>1, FinishStays
<1>2. CASE Top
  BY <1>2, FinishStays DEF Top, Put, Goto, TypeOK, Kept, Extended, SomeRaised, Events
<1>3. CASE SendFinish
  <2>1. queue' = Append(queue, "finish") /\ queue \in Seq(Events) /\ "finish" \in Events
    BY <1>3 DEF SendFinish, Put, TypeOK, Events
  <2>2. Len(queue') \in 1..Len(queue') /\ queue'[Len(queue')] = "finish"
    BY <2>1, AppendProperties, LenProperties
  <2>3. QED
    BY <2>2 DEF FinishQueued
<1>4. CASE Join \/ Interrupt
  BY <1>4 DEF Join, Interrupt, Goto, TypeOK, FinishQueued, SomeRaised
<1>5. CASE Environment \/ UNCHANGED vars
  BY <1>5 DEF Environment, FinishQueued, SomeRaised
<1>6. ASSUME NEW t \in Threads, ConnLocks(t) PROVE FinishKept'
  BY <1>6 DEF ConnLocks, AsksConnections, TakesConnection, LogsStatus, TypeOK, FinishQueued,
              SomeRaised
<1>7. ASSUME NEW t \in Threads, ConnRaises(t) PROVE FinishKept'
  BY <1>7 DEF ConnRaises, Raise, TypeOK, SomeRaised
<1>8. QED
  BY <1>1, <1>2, <1>3, <1>4, <1>5, <1>6, <1>7 DEF Next, FsmStep, MainStep, Trouble

\* Once sent, finish is not dropped or used up by anything that either thread
\* sends or handles: only an exception loses it.
THEOREM FinishIsKept == Spec => []FinishKept
<1>1. Init => FinishKept
  BY DEF Init, FinishKept
<1>2. QED
  BY Invariant, FinishNext, <1>1, PTL DEF Spec
==============================================================================
