--------------------------- MODULE PipelineProofs ---------------------------
(* Safety of Pipeline for every batch size, bound and set of messages.     *)
EXTENDS Pipeline, SequenceTheorems, TLAPS

(***************************************************************************)
(* Which variables a step may change.  The proofs below go action by       *)
(* action; the groups of variables, and what a notification does to the    *)
(* parser's place, are expanded throughout.                                *)
(***************************************************************************)
USE DEF vars, network, queue, parser, writer, clock, controller, NotifyParser

----------------------------------------------------------------------------
(***************************************************************************)
(* Which actions move points, messages and commits: every other step       *)
(* leaves them where they are.                                             *)
(***************************************************************************)
PointsMove   == ParserPut \/ WriterPop \/ WriterWrite \/ UNCHANGED <<dest, batch, stored>>
MadeMoves    == ParserPut \/ ParserGet \/ UNCHANGED <<cur, made>>
MessagesMove == Receive \/ AddToQueue \/ ParserGet \/ UNCHANGED <<raw, cur, arrived, mpc>>
CommitsMove  == \/ WriterPop \/ WriterWrite
                \/ UNCHANGED batch /\ (wpc = "write" <=> wpc' = "write")

LEMMA Moves ==
  ASSUME [Next]_vars
  PROVE  PointsMove /\ MadeMoves /\ MessagesMove /\ CommitsMove
<1> USE DEF PointsMove, MadeMoves, MessagesMove, CommitsMove, NotifyWriter
<1>1. CASE Receive \/ AddToQueue
  BY <1>1 DEF Receive, AddToQueue
<1>2. CASE ParserStep
  <2>1. CASE ParserGet
    BY <2>1 DEF ParserGet
  <2>2. CASE ParserPut
    BY <2>2 DEF ParserPut
  <2> QED
    BY <1>2, <2>1, <2>2 DEF ParserStep, ParserSleeps, ParserStops, ParserTouch, ParserNotify,
                            ParserDone, ParserRaises
<1>3. CASE WriterStep
  <2>1. CASE WriterPop \/ WriterWrite
    BY <2>1 DEF WriterPop, WriterWrite
  <2> QED
    BY <1>3, <2>1 DEF WriterStep, WriterGoto, WriterBoot, WriterLoop, WriterAwait, WriterCount,
                      WriterFlag, WriterReset, WriterJoin, WriterStops
<1>4. CASE TimerStep
  BY <1>4 DEF TimerStep, TimerFires, TimerExpires, TimerRings, TimerDefers, TimerRearms
<1>5. CASE \E why \in {"disconnect", "finish"} : Request(why)
  BY <1>5 DEF Request
<1>6. CASE ControllerStep
  BY <1>6 DEF ControllerStep, SetFlag, Drain, StopParser, WakeWriter, JoinParser, JoinWriter
<1>7. CASE UNCHANGED vars
  BY <1>7
<1> QED
  BY <1>1, <1>2, <1>3, <1>4, <1>5, <1>6, <1>7 DEF Next

----------------------------------------------------------------------------
(***************************************************************************)
(* Types and the accounting of row_messages.  task_done is called with a   *)
(* message in hand only, so the count never goes below zero; that nobody   *)
(* but the writer starts the parser is what WriterBoot needs.              *)
(***************************************************************************)
BootFirst == wpc = "boot" => ppc = "new"

AccountInv == CountersOK /\ raw \in Seq(Nat) /\ TaskAccounting /\ BootFirst


LEMMA AccountInit == Init => AccountInv
<1> SUFFICES ASSUME Init PROVE AccountInv
  OBVIOUS
<1>1. raw \in Seq(Nat) /\ Len(raw) = 0
  BY EmptySeq DEF Init
<1> QED
  BY <1>1 DEF Init, AccountInv, CountersOK, TaskAccounting, BootFirst, Parsing

LEMMA AccountStep == AccountInv /\ [Next]_vars => AccountInv'
<1> SUFFICES ASSUME AccountInv, [Next]_vars PROVE AccountInv'
  OBVIOUS
<1> USE DEF AccountInv, CountersOK, TaskAccounting, BootFirst, Parsing
<1>1. CASE Receive
  BY <1>1 DEF Receive
<1>2. CASE AddToQueue
  <2>1. CASE writerSet
    <3>1. raw' = Append(raw, arrived) /\ unfinished' = unfinished + 1
      BY <1>2, <2>1, Zenon DEF AddToQueue
    <3>2. raw' \in Seq(Nat) /\ Len(raw') = Len(raw) + 1
      BY <3>1, AppendProperties
    <3> QED BY <1>2, <3>1, <3>2 DEF AddToQueue
  <2>2. CASE ~writerSet
    <3>1. UNCHANGED <<raw, unfinished>>
      BY <1>2, <2>2, Zenon DEF AddToQueue
    <3> QED BY <1>2, <3>1 DEF AddToQueue
  <2> QED BY <2>1, <2>2
<1>3. CASE ParserStep
  <2>1. CASE ParserGet
    BY <2>1, HeadTailProperties, PipelineAssumption DEF ParserGet
  <2>2. CASE ParserSleeps \/ ParserStops
    BY <2>2 DEF ParserSleeps, ParserStops
  <2>3. CASE ParserPut
    BY <2>3 DEF ParserPut
  <2>4. CASE ParserTouch
    BY <2>4 DEF ParserTouch
  <2>5. CASE ParserNotify
    BY <2>5 DEF ParserNotify, NotifyWriter
  <2>6. CASE ParserDone \/ ParserRaises
    BY <2>6 DEF ParserDone, ParserRaises, TaskDone
  <2> QED BY <1>3, <2>1, <2>2, <2>3, <2>4, <2>5, <2>6 DEF ParserStep
<1>4. CASE WriterStep
  BY <1>4 DEF WriterStep, WriterGoto, WriterBoot, WriterLoop, WriterAwait, WriterCount, WriterFlag,
              WriterReset, WriterPop, WriterWrite, WriterJoin, WriterStops
<1>5. CASE TimerStep
  BY <1>5 DEF TimerStep, TimerFires, TimerExpires, TimerRings, TimerDefers, TimerRearms, NotifyWriter
<1>6. ASSUME NEW why \in {"disconnect", "finish"}, Request(why) PROVE AccountInv'
  BY <1>6 DEF Request
<1>7. CASE ControllerStep
  BY <1>7 DEF ControllerStep, SetFlag, Drain, StopParser, WakeWriter, JoinParser, JoinWriter,
              NotifyWriter
<1>8. CASE UNCHANGED vars
  BY <1>8
<1> QED
  BY <1>1, <1>2, <1>3, <1>4, <1>5, <1>6, <1>7, <1>8 DEF Next

THEOREM AccountCorrect == Spec => []AccountInv
<1> QED BY AccountInit, AccountStep, PTL DEF Spec

\* What join() waits for is exactly what the queue holds and the parser has in
\* its hands, in every reachable state.
THEOREM AccountingCorrect == Spec => []TaskAccounting
<1>1. AccountInv => TaskAccounting
  BY DEF AccountInv
<1> QED BY <1>1, AccountCorrect, PTL

----------------------------------------------------------------------------
(***************************************************************************)
(* The remaining types: flags, places and queues of points.                *)
(***************************************************************************)
LEMMA FlagsStep == FlagsOK /\ [Next]_vars => FlagsOK'
<1> SUFFICES ASSUME FlagsOK, [Next]_vars PROVE FlagsOK'
  OBVIOUS
<1> USE DEF FlagsOK
<1>1. CASE Receive \/ AddToQueue
  BY <1>1, Zenon DEF Receive, AddToQueue
<1>2. CASE ParserStep
  BY <1>2, Zenon DEF ParserStep, ParserSleeps, ParserGet, ParserStops, ParserPut, ParserTouch,
                     ParserNotify, ParserDone, ParserRaises
<1>3. CASE WriterStep
  BY <1>3, Zenon DEF WriterStep, WriterBoot, WriterLoop, WriterAwait, WriterCount, WriterFlag,
                     WriterReset, WriterPop, WriterWrite, WriterJoin, WriterStops
<1>4. CASE TimerStep
  BY <1>4, Zenon DEF TimerStep, TimerFires, TimerExpires, TimerRings, TimerDefers, TimerRearms
<1>5. ASSUME NEW why \in {"disconnect", "finish"}, Request(why) PROVE FlagsOK'
  BY <1>5, Zenon DEF Request
<1>6. CASE ControllerStep
  <2>1. CASE JoinWriter
    <3>1. writerSet' \in BOOLEAN
      BY <2>1, Zenon DEF JoinWriter
    <3> QED BY <2>1, <3>1, Zenon DEF JoinWriter
  <2> QED
    BY <1>6, <2>1, Zenon DEF ControllerStep, SetFlag, Drain, StopParser, WakeWriter, JoinParser
<1>7. CASE UNCHANGED vars
  BY <1>7, Zenon
<1> QED
  BY <1>1, <1>2, <1>3, <1>4, <1>5, <1>6, <1>7, Zenon DEF Next

LEMMA PlacesStep == PlacesOK /\ [Next]_vars => PlacesOK'
<1> SUFFICES ASSUME PlacesOK, [Next]_vars PROVE PlacesOK'
  OBVIOUS
<1> USE DEF PlacesOK, NotifyWriter
<1>1. CASE Receive \/ AddToQueue
  BY <1>1 DEF Receive, AddToQueue
<1>2. CASE ParserStep
  BY <1>2 DEF ParserStep, ParserSleeps, ParserGet, ParserStops, ParserPut, ParserTouch,
              ParserNotify, ParserDone, ParserRaises
<1>3. CASE WriterStep
  BY <1>3 DEF WriterStep, WriterGoto, WriterBoot, WriterLoop, WriterAwait, WriterCount, WriterFlag,
              WriterReset, WriterPop, WriterWrite, WriterJoin, WriterStops
<1>4. CASE TimerStep
  BY <1>4 DEF TimerStep, TimerFires, TimerExpires, TimerRings, TimerDefers, TimerRearms
<1>5. ASSUME NEW why \in {"disconnect", "finish"}, Request(why) PROVE PlacesOK'
  BY <1>5 DEF Request, ControllerGoto
<1>6. CASE ControllerStep
  BY <1>6 DEF ControllerStep, ControllerGoto, SetFlag, Drain, StopParser, WakeWriter,
              JoinParser, JoinWriter
<1>7. CASE UNCHANGED vars
  BY <1>7
<1> QED
  BY <1>1, <1>2, <1>3, <1>4, <1>5, <1>6, <1>7 DEF Next

\* How many points a commit takes, for any number of points queued.
LEMMA PopCountBounds ==
  ASSUME NEW n \in Nat
  PROVE  /\ PopCount(n) \in 0..n /\ PopCount(n) <= BatchSize
         /\ n > 0 => PopCount(n) > 0
  BY PipelineAssumption DEF PopCount

\* A commit splits the queue: what it takes, and what stays.
LEMMA PopSplits ==
  ASSUME NEW d \in Seq(Point), NEW n \in 0..Len(d)
  PROVE  /\ SubSeq(d, 1, n) \in Seq(Point) /\ Len(SubSeq(d, 1, n)) = n
         /\ SubSeq(d, n + 1, Len(d)) \in Seq(Point)
         /\ SubSeq(d, 1, n) \o SubSeq(d, n + 1, Len(d)) = d
<1>1. \A i \in 1..Len(d) : d[i] \in Point
  BY ElementOfSeq
<1>2. Len(d) \in Nat /\ n \in Int /\ n + 1 \in Int /\ n <= Len(d)
  BY LenProperties
<1>3. SubSeq(d, 1, n) \in Seq(Point) /\ Len(SubSeq(d, 1, n)) = n
  BY <1>1, <1>2, SubSeqProperties
<1>4. SubSeq(d, n + 1, Len(d)) \in Seq(Point)
  BY <1>1, <1>2, SubSeqProperties
<1>5. SubSeq(d, 1, n) \o SubSeq(d, n + 1, Len(d)) = SubSeq(d, 1, Len(d))
  <2>1. 1 \in 1..Len(d) + 1 /\ n \in (1 - 1)..Len(d) /\ Len(d) \in n..Len(d)
    BY <1>2
  <2> QED BY <2>1, ConcatAdjacentSubSeq
<1> QED BY <1>3, <1>4, <1>5, SubSeqFull

PointQueuesOK == dest \in Seq(Point) /\ batch \in Seq(Point) /\ stored \in Seq(Point)

LEMMA PointQueuesStep ==
  CountersOK /\ PointQueuesOK /\ [Next]_vars => PointQueuesOK'
<1> SUFFICES ASSUME CountersOK, PointQueuesOK, [Next]_vars PROVE PointQueuesOK'
  OBVIOUS
<1> USE DEF PointQueuesOK
<1>1. CASE ParserPut
  <2>1. <<cur, made + 1>> \in Point
    BY DEF Point, CountersOK
  <2> QED BY <1>1, <2>1, AppendProperties DEF ParserPut
<1>2. CASE WriterPop
  <2>1. PopCount(Len(dest)) \in 0..Len(dest)
    BY PopCountBounds, LenProperties
  <2> QED BY <1>2, <2>1, PopSplits DEF WriterPop
<1>3. CASE WriterWrite
  <2>1. dest' = dest /\ batch' = <<>> /\ (stored' = stored \/ stored' = stored \o batch)
    BY <1>3 DEF WriterWrite
  <2>2. stored \o batch \in Seq(Point) /\ <<>> \in Seq(Point)
    BY ConcatProperties, EmptySeq
  <2> QED BY <2>1, <2>2
<1>4. CASE UNCHANGED <<dest, batch, stored>>
  BY <1>4
<1>5. ParserPut \/ WriterPop \/ WriterWrite \/ UNCHANGED <<dest, batch, stored>>
  BY Moves DEF PointsMove
<1> QED BY <1>1, <1>2, <1>3, <1>4, <1>5

TypeInv == FlagsOK /\ PlacesOK /\ PointQueuesOK /\ AccountInv

LEMMA TypeInit == Init => TypeInv
<1> SUFFICES ASSUME Init PROVE TypeInv
  OBVIOUS
<1>1. FlagsOK
  BY Zenon DEF Init, FlagsOK
<1>2. PlacesOK
  BY DEF Init, PlacesOK
<1>3. PointQueuesOK
  BY EmptySeq DEF Init, PointQueuesOK
<1> QED BY <1>1, <1>2, <1>3, AccountInit DEF TypeInv

LEMMA TypeStep == TypeInv /\ [Next]_vars => TypeInv'
  BY FlagsStep, PlacesStep, PointQueuesStep, AccountStep DEF TypeInv, AccountInv

\* The fields and local variables of the five threads keep their types; for
\* the count of unfinished tasks that is to say it is never taken below zero.
THEOREM TypeCorrect == Spec => []TypeOK
<1>1. TypeInv => TypeOK
  BY DEF TypeInv, TypeOK, QueuesOK, PointQueuesOK, AccountInv
<1> QED BY <1>1, TypeInit, TypeStep, PTL DEF Spec

----------------------------------------------------------------------------
(***************************************************************************)
(* Messages reach the parser in the order they arrived.  The network       *)
(* thread holds the youngest message while it queues it.                   *)
(***************************************************************************)
Queued(m) == cur < m /\ m <= arrived /\ (mpc = "held" => m < arrived)

QueueInv ==
  /\ \A i, j \in 1..Len(raw) : i < j => raw[i] < raw[j]
  /\ \A i \in 1..Len(raw) : Queued(raw[i])
  /\ cur <= arrived /\ (mpc = "held" => cur < arrived)

LEMMA QueueStep ==
  CountersOK /\ raw \in Seq(Nat) /\ QueueInv /\ [Next]_vars => QueueInv'
<1> SUFFICES ASSUME CountersOK, raw \in Seq(Nat), QueueInv, [Next]_vars PROVE QueueInv'
  OBVIOUS
<1> USE DEF CountersOK, QueueInv, Queued
<1>1. Len(raw) \in Nat /\ \A i \in 1..Len(raw) : raw[i] \in Nat
  BY LenProperties, ElementOfSeq
<1>2. CASE Receive
  BY <1>1, <1>2 DEF Receive
<1>3. CASE AddToQueue
  <2>1. CASE writerSet
    <3>1. raw' = Append(raw, arrived) /\ mpc' = "idle" /\ mpc = "held" /\ UNCHANGED <<arrived, cur>>
      BY <1>3, <2>1, Zenon DEF AddToQueue
    <3>2. /\ Len(raw') = Len(raw) + 1 /\ raw'[Len(raw) + 1] = arrived
          /\ \A i \in 1..Len(raw) : raw'[i] = raw[i]
      BY <3>1, AppendProperties
    <3>3. \A i \in 1..Len(raw') : i \in 1..Len(raw) \/ i = Len(raw) + 1
      BY <1>1, <3>2
    <3> QED BY <1>1, <3>1, <3>2, <3>3
  <2>2. CASE ~writerSet
    <3>1. UNCHANGED <<raw, arrived, cur>> /\ mpc' = "idle"
      BY <1>3, <2>2, Zenon DEF AddToQueue
    <3> QED BY <3>1
  <2> QED BY <2>1, <2>2
<1>4. CASE ParserGet
  <2>1. /\ raw # <<>> /\ cur' = Head(raw) /\ raw' = Tail(raw) /\ UNCHANGED <<arrived, mpc>>
    BY <1>4 DEF ParserGet
  <2>2. Len(raw) > 0 /\ Head(raw) = raw[1]
    BY <1>1, <2>1, EmptySeq
  <2>3. Len(raw') = Len(raw) - 1 /\ \A i \in 1..Len(raw') : raw'[i] = raw[i + 1]
    BY <2>1, HeadTailProperties
  <2>4. \A i \in 1..Len(raw') : i + 1 \in 1..Len(raw) /\ 1 < i + 1 /\ 1 \in 1..Len(raw)
    BY <1>1, <2>2, <2>3
  <2>5. \A i, j \in 1..Len(raw') : i < j => i + 1 < j + 1
    BY <1>1, <2>3
  <2>6. \A i, j \in 1..Len(raw') : i < j => raw'[i] < raw'[j]
    BY <2>3, <2>4, <2>5
  <2>7. \A i \in 1..Len(raw') : cur' < raw'[i] /\ Queued(raw[i + 1])
    BY <2>1, <2>2, <2>3, <2>4
  <2>8. cur' <= arrived /\ (mpc = "held" => cur' < arrived)
    BY <2>1, <2>2, <2>4
  <2> QED BY <2>1, <2>3, <2>6, <2>7, <2>8
<1>5. CASE UNCHANGED <<raw, cur, arrived, mpc>>
  BY <1>5
<1>6. Receive \/ AddToQueue \/ ParserGet \/ UNCHANGED <<raw, cur, arrived, mpc>>
  BY Moves DEF MessagesMove
<1> QED BY <1>2, <1>3, <1>4, <1>5, <1>6

----------------------------------------------------------------------------
(* A commit in progress holds some points, no more than a batch.           *)

BatchInv ==
  /\ wpc # "write" => batch = <<>>
  /\ wpc = "write" => batch # <<>> /\ Len(batch) <= BatchSize

LEMMA BatchStep == PointQueuesOK /\ BatchInv /\ [Next]_vars => BatchInv'
<1> SUFFICES ASSUME PointQueuesOK, BatchInv, [Next]_vars PROVE BatchInv'
  OBVIOUS
<1> USE DEF BatchInv
<1>1. CASE WriterPop
  <2> DEFINE n == PopCount(Len(dest))
  <2>1. n \in 0..Len(dest) /\ n <= BatchSize /\ (Len(dest) > 0 => n > 0)
    BY PopCountBounds, LenProperties DEF PointQueuesOK
  <2>2. batch' = SubSeq(dest, 1, n) /\ wpc' = IF dest = <<>> THEN "loop" ELSE "write"
    BY <1>1 DEF WriterPop, WriterGoto
  <2>3. batch' \in Seq(Point) /\ Len(batch') = n
    BY <2>1, <2>2, PopSplits DEF PointQueuesOK
  <2>4. CASE dest = <<>>
    <3>1. Len(batch') = 0
      BY <2>1, <2>3, <2>4, EmptySeq
    <3>2. batch' = <<>>
      BY <2>3, <3>1, EmptySeq
    <3> QED BY <2>2, <2>4, <3>2
  <2>5. CASE dest # <<>>
    <3>1. Len(dest) > 0
      BY <2>5, EmptySeq DEF PointQueuesOK
    <3>2. batch' # <<>>
      BY <2>1, <2>3, <3>1, EmptySeq
    <3> QED BY <2>1, <2>2, <2>3, <2>5, <3>2
  <2> QED BY <2>4, <2>5
<1>2. CASE WriterWrite
  BY <1>2 DEF WriterWrite, WriterGoto
<1>3. CASE UNCHANGED batch /\ (wpc = "write" <=> wpc' = "write")
  BY <1>3
<1>4. WriterPop \/ WriterWrite \/ (UNCHANGED batch /\ (wpc = "write" <=> wpc' = "write"))
  BY Moves DEF CommitsMove
<1> QED BY <1>1, <1>2, <1>3, <1>4

----------------------------------------------------------------------------
(***************************************************************************)
(* The pipeline implements Delivery.  Three steps of the code move points  *)
(* (PointsMove), each in the way Delivery allows, and the parser takes a   *)
(* message younger than all points made so far.                            *)
(***************************************************************************)
RefineInv == TypeInv /\ QueueInv /\ BatchInv

LEMMA RefineInvInit == Init => RefineInv
<1> SUFFICES ASSUME Init PROVE RefineInv
  OBVIOUS
<1>1. Len(raw) = 0 /\ raw = <<>> /\ batch = <<>> /\ wpc = "boot" /\ mpc = "idle"
      /\ cur = 0 /\ arrived = 0
  BY EmptySeq DEF Init
<1>2. QueueInv /\ BatchInv
  BY <1>1 DEF QueueInv, BatchInv
<1> QED BY <1>2, TypeInit DEF RefineInv

LEMMA RefineInvStep == RefineInv /\ [Next]_vars => RefineInv'
  BY TypeStep, QueueStep, BatchStep DEF RefineInv, TypeInv, AccountInv

LEMMA RefineStep ==
  RefineInv /\ [Next]_vars => [Abstract!Next]_(Abstract!delivery)
<1> SUFFICES ASSUME RefineInv, [Next]_vars PROVE [Abstract!Next]_(Abstract!delivery)
  OBVIOUS
<1>1. /\ dest \in Seq(Point) /\ batch \in Seq(Point) /\ stored \in Seq(Point)
      /\ cur \in Nat /\ made \in Nat
  BY DEF RefineInv, TypeInv, PointQueuesOK, AccountInv, CountersOK
<1>2. CASE ParserPut
  <2>1. /\ made' = made + 1 /\ cur' = cur /\ batch' = batch /\ stored' = stored
        /\ dest' = Append(dest, <<cur, made + 1>>)
    BY <1>2 DEF ParserPut
  <2>2. <<cur', made'>> \in Point /\ Before(<<cur, made>>, <<cur', made'>>)
    BY <1>1, <2>1 DEF Point, Before
  <2>3. batch' \o dest' = Append(batch \o dest, <<cur', made'>>)
    <3> DEFINE p == <<cur', made'>>
    <3>1. <<p>> \in Seq(Point) /\ batch \o dest \in Seq(Point)
      BY <1>1, <2>2, ConcatProperties
    <3>2. dest' = dest \o <<p>> /\ Append(batch \o dest, p) = (batch \o dest) \o <<p>>
      BY <1>1, <2>1, <2>2, <3>1, AppendIsConcat
    <3>3. (batch \o dest) \o <<p>> = batch \o (dest \o <<p>>)
      BY <1>1, <3>1, ConcatAssociative
    <3> QED BY <2>1, <3>2, <3>3
  <2>4. Abstract!Accept
    BY <2>1, <2>2, <2>3 DEF Abstract!Accept, Abstract!Advance, Abstract!Point, Abstract!Before,
                           Point, Before
  <2> QED BY <2>4 DEF Abstract!Next
<1>3. CASE WriterPop
  <2> DEFINE n == PopCount(Len(dest))
  <2>1. n \in 0..Len(dest)
    BY <1>1, PopCountBounds, LenProperties
  <2>2. batch = <<>>
    BY <1>3 DEF WriterPop, WriterGoto, RefineInv, BatchInv
  <2>3. /\ batch' = SubSeq(dest, 1, n) /\ dest' = SubSeq(dest, n + 1, Len(dest))
        /\ cur' = cur /\ made' = made /\ stored' = stored
    BY <1>3 DEF WriterPop
  <2>4. batch' \o dest' = dest
    BY <1>1, <2>1, <2>3, PopSplits
  <2>5. batch \o dest = dest
    BY <1>1, <2>2, ConcatEmptySeq
  <2> QED BY <2>3, <2>4, <2>5 DEF Abstract!delivery
<1>4. CASE WriterWrite
  <2>1. /\ wpc = "write" /\ batch' = <<>> /\ dest' = dest /\ cur' = cur /\ made' = made
        /\ (stored' = stored \/ stored' = stored \o batch)
    BY <1>4 DEF WriterWrite, WriterGoto
  <2> DEFINE n == Len(batch)
             all == batch \o dest
  <2>2. n \in Nat /\ n > 0 /\ n <= BatchSize
    BY <1>1, <2>1, EmptySeq, LenProperties DEF RefineInv, BatchInv
  <2>3. Len(all) = n + Len(dest) /\ Len(dest) \in Nat /\ n \in 1..BatchSize /\ n <= Len(all)
    BY <1>1, <2>2, ConcatProperties, LenProperties, PipelineAssumption
  <2>4. SubSeq(all, 1, n) = batch
    BY <1>1, <2>2, SubSeqOfConcat1, SubSeqFull
  <2>5. SubSeq(all, n + 1, Len(all)) = dest
    <3>1. CASE dest = <<>>
      <4>1. Len(dest) = 0 /\ n + 1 \in Int /\ Len(all) \in Int /\ Len(all) < n + 1
        BY <2>2, <2>3, <3>1, EmptySeq
      <4> QED BY <3>1, <4>1, SubSeqEmpty
    <3>2. CASE dest # <<>>
      <4>1. Len(dest) > 0
        BY <1>1, <3>2, EmptySeq
      <4>2. /\ n + 1 \in n + 1..n + Len(dest) /\ Len(all) \in n + 1..n + Len(dest)
            /\ n + 1 - n = 1 /\ Len(all) - n = Len(dest)
        BY <2>2, <2>3, <4>1
      <4>3. SubSeq(all, n + 1, Len(all)) = SubSeq(dest, n + 1 - n, Len(all) - n)
        BY <1>1, <4>2, SubSeqOfConcat2
      <4> QED BY <1>1, <4>2, <4>3, SubSeqFull
    <3> QED BY <3>1, <3>2
  <2>6. batch' \o dest' = dest
    BY <1>1, <2>1, ConcatEmptySeq
  <2>7. Abstract!Settle(n)
    BY <2>1, <2>4, <2>5, <2>6 DEF Abstract!Settle
  <2> QED BY <2>3, <2>7 DEF Abstract!Next
<1>5. CASE ParserGet
  <2>1. /\ raw # <<>> /\ cur' = Head(raw) /\ made' = 0
        /\ dest' = dest /\ batch' = batch /\ stored' = stored
    BY <1>5 DEF ParserGet
  <2>2. cur < Head(raw) /\ Head(raw) \in Nat
    <3>1. raw \in Seq(Nat) /\ QueueInv
      BY DEF RefineInv, TypeInv, AccountInv
    <3>2. 1 \in 1..Len(raw) /\ Head(raw) = raw[1] /\ Head(raw) \in Nat
      BY <2>1, <3>1, EmptySeq, HeadTailProperties
    <3> QED BY <3>1, <3>2 DEF QueueInv, Queued
  <2>3. <<cur', made'>> \in Point /\ Before(<<cur, made>>, <<cur', made'>>)
    BY <1>1, <2>1, <2>2 DEF Point, Before
  <2>4. Abstract!Skip
    BY <2>1, <2>3 DEF Abstract!Skip, Abstract!Advance, Abstract!Point, Abstract!Before,
                      Point, Before
  <2> QED BY <2>4 DEF Abstract!Next
<1>6. CASE UNCHANGED <<dest, batch, stored, cur, made>>
  BY <1>6 DEF Abstract!delivery
<1>7. ParserPut \/ WriterPop \/ WriterWrite \/ ParserGet
        \/ UNCHANGED <<dest, batch, stored, cur, made>>
  BY Moves DEF PointsMove, MadeMoves
<1> QED BY <1>2, <1>3, <1>4, <1>5, <1>6, <1>7

\* Whatever the interleaving of the five threads, and however writes fail, the
\* session is a run of Delivery.
THEOREM PipelineImplementsDelivery == Spec => ImplementsDelivery
<1>1. Init => Abstract!Init
  <2>1. <<>> \o <<>> = <<>>
    BY EmptySeq, ConcatEmptySeq
  <2> QED BY <2>1 DEF Init, Abstract!Init
<1> QED
  BY <1>1, RefineInvInit, RefineInvStep, RefineStep, PTL DEF Spec, ImplementsDelivery, Abstract!Spec

\* The order of points, inherited from Delivery.
Ordered == INSTANCE DeliveryProofs WITH pending  <- batch \o dest,
                                        frontier <- <<cur, made>>

THEOREM PipelineInOrder == Spec => []InOrder
<1>1. Abstract!Init => Ordered!Init
  BY DEF Abstract!Init, Ordered!Init
<1>2. [Abstract!Next]_(Abstract!delivery) => [Ordered!Next]_(Ordered!delivery)
  BY DEF Abstract!Next, Abstract!Accept, Abstract!Skip, Abstract!Settle, Abstract!Advance,
         Abstract!delivery, Abstract!Point, Abstract!Before,
         Ordered!Next, Ordered!Accept, Ordered!Skip, Ordered!Settle, Ordered!Advance,
         Ordered!delivery, Ordered!Point, Ordered!Before
<1>3. ImplementsDelivery => []Ordered!AtMostOnceInOrder
  BY <1>1, <1>2, Ordered!DeliveryOrdered, PTL DEF ImplementsDelivery, Abstract!Spec, Ordered!Spec
<1>4. RefineInv /\ Ordered!AtMostOnceInOrder => InOrder
  <2> SUFFICES ASSUME RefineInv, Ordered!AtMostOnceInOrder PROVE InOrder
    OBVIOUS
  <2>1. stored \in Seq(Point) /\ batch \in Seq(Point) /\ dest \in Seq(Point)
    BY DEF RefineInv, TypeInv, PointQueuesOK
  <2>2. (stored \o batch) \o dest = stored \o (batch \o dest)
    BY <2>1, ConcatAssociative
  <2> QED BY <2>2 DEF InOrder, Increasing, Before, Ordered!AtMostOnceInOrder, Ordered!Increasing,
                      Ordered!Before
<1> QED
  BY <1>3, <1>4, RefineInvInit, RefineInvStep, PipelineImplementsDelivery, PTL DEF Spec

----------------------------------------------------------------------------
(***************************************************************************)
(* Stopping.  What stop and graceful_stop have waited for stays as it was: *)
(* the ends of the two threads, and a queue that has been empty since the  *)
(* gate was closed, but for what the network thread was holding.           *)
(***************************************************************************)
Joined ==
  /\ cpc \in {"joinWriter", "stopped"} => Ended
  /\ cpc = "stopped" => wpc = "done"

Requested ==
  /\ cpc = "idle" => mode = "none" /\ ~stopFlag
  /\ cpc \in {"drain", "stop"} \/ wpc \in {"join", "stop"} \/ pstop => stopFlag

InHand == IF mpc = "held" THEN 1 ELSE 0

Drained ==
  mode = "finish" /\ (wpc = "stop" \/ cpc = "stop" \/ pstop) => Len(raw) + InHand <= 1

StopInv == Joined /\ Requested /\ Drained

LEMMA StopInit == Init => StopInv
<1> SUFFICES ASSUME Init PROVE StopInv
  OBVIOUS
<1> QED BY DEF Init, StopInv, Joined, Requested, Drained

LEMMA StopStep == AccountInv /\ StopInv /\ [Next]_vars => StopInv'
<1> SUFFICES ASSUME AccountInv, StopInv, [Next]_vars PROVE StopInv'
  OBVIOUS
<1> USE DEF StopInv, Joined, Requested, Drained, InHand, Ended, NotifyWriter
<1>1. raw \in Seq(Nat) /\ Len(raw) \in Nat /\ (unfinished = 0 => Len(raw) = 0)
  BY LenProperties DEF AccountInv, TaskAccounting
<1>2. CASE Receive
  BY <1>1, <1>2 DEF Receive, GateOpen
<1>3. CASE AddToQueue
  <2>1. /\ mpc = "held" /\ mpc' = "idle" /\ (Ended => Ended')
        /\ UNCHANGED <<wpc, cpc, mode, stopFlag, pstop>>
    BY <1>3 DEF AddToQueue
  <2>2. raw' = raw \/ raw' = Append(raw, arrived)
    BY <1>3, Zenon DEF AddToQueue
  <2>3. Len(raw') <= Len(raw) + 1 /\ Len(raw') \in Nat
    BY <1>1, <2>2, AppendProperties DEF AccountInv, CountersOK
  <2>4. Drained'
    BY <1>1, <2>1, <2>3
  <2> QED BY <2>1, <2>4
<1>4. CASE ParserStep
  <2>1. CASE ParserGet
    <3>1. Len(raw') = Len(raw) - 1
      BY <1>1, <2>1, HeadTailProperties DEF ParserGet
    <3> QED BY <1>1, <2>1, <3>1 DEF ParserGet
  <2>2. CASE \/ ParserSleeps \/ ParserStops \/ ParserPut
             \/ ParserTouch \/ ParserNotify \/ ParserDone \/ ParserRaises
    BY <2>2 DEF ParserSleeps, ParserStops, ParserPut, ParserTouch, ParserNotify, ParserDone,
                ParserRaises
  <2> QED BY <1>4, <2>1, <2>2 DEF ParserStep
<1>5. CASE WriterStep
  <2>1. CASE WriterBoot
    BY <2>1 DEF WriterBoot, WriterGoto, AccountInv, BootFirst
  <2>2. CASE WriterJoin
    BY <1>1, <2>2 DEF WriterJoin, WriterGoto
  <2>3. CASE WriterLoop \/ WriterAwait \/ WriterCount \/ WriterFlag \/ WriterReset \/ WriterStops
    BY <2>3 DEF WriterGoto, WriterLoop, WriterAwait, WriterCount, WriterFlag, WriterReset,
                WriterStops
  <2>4. CASE WriterPop \/ WriterWrite
    BY <2>4 DEF WriterGoto, WriterPop, WriterWrite
  <2> QED BY <1>5, <2>1, <2>2, <2>3, <2>4 DEF WriterStep
<1>6. CASE TimerStep
  BY <1>6 DEF TimerStep, TimerFires, TimerExpires, TimerRings, TimerDefers, TimerRearms
<1>7. ASSUME NEW why \in {"disconnect", "finish"}, Request(why) PROVE StopInv'
  BY <1>7 DEF Request, ControllerGoto
<1>8. CASE ControllerStep
  <2>1. CASE Drain
    BY <1>1, <2>1 DEF Drain, ControllerGoto
  <2>2. CASE SetFlag \/ StopParser \/ WakeWriter
    BY <2>2 DEF SetFlag, StopParser, WakeWriter, ControllerGoto
  <2>3. CASE JoinParser
    BY <2>3 DEF JoinParser, ControllerGoto
  <2>4. CASE JoinWriter
    <3>1. /\ cpc = "joinWriter" /\ wpc = "done" /\ cpc' \in {"flag", "stopped"}
          /\ UNCHANGED <<raw, mpc, ppc, wpc, pstop, stopFlag, mode>>
      BY <2>4, Zenon DEF JoinWriter
    <3> QED BY <3>1
  <2> QED BY <1>8, <2>1, <2>2, <2>3, <2>4 DEF ControllerStep
<1>9. CASE UNCHANGED vars
  BY <1>9
<1> QED
  BY <1>2, <1>3, <1>4, <1>5, <1>6, <1>7, <1>8, <1>9 DEF Next

LEMMA StopCorrect == Spec => []StopInv
<1> QED BY StopInit, StopStep, AccountCorrect, PTL DEF Spec

\* For any number of queued messages: when graceful_stop stops the parser, at
\* most the message the network thread was holding is left in the queue, and
\* also the writer, which calls graceful_stop on its own, abandons no other.
THEOREM GracefulStopDrains == Spec => []GracefulAbandonsAtMostHeld
<1>1. AccountInv /\ StopInv => GracefulAbandonsAtMostHeld
  BY LenProperties DEF AccountInv, StopInv, Drained, InHand, GracefulAbandonsAtMostHeld
<1> QED BY <1>1, AccountCorrect, StopCorrect, PTL

\* Once stop or graceful_stop has returned, neither thread of the session
\* makes, takes or writes a point any more.
THEOREM SessionEndsQuietly == Spec => QuietAfterStop
<1> DEFINE Quiet == cpc = "stopped" => UNCHANGED <<stored, batch, dest>>
<1>1. StopInv /\ [Next]_vars => [Quiet]_vars
  <2> SUFFICES ASSUME StopInv, [Next]_vars, cpc = "stopped"
               PROVE  UNCHANGED <<stored, batch, dest>>
    OBVIOUS
  <2>1. ~ ParserPut /\ ~ WriterPop /\ ~ WriterWrite
    BY DEF StopInv, Joined, Ended, ParserPut, WriterPop, WriterWrite, WriterGoto
  <2> QED BY <2>1, Moves DEF PointsMove
<1> QED BY <1>1, StopCorrect, PTL DEF Spec, QuietAfterStop

----------------------------------------------------------------------------
(***************************************************************************)
(* Stops that block.  A stop that is in one of the two situations          *)
(* ShutdownOutcome names stays there: what waits for the count, or for a   *)
(* notification, waits for a thread that has ended or is the waiting one.  *)
(***************************************************************************)
BlockedForEver ==
  [][/\ QueueNeverDrains => QueueNeverDrains' /\ cpc' # "stopped"
     /\ WriterAsleep => WriterAsleep' /\ cpc' # "stopped"]_vars

LEMMA EndedStays ==
  ASSUME AccountInv, Ended, [Next]_vars
  PROVE  /\ Ended' /\ ~ ParserStep /\ ~ WriterBoot
         /\ unfinished' = unfinished \/ unfinished' = unfinished + 1
<1> USE DEF Ended
<1>1. ~ WriterBoot
  BY DEF WriterBoot, WriterGoto, AccountInv, BootFirst
<1>2. ~ ParserStep
  BY DEF ParserStep, ParserSleeps, ParserGet, ParserStops, ParserPut, ParserTouch,
         ParserNotify, ParserDone, ParserRaises
<1>3. CASE AddToQueue
  BY <1>1, <1>2, <1>3, Zenon DEF AddToQueue
<1>4. CASE Receive
  BY <1>1, <1>2, <1>4 DEF Receive
<1>5. CASE WriterStep
  BY <1>1, <1>2, <1>5 DEF WriterStep, WriterLoop, WriterAwait, WriterCount, WriterFlag,
                          WriterReset, WriterPop, WriterWrite, WriterJoin, WriterStops
<1>6. CASE TimerStep
  BY <1>1, <1>2, <1>6 DEF TimerStep, TimerFires, TimerExpires, TimerRings, TimerDefers,
                          TimerRearms
<1>7. CASE \E why \in {"disconnect", "finish"} : Request(why)
  BY <1>1, <1>2, <1>7 DEF Request
<1>8. CASE ControllerStep
  BY <1>1, <1>2, <1>8 DEF ControllerStep, SetFlag, Drain, StopParser, WakeWriter, JoinParser,
                          JoinWriter
<1>9. CASE UNCHANGED vars
  BY <1>1, <1>2, <1>9
<1> QED
  BY <1>2, <1>3, <1>4, <1>5, <1>6, <1>7, <1>8, <1>9 DEF Next

LEMMA NeverDrains ==
  ASSUME AccountInv, StopInv, QueueNeverDrains, [Next]_vars
  PROVE  QueueNeverDrains' /\ cpc' # "stopped"
<1> USE DEF NotifyWriter
<1>1. Ended' /\ unfinished \in Nat /\ unfinished > 0 /\ unfinished' > 0
      /\ ~ ParserStep /\ ~ WriterBoot
  BY EndedStays DEF QueueNeverDrains, AccountInv, CountersOK
<1>2. cpc = "drain" \/ wpc \notin {"stop", "done"}
  BY DEF QueueNeverDrains
<1>3. cpc = "stopped" => wpc = "done"
  BY DEF StopInv, Joined
<1> SUFFICES (cpc' = "drain" \/ wpc' \notin {"stop", "done"}) /\ cpc' # "stopped"
  BY <1>1 DEF QueueNeverDrains
<1>4. CASE Receive \/ AddToQueue
  BY <1>2, <1>3, <1>4 DEF Receive, AddToQueue
<1>5. CASE WriterStep
  BY <1>1, <1>2, <1>3, <1>5 DEF WriterStep, WriterGoto, WriterLoop, WriterAwait, WriterCount,
                                WriterFlag, WriterReset, WriterPop, WriterWrite, WriterJoin,
                                WriterStops
<1>6. CASE TimerStep
  BY <1>2, <1>3, <1>6 DEF TimerStep, TimerFires, TimerExpires, TimerRings, TimerDefers,
                          TimerRearms
<1>7. ASSUME NEW why \in {"disconnect", "finish"}, Request(why)
      PROVE  (cpc' = "drain" \/ wpc' \notin {"stop", "done"}) /\ cpc' # "stopped"
  BY <1>2, <1>7 DEF Request, ControllerGoto
<1>8. CASE ControllerStep
  <2>1. CASE SetFlag \/ Drain \/ StopParser \/ WakeWriter \/ JoinParser
    BY <1>1, <1>2, <2>1 DEF ControllerGoto, SetFlag, Drain, StopParser, WakeWriter, JoinParser
  <2>2. ~ JoinWriter
    BY <1>2 DEF JoinWriter
  <2> QED BY <1>8, <2>1, <2>2 DEF ControllerStep
<1>9. CASE UNCHANGED vars
  BY <1>2, <1>3, <1>9
<1> QED
  BY <1>1, <1>4, <1>5, <1>6, <1>7, <1>8, <1>9 DEF Next

LEMMA SleepsOn ==
  ASSUME AccountInv, StopInv, WriterAsleep, [Next]_vars
  PROVE  WriterAsleep' /\ cpc' # "stopped"
<1> USE DEF WriterAsleep
<1>1. ~ ParserStep /\ ~ WriterBoot
  BY EndedStays DEF StopInv, Joined
<1>2. CASE Receive \/ AddToQueue
  BY <1>2 DEF Receive, AddToQueue
<1>3. ~ WriterStep
  BY <1>1 DEF WriterStep, WriterGoto, WriterLoop, WriterAwait, WriterCount, WriterFlag,
              WriterReset, WriterPop, WriterWrite, WriterJoin, WriterStops
<1>4. ~ TimerStep
  BY DEF TimerStep, TimerFires, TimerExpires, TimerRings, TimerDefers, TimerRearms
<1>5. ~ ControllerStep /\ \A why \in {"disconnect", "finish"} : ~ Request(why)
  BY DEF ControllerStep, ControllerGoto, SetFlag, Drain, StopParser, WakeWriter, JoinParser,
         JoinWriter, Request
<1>6. CASE UNCHANGED vars
  BY <1>6
<1> QED
  BY <1>1, <1>2, <1>3, <1>4, <1>5, <1>6 DEF Next

\* A stop that waits for a queue whose parser has ended, or for a writer that
\* went to sleep after the last notification, never returns: no step of any
\* thread, and no further message, gets it out of that.
THEOREM BlockedStopsStayBlocked == Spec => BlockedForEver
<1>1. AccountInv /\ StopInv /\ [Next]_vars
        => [/\ QueueNeverDrains => QueueNeverDrains' /\ cpc' # "stopped"
            /\ WriterAsleep => WriterAsleep' /\ cpc' # "stopped"]_vars
  BY NeverDrains, SleepsOn
<1> QED BY <1>1, AccountCorrect, StopCorrect, PTL DEF Spec, BlockedForEver
----------------------------------------------------------------------------
(***************************************************************************)
(* And it blocks in no third way: the guards of each thread, of which one  *)
(* is open at any moment of a stop, until the stop is in one of the two    *)
(* situations.  (That the thread then runs is fairness, and TLC's.)        *)
(***************************************************************************)
ParserReady ==
  \/ ppc = "wait"
  \/ ppc = "emit" /\ (made <= rows \/ cur \in Poison)
  \/ ppc \in {"touch", "notify"}

WriterReady == wpc \notin {"waiting", "done"} /\ (wpc = "join" => unfinished = 0)

TimerReady == timer = "armed" \/ tpc # "idle"

ControllerReady ==
  \/ cpc \in {"flag", "stop", "wake"}
  \/ cpc = "drain" /\ unfinished = 0
  \/ cpc = "joinParser" /\ (Ended \/ ppc = "new")
  \/ cpc = "joinWriter" /\ wpc = "done"

Standstill ==
  mpc = "idle" /\ ~ ParserReady /\ ~ WriterReady /\ ~ TimerReady /\ ~ ControllerReady

BlocksInTwoWays ==
  Standstill => cpc \in {"idle", "stopped", "raised"} \/ QueueNeverDrains \/ WriterAsleep

\* The writer has started the parser when it has booted, the parser makes no more
\* points than its message has, is told to stop before it is joined, and sleeps
\* only while it has nothing to do: every message and every stop wakes it.
Told ==
  /\ ppc = "new" => wpc = "boot"
  /\ Parsing => made <= rows
  /\ cpc \in {"wake", "joinParser", "joinWriter"} => pstop
  /\ ppc = "asleep" => raw = <<>> /\ ~pstop

LEMMA ToldStep == TypeInv /\ Told /\ [Next]_vars => Told'
<1> SUFFICES ASSUME TypeInv, Told, [Next]_vars PROVE Told'
  OBVIOUS
<1> USE DEF Told, Parsing, NotifyWriter
<1>1. made \in Nat /\ rows \in Nat
  BY DEF TypeInv, AccountInv, CountersOK
<1>2. CASE Receive \/ AddToQueue
  BY <1>2 DEF Receive, AddToQueue
<1>3. CASE ParserStep
  <2>1. CASE ParserGet
    BY <2>1 DEF ParserGet
  <2>2. CASE ParserPut
    BY <1>1, <2>2 DEF ParserPut
  <2>3. CASE \/ ParserSleeps \/ ParserStops
             \/ ParserTouch \/ ParserNotify \/ ParserDone \/ ParserRaises
    BY <2>3 DEF ParserSleeps, ParserStops, ParserTouch, ParserNotify, ParserDone, ParserRaises
  <2> QED BY <1>3, <2>1, <2>2, <2>3 DEF ParserStep
<1>4. CASE WriterStep
  BY <1>4 DEF WriterStep, WriterGoto, WriterBoot, WriterLoop, WriterAwait, WriterCount, WriterFlag,
              WriterReset, WriterPop, WriterWrite, WriterJoin, WriterStops
<1>5. CASE TimerStep
  BY <1>5 DEF TimerStep, TimerFires, TimerExpires, TimerRings, TimerDefers, TimerRearms
<1>6. ASSUME NEW why \in {"disconnect", "finish"}, Request(why) PROVE Told'
  BY <1>6 DEF Request, ControllerGoto
<1>7. CASE ControllerStep
  <2>1. CASE SetFlag \/ Drain \/ StopParser \/ WakeWriter \/ JoinParser
    BY <2>1 DEF SetFlag, Drain, StopParser, WakeWriter, JoinParser, ControllerGoto
  <2>2. CASE JoinWriter
    <3>1. cpc' \in {"flag", "stopped"} /\ UNCHANGED <<raw, ppc, wpc, made, rows, pstop>>
      BY <2>2, Zenon DEF JoinWriter
    <3> QED BY <3>1
  <2> QED BY <1>7, <2>1, <2>2 DEF ControllerStep
<1>8. CASE UNCHANGED vars
  BY <1>8
<1> QED
  BY <1>2, <1>3, <1>4, <1>5, <1>6, <1>7, <1>8 DEF Next

LEMMA ToldCorrect == Spec => []Told
<1>1. Init => Told
  BY DEF Init, Told, Parsing
<1> QED BY <1>1, TypeInit, TypeStep, ToldStep, PTL DEF Spec

\* The parser sleeps on row_queue_not_empty only while no message is queued and
\* nobody has told it to stop: no interleaving loses the notification of either.
ParserWoken == ppc = "asleep" => raw = <<>> /\ ~pstop

THEOREM NoWakeUpLost == Spec => []ParserWoken
<1>1. Told => ParserWoken
  BY DEF Told, ParserWoken
<1> QED BY <1>1, ToldCorrect, PTL

\* At every moment of a stop some thread can step, or the stop is in one of the
\* two situations that are for ever: no other wait of the five threads closes
\* a circle.
THEOREM StopsBlockInTwoWays == Spec => []BlocksInTwoWays
<1>1. TypeInv /\ StopInv /\ Told => BlocksInTwoWays
  <2> SUFFICES ASSUME TypeInv, StopInv, Told, Standstill,
                      cpc \notin {"idle", "stopped", "raised"}
               PROVE  QueueNeverDrains \/ WriterAsleep
    BY DEF BlocksInTwoWays
  <2>1. ~ Parsing
    BY DEF Standstill, ParserReady, Told, Parsing
  <2>2. unfinished = Len(raw) /\ unfinished \in Nat
    BY <2>1 DEF TypeInv, AccountInv, TaskAccounting, CountersOK
  <2>3. ppc \in {"asleep", "done", "dead"}
    BY <2>1 DEF Standstill, ParserReady, WriterReady, Told, TypeInv, PlacesOK, Parsing
  <2>4. unfinished # 0 => Ended
    <3> SUFFICES ASSUME unfinished # 0 PROVE ppc # "asleep"
      BY <2>3 DEF Ended
    <3>1. raw # <<>>
      BY <2>2, LenProperties DEF TypeInv, AccountInv
    <3> QED BY <3>1 DEF Told
  <2>5. wpc \in {"waiting", "done"} \/ (wpc = "join" /\ unfinished # 0)
    BY DEF Standstill, WriterReady
  <2>6. timer = "off" /\ tpc = "idle"
    BY DEF Standstill, TimerReady, TypeInv, PlacesOK
  <2>7. CASE cpc = "drain"
    BY <2>2, <2>4, <2>7 DEF Standstill, ControllerReady, QueueNeverDrains
  <2>8. CASE cpc = "joinParser"
    BY <2>3, <2>8 DEF Standstill, ControllerReady, ParserReady, Told, Ended
  <2>9. CASE cpc = "joinWriter"
    BY <2>2, <2>4, <2>5, <2>6, <2>9 DEF Standstill, ControllerReady, QueueNeverDrains, WriterAsleep
  <2> QED
    BY <2>7, <2>8, <2>9 DEF Standstill, ControllerReady, TypeInv, PlacesOK
<1> QED
  BY <1>1, TypeInit, TypeStep, ToldCorrect, StopCorrect, PTL DEF Spec
=============================================================================
