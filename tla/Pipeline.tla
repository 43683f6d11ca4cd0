------------------------------ MODULE Pipeline ------------------------------
(***************************************************************************)
(* One session of the telemetry pipeline: what happens between the moment  *)
(* HandlerFSM enters its running state with a fresh InfluxWriter and the   *)
(* moment that writer has been stopped.  Five threads share it:            *)
(*                                                                         *)
(*   network     paho's thread: MsgDispatcher hands it data messages       *)
(*   parser      Parser.run: raw message queue -> queue of points          *)
(*   writer      InfluxWriter.run: queue of points -> InfluxDB, in batches *)
(*   timer       the threading.Timer threads of Parser.last_parse_timer    *)
(*   controller  the HandlerFSM thread (or the main one) stopping it all   *)
(*                                                                         *)
(* Every action is one critical section, or one read or write of a shared  *)
(* field, of one thread.  What a message holds is abstracted to how many   *)
(* points it gives; what its decoding needs is left to other modules.      *)
(***************************************************************************)
EXTENDS Points

CONSTANTS
  BatchSize,  \* InfluxWriter's batch_size
  MaxMsgs,    \* bound: data messages received in the session
  MaxRows,    \* bound: points one message expands to
  Poison      \* messages with a record on which Parser.push raises

ASSUME PipelineAssumption ==
  /\ BatchSize \in Nat \ {0}
  /\ MaxMsgs \in Nat
  /\ MaxRows \in Nat
  /\ Poison \subseteq Nat

VARIABLES
  arrived,     \* data messages received so far; also the id of the last one
  mpc,         \* network thread: "idle", or "held" inside handle_data_message
  raw,         \* Parser.row_messages
  unfinished,  \* its count of tasks not yet done, on which join() waits
  ppc,         \* parser thread
  cur,         \* the message it took last
  made,        \* points it has made of that message
  rows,        \* points that message expands to
  dest,        \* Parser.destination_list
  pstop,       \* Parser.stop
  wpc,         \* writer thread
  batch,       \* the points of the commit in progress
  stopFlag,    \* InfluxManager.__stop__
  timer,       \* Parser.last_parse_timer: "off" or "armed"
  tpc,         \* the timer callback in progress, if any
  expired,     \* Parser.timer_expired
  cpc,         \* controller
  mode,        \* why it stops the pipeline: "none", "disconnect", "finish"
  pass,        \* which of the two do_stop calls of a finish this is
  writerSet,   \* MsgDispatcher.influx_writer is not None
  stored       \* history: the points InfluxDB has acknowledged, in order

network    == <<arrived, mpc>>
queue      == <<raw, unfinished>>
parser     == <<ppc, cur, made, rows>>
writer     == <<batch, stored>>
clock      == <<timer, tpc, expired>>
controller == <<cpc, mode, pass, writerSet>>

vars == <<network, queue, parser, dest, pstop, wpc, writer, stopFlag, clock,
          controller>>

Parsing == ppc \in {"emit", "touch", "notify"}
Ended   == ppc \in {"done", "dead"}   \* the parser thread is not alive

Init ==
  /\ arrived = 0 /\ mpc = "idle"
  /\ raw = <<>> /\ unfinished = 0
  /\ ppc = "new" /\ cur = 0 /\ made = 0 /\ rows = 0
  /\ dest = <<>> /\ pstop = FALSE
  /\ wpc = "boot" /\ batch = <<>> /\ stored = <<>>
  /\ stopFlag = FALSE
  /\ timer = "off" /\ tpc = "idle" /\ expired = FALSE
  /\ cpc = "idle" /\ mode = "none" /\ pass = 1 /\ writerSet = TRUE

----------------------------------------------------------------------------
(* Network thread.                                                         *)

\* HandlerFSM.on_mqtt_message looks at the current state, handle_data_message
\* at influx_writer.  The state is still "running" while on_disconnection
\* stops the pipeline, and is "stop" from the start of a finish.
GateOpen == writerSet /\ mode # "finish"

Receive ==
  /\ mpc = "idle" /\ arrived < MaxMsgs /\ GateOpen
  /\ mpc' = "held" /\ arrived' = arrived + 1
  /\ UNCHANGED <<queue, parser, dest, pstop, wpc, writer, stopFlag, clock, controller>>

\* row_queue_not_empty.notify_all(), for whom only the parser waits.
NotifyParser == ppc' = IF ppc = "asleep" THEN "wait" ELSE ppc

\* Mutant: the message is queued without a notification.
AddToQueueSilently ==
  /\ mpc = "held" /\ mpc' = "idle"
  /\ IF writerSet
     THEN raw' = Append(raw, arrived) /\ unfinished' = unfinished + 1
     ELSE UNCHANGED queue
  /\ UNCHANGED <<arrived, parser, dest, pstop, wpc, writer, stopFlag, clock, controller>>

\* add_to_queue.  When the controller has meanwhile reset influx_writer, the
\* attribute error is swallowed by MQTTConnection.on_message.
AddToQueue ==
  /\ mpc = "held" /\ mpc' = "idle"
  /\ IF writerSet
     THEN raw' = Append(raw, arrived) /\ unfinished' = unfinished + 1 /\ NotifyParser
     ELSE UNCHANGED <<queue, ppc>>
  /\ UNCHANGED <<arrived, cur, made, rows, dest, pstop, wpc, writer, stopFlag, clock,
                 controller>>

----------------------------------------------------------------------------
(* Parser thread.                                                          *)

\* points_increased.notify_all(): only a writer already waiting is woken.
NotifyWriter == wpc' = IF wpc = "waiting" THEN "count" ELSE wpc

\* The loop of __parse_next_message waits as long as there is neither a message
\* nor the stop flag; a notification has it look again.
ParserSleeps ==
  /\ ppc = "wait" /\ ~pstop /\ raw = <<>>
  /\ ppc' = "asleep"
  /\ UNCHANGED <<network, queue, cur, made, rows, dest, pstop, wpc, writer,
                 stopFlag, clock, controller>>

\* It ends with a message, which
\* parse_msg turns into some points, none when it is skipped.
ParserGet ==
  /\ ppc = "wait" /\ ~pstop /\ raw # <<>>
  /\ cur' = Head(raw) /\ raw' = Tail(raw)
  /\ made' = 0 /\ rows' \in 0..MaxRows
  /\ ppc' = "emit"
  /\ UNCHANGED <<network, unfinished, dest, pstop, wpc, writer, stopFlag, clock, controller>>

\* Mutant: the finally block encloses the wait, too.
ParserStopsCounts ==
  /\ ppc = "wait" /\ pstop
  /\ ppc' = "done" /\ unfinished' = unfinished - 1
  /\ UNCHANGED <<network, raw, cur, made, rows, dest, pstop, wpc, writer,
                 stopFlag, clock, controller>>

\* ... or with the stop flag, and run returns.
ParserStops ==
  /\ ppc = "wait" /\ pstop
  /\ ppc' = "done"
  /\ UNCHANGED <<network, queue, cur, made, rows, dest, pstop, wpc, writer,
                 stopFlag, clock, controller>>

\* __append_to_destination_list, first step: the point is in the queue.
ParserPut ==
  /\ ppc = "emit" /\ made < rows
  /\ made' = made + 1
  /\ dest' = Append(dest, <<cur, made + 1>>)
  /\ ppc' = "touch"
  /\ UNCHANGED <<network, queue, cur, rows, pstop, wpc, writer, stopFlag, clock, controller>>

\* Second step: timer_touch replaces the timer by a new, started one.
ParserTouch ==
  /\ ppc = "touch" /\ ppc' = "notify"
  /\ timer' = "armed"
  /\ UNCHANGED <<network, queue, cur, made, rows, dest, pstop, wpc, writer,
                 stopFlag, tpc, expired, controller>>

\* Third step: the writer is notified.
ParserNotify ==
  /\ ppc = "notify" /\ ppc' = "emit"
  /\ NotifyWriter
  /\ UNCHANGED <<network, queue, cur, made, rows, dest, pstop, writer, stopFlag,
                 clock, controller>>

\* The finally block of __parse_next_message.
TaskDone == unfinished' = unfinished - 1

ParserDone ==
  /\ ppc = "emit" /\ made = rows /\ cur \notin Poison
  /\ TaskDone /\ ppc' = "wait"
  /\ UNCHANGED <<network, raw, cur, made, rows, dest, pstop, wpc, writer,
                 stopFlag, clock, controller>>

\* Mutant: task_done is called on success only, not in a finally block.
ParserRaisesUncounted ==
  /\ ppc = "emit" /\ cur \in Poison /\ ppc' = "dead"
  /\ UNCHANGED <<network, queue, cur, made, rows, dest, pstop, wpc, writer,
                 stopFlag, clock, controller>>

\* push falls through its ValueError handler to an unbound name: nothing
\* between it and Thread.run catches that, so the thread ends.
ParserRaises ==
  /\ ppc = "emit" /\ cur \in Poison
  /\ TaskDone /\ ppc' = "dead"
  /\ UNCHANGED <<network, raw, cur, made, rows, dest, pstop, wpc, writer,
                 stopFlag, clock, controller>>

ParserStep == \/ ParserSleeps \/ ParserGet \/ ParserStops \/ ParserPut
              \/ ParserTouch \/ ParserNotify \/ ParserDone \/ ParserRaises

----------------------------------------------------------------------------
(* Writer thread: InfluxWriter.run.                                        *)

WriterGoto(from, to) == wpc = from /\ wpc' = to

WriterBoot ==   \* parser.start()
  /\ WriterGoto("boot", "loop")
  /\ ppc' = "wait"
  /\ UNCHANGED <<network, queue, cur, made, rows, dest, pstop, writer, stopFlag,
                 clock, controller>>

WriterLoop ==   \* while self.stopped() is False
  /\ WriterGoto("loop", IF stopFlag THEN "join" ELSE "await")
  /\ UNCHANGED <<network, queue, parser, dest, pstop, writer, stopFlag, clock, controller>>

WriterAwait ==   \* points_increased.wait(), with no predicate and no timeout
  /\ WriterGoto("await", "waiting")
  /\ UNCHANGED <<network, queue, parser, dest, pstop, writer, stopFlag, clock, controller>>

\* check_to_commit reads the length of the queue and then the timer's flag.
WriterCount ==
  /\ WriterGoto("count", IF Len(dest) >= BatchSize THEN "reset" ELSE "flag")
  /\ UNCHANGED <<network, queue, parser, dest, pstop, writer, stopFlag, clock, controller>>

WriterFlag ==
  /\ WriterGoto("flag", IF expired THEN "reset" ELSE "loop")
  /\ UNCHANGED <<network, queue, parser, dest, pstop, writer, stopFlag, clock, controller>>

\* commit: reset_timer comes first, then the points are popped.
WriterReset ==
  /\ WriterGoto("reset", "pop")
  /\ timer' = "off" /\ expired' = FALSE
  /\ UNCHANGED <<network, queue, parser, dest, pstop, writer, stopFlag, tpc, controller>>

\* Mutant: the limit given to pop_points is not applied.
PopCountAll(n) == n

\* pop_points: how many of the n queued points are popped.
PopCount(n) == IF n < BatchSize THEN n ELSE BatchSize

WriterPop ==
  /\ WriterGoto("pop", IF dest = <<>> THEN "loop" ELSE "write")
  /\ LET n == PopCount(Len(dest))
     IN  /\ batch' = SubSeq(dest, 1, n)
         /\ dest'  = SubSeq(dest, n + 1, Len(dest))
  /\ UNCHANGED <<network, queue, parser, pstop, stored, stopFlag, clock, controller>>

\* Mutant: a batch that could not be written is queued again.
WriterWriteRetries ==
  /\ WriterGoto("write", "loop")
  /\ \/ stored' = stored \o batch /\ UNCHANGED dest
     \/ dest' = dest \o batch /\ UNCHANGED stored
  /\ batch' = <<>>
  /\ UNCHANGED <<network, queue, parser, pstop, stopFlag, clock, controller>>

\* write_api.write succeeds, or raises and the batch is given up.
WriterWrite ==
  /\ WriterGoto("write", "loop")
  /\ stored' \in {stored, stored \o batch}
  /\ batch' = <<>>
  /\ UNCHANGED <<network, queue, parser, dest, pstop, stopFlag, clock, controller>>

\* After the loop, parser.graceful_stop(): row_messages.join() ...
WriterJoin ==
  /\ WriterGoto("join", "stop") /\ unfinished = 0
  /\ UNCHANGED <<network, queue, parser, dest, pstop, writer, stopFlag, clock, controller>>

\* ... and stop_parser(), which has nobody but the parser left to wake.
WriterStops ==
  /\ WriterGoto("stop", "done")
  /\ pstop' = TRUE /\ NotifyParser
  /\ UNCHANGED <<network, queue, cur, made, rows, dest, writer, stopFlag, clock,
                 controller>>

WriterStep == \/ WriterBoot \/ WriterLoop \/ WriterAwait \/ WriterCount
              \/ WriterFlag \/ WriterReset \/ WriterPop \/ WriterWrite
              \/ WriterJoin \/ WriterStops

----------------------------------------------------------------------------
(* Inactivity timer: Parser._handle_inactivity.  A fired callback is not   *)
(* stopped by cancel(); at most one is in progress at a time.              *)

TimerFires ==
  /\ timer = "armed" /\ tpc = "idle"
  /\ timer' = "off"
  /\ tpc' = IF raw = <<>> THEN "expire" ELSE "defer"
  /\ UNCHANGED <<network, queue, parser, dest, pstop, wpc, writer, stopFlag,
                 expired, controller>>

TimerExpires ==
  /\ tpc = "expire" /\ tpc' = "ring"
  /\ expired' = TRUE
  /\ UNCHANGED <<network, queue, parser, dest, pstop, wpc, writer, stopFlag,
                 timer, controller>>

TimerRings ==
  /\ tpc = "ring" /\ tpc' = "idle"
  /\ NotifyWriter
  /\ UNCHANGED <<network, queue, parser, dest, pstop, writer, stopFlag, timer,
                 expired, controller>>

TimerDefers ==   \* messages are still queued: clear the flag ...
  /\ tpc = "defer" /\ tpc' = "rearm"
  /\ expired' = FALSE
  /\ UNCHANGED <<network, queue, parser, dest, pstop, wpc, writer, stopFlag,
                 timer, controller>>

TimerRearms ==   \* ... and start over
  /\ tpc = "rearm" /\ tpc' = "idle"
  /\ timer' = "armed"
  /\ UNCHANGED <<network, queue, parser, dest, pstop, wpc, writer, stopFlag,
                 expired, controller>>

TimerStep == TimerFires \/ TimerExpires \/ TimerRings \/ TimerDefers \/ TimerRearms

----------------------------------------------------------------------------
(* Controller: MsgDispatcher.stop on a disconnection, graceful_stop, twice,*)
(* on a finish (on_enter_final, then the end of HandlerFSM.run).           *)

ControllerGoto(from, to) == cpc = from /\ cpc' = to

Request(why) ==
  /\ ControllerGoto("idle", "flag")
  /\ mode' = why
  /\ UNCHANGED <<network, queue, parser, dest, pstop, wpc, writer, stopFlag,
                 clock, pass, writerSet>>

SetFlag ==   \* InfluxManager.stop
  /\ ControllerGoto("flag", IF mode = "finish" THEN "drain" ELSE "stop")
  /\ stopFlag' = TRUE
  /\ UNCHANGED <<network, queue, parser, dest, pstop, wpc, writer, clock, mode,
                 pass, writerSet>>

\* Mutant: graceful_stop does not wait for the queue.
DrainAtOnce ==
  /\ ControllerGoto("drain", "stop")
  /\ UNCHANGED <<network, queue, parser, dest, pstop, wpc, writer, stopFlag,
                 clock, mode, pass, writerSet>>

Drain ==   \* Parser.graceful_stop: row_messages.join()
  /\ ControllerGoto("drain", "stop") /\ unfinished = 0
  /\ UNCHANGED <<network, queue, parser, dest, pstop, wpc, writer, stopFlag,
                 clock, mode, pass, writerSet>>

\* Mutant: stop_parser only notifies.
StopParserNoFlag ==
  /\ ControllerGoto("stop", "wake")
  /\ UNCHANGED <<network, queue, parser, dest, pstop, wpc, writer, stopFlag, clock,
                 mode, pass, writerSet>>

StopParser ==   \* Parser.stop_parser: the flag, with the row condition ...
  /\ ControllerGoto("stop", "wake")
  /\ pstop' = TRUE /\ NotifyParser
  /\ UNCHANGED <<network, queue, cur, made, rows, dest, wpc, writer, stopFlag,
                 clock, mode, pass, writerSet>>

WakeWriter ==   \* ... and the points condition
  /\ ControllerGoto("wake", "joinParser")
  /\ NotifyWriter
  /\ UNCHANGED <<network, queue, parser, dest, pstop, writer, stopFlag, clock,
                 mode, pass, writerSet>>

\* parser.join(), which raises when the writer has not started the parser.
JoinParser ==
  /\ \/ ControllerGoto("joinParser", "joinWriter") /\ Ended
     \/ ControllerGoto("joinParser", "raised") /\ ppc = "new"
  /\ UNCHANGED <<network, queue, parser, dest, pstop, wpc, writer, stopFlag,
                 clock, mode, pass, writerSet>>

\* Mutant: the writer is stopped but not joined.
ForgetWriter ==
  /\ ControllerGoto("joinWriter", "stopped")
  /\ writerSet' = (mode = "finish")
  /\ UNCHANGED <<network, queue, parser, dest, pstop, wpc, writer, stopFlag,
                 clock, mode, pass>>

\* influx_writer.join(); a disconnection forgets the writer, a finish runs
\* graceful_stop once more.
JoinWriter ==
  /\ cpc = "joinWriter" /\ wpc = "done"
  /\ IF mode = "finish" /\ pass = 1
     THEN cpc' = "flag" /\ pass' = 2
     ELSE cpc' = "stopped" /\ UNCHANGED pass
  /\ writerSet' = (mode = "finish")
  /\ UNCHANGED <<network, queue, parser, dest, pstop, wpc, writer, stopFlag,
                 clock, mode>>

ControllerStep == \/ SetFlag \/ Drain \/ StopParser \/ WakeWriter
                  \/ JoinParser \/ JoinWriter

----------------------------------------------------------------------------
Next == \/ Receive \/ AddToQueue
        \/ ParserStep
        \/ WriterStep
        \/ TimerStep
        \/ \E why \in {"disconnect", "finish"} : Request(why)
        \/ ControllerStep

\* A thread that can run does, an armed timer fires, and the network thread
\* leaves the handler it is in.  Nothing forces messages or stop requests.
Fairness == /\ WF_vars(AddToQueue)
            /\ WF_vars(ParserStep)
            /\ WF_vars(WriterStep)
            /\ WF_vars(TimerStep)
            /\ WF_vars(ControllerStep)

Spec     == Init /\ [][Next]_vars
FairSpec == Spec /\ Fairness

----------------------------------------------------------------------------
(* Safety.                                                                 *)

\* Every variable holds a value of its type: the fields and local variables
\* of Parser, InfluxWriter, InfluxManager and MsgDispatcher.
FlagsOK == /\ pstop \in BOOLEAN /\ stopFlag \in BOOLEAN
           /\ expired \in BOOLEAN /\ writerSet \in BOOLEAN

CountersOK == /\ arrived \in Nat /\ unfinished \in Nat
              /\ cur \in Nat /\ made \in Nat /\ rows \in Nat

QueuesOK == /\ raw \in Seq(Nat)
            /\ dest \in Seq(Point) /\ batch \in Seq(Point) /\ stored \in Seq(Point)

PlacesOK ==
  /\ mpc \in {"idle", "held"}
  /\ ppc \in {"new", "wait", "asleep", "emit", "touch", "notify", "done", "dead"}
  /\ wpc \in {"boot", "loop", "await", "waiting", "count", "flag", "reset",
              "pop", "write", "join", "stop", "done"}
  /\ timer \in {"off", "armed"}
  /\ tpc \in {"idle", "expire", "ring", "defer", "rearm"}
  /\ cpc \in {"idle", "flag", "drain", "stop", "wake", "joinParser",
              "joinWriter", "stopped", "raised"}
  /\ mode \in {"none", "disconnect", "finish"} /\ pass \in {1, 2}

TypeOK == FlagsOK /\ CountersOK /\ QueuesOK /\ PlacesOK

\* The count join() waits on is the messages queued and the one in the
\* parser's hands, also when parsing raised: were it ever more, graceful_stop
\* would block with nothing left to do; were it less, it would stop a parser
\* that still has work.
TaskAccounting == unfinished = Len(raw) + IF Parsing THEN 1 ELSE 0

\* Across the queue, the commit in progress and the database, points keep the
\* order they were made in and none is there twice: not when a commit fails,
\* not when the parser adds points during one, not when a session is stopped.
InOrder == Increasing(stored \o batch \o dest)

\* What the five threads do to points is what module Delivery says: each step
\* accepts one point, begins a message, settles one batch of at most BatchSize
\* from the front of those waiting, or leaves points alone.
Abstract == INSTANCE Delivery WITH pending  <- batch \o dest,
                                   frontier <- <<cur, made>>

ImplementsDelivery == Abstract!Spec

\* What graceful_stop promises through row_messages.join(): once it stops the
\* parser, no message is abandoned but the one the network thread was holding
\* as the state changed.
GracefulAbandonsAtMostHeld == mode = "finish" /\ pstop => Len(raw) <= 1

\* After MsgDispatcher.stop or graceful_stop has returned, nothing of this
\* session moves any more: a writer of the next session has the database to
\* itself.
QuietAfterStop == [][cpc = "stopped" => UNCHANGED <<stored, batch, dest>>]_vars

----------------------------------------------------------------------------
(* Liveness.                                                               *)

\* A queued message is taken by the parser (and, in order, those before it),
\* unless the pipeline is stopped or the thread dies first.
EveryMessageParsed ==
  \A m \in 1..MaxMsgs :
    (\E i \in 1..Len(raw) : raw[i] = m) ~> cur >= m \/ pstop \/ ppc = "dead"

\* Messages left behind by an ended parser: the join() of the controller, or
\* the one the writer has before it, never returns.
QueueNeverDrains == Ended /\ unfinished > 0 /\ (cpc = "drain" \/ wpc \notin {"stop", "done"})

\* The writer went to wait after the last notification it could get.
WriterAsleep == cpc = "joinWriter" /\ wpc = "waiting" /\ timer = "off" /\ tpc = "idle"

\* A stop ends in one of four ways: it completes, it raises because the
\* parser was never started, or it blocks for ever on one of the two situations
\* above.  No other interleaving of the five threads keeps it from completing.
ShutdownOutcome ==
  cpc = "flag" ~> \/ cpc \in {"stopped", "raised"}
                  \/ QueueNeverDrains
                  \/ WriterAsleep

----------------------------------------------------------------------------
(* What the documentation says and the code does not do.                   *)

\* InfluxWriter.graceful_stop: "ensuring that any remaining points are
\* processed and committed before termination".
NothingLeftBehind == cpc = "stopped" /\ mode = "finish" => dest = <<>>

\* InfluxWriter.run "commits them to InfluxDB when the batch size limit is
\* reached or the parser's timer expires".
CommittedOnTimeout == (expired /\ dest # <<>>) ~> (dest = <<>> \/ stopFlag)

\* commit_to_destination_list: "Skipping invalid record": the parser goes on.
ParserSurvives == ppc # "dead"
=============================================================================
