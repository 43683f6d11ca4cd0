# influx-logger in TLA+

Specifications, model-checking instances and proofs for influx-logger, the service that
takes the telemetry of vehicles from an MQTT broker, decodes it with the `.proto` of each
device's library version and writes it to InfluxDB. Source paths below are relative to
`src/` of the repository.

## 1. The system

| Part | Code | State it keeps | Operations |
|---|---|---|---|
| Parser | `parser/parser.py` | `row_messages` with its count of unfinished tasks, `destination_list`, `stop`, two conditions, inactivity timer and `timer_expired`, `device_versions`, blacklist | `add_to_queue`, `run`, `parse_msg`, `push`, `timer_touch`, `reset_timer`, `_handle_inactivity`, `pop_points`, `register_device_version`, `stop_parser`, `graceful_stop` |
| Writer | `influx/influx_writer.py`, `influx_manager.py` | stop flag, its parser | `run`, `check_to_commit`, `commit`, `stop`, `graceful_stop` |
| Dispatcher | `handler/msg_dispatcher.py` | current writer and MQTT connection | `set`, data and version handlers, `stop`, `graceful_stop` |
| Descriptors | `parser/protobuf_manager.py` | `version_descriptors`, cache directory on disk | check a commit, download, compile, decode |
| State machine | `handler/handler_fsm.py`, `main.py` | current state, `__event`, the engine's queue and lock | `do_start`, `do_idle`, `do_run`, `do_stop`, callbacks, `stop_machine`, `safe_stop` |
| MQTT connection | `connections/mqtt_connection.py` | current client, `_connected`, `_connecting`, a reentrant lock | `connect`, `disconnect`, `is_connected`, `on_connect`, `on_disconnect` |
| InfluxDB connection | `connections/influx_connection.py` | current client, current checker; a checker's event and `is_stopping` | `connect`, `disconnect`, `ping`, `reset_ping`; the checker's `run`, `stop`, `reset_timer` |
| Lines | `utils/line.py`, `utils/timestamp.py`, `push` and `__pack_lines` | none | record to lines, line to point, packing |
| Configuration, logging, tools | `utils/configuration.py`, `utils/logger_utils.py`, `../tools` | none after the start | |

How they interact. paho's network thread calls `HandlerFSM.on_mqtt_message`, the dispatcher
and `Parser.add_to_queue`. The parser thread turns messages into lines, appends them to
`destination_list` and notifies the writer thread, which commits a batch when the queue
is long enough or the inactivity timer has expired; timer callbacks run on threads of
their own. The FSM thread makes a new writer (with a new parser) whenever it enters
`running`, stops it when a connection is lost and again at the end; the main thread
interrupts it. Both of them run state-machine callbacks, whichever gets the engine's lock,
and so both call the connections. Each MQTT client has a network thread of paho's, which
runs its callbacks; the InfluxDB connection has a checker thread, whose event the writer
pulses after each commit.

What is hard: conditions waited on without a predicate, `join()` on a queue whose
consumer may be gone, flags reset by the thread they are meant to stop, a writer
replaced while messages are under way, a commit that fails after its points were
popped, lookups in two lock sections, a cache written by a process that may be killed, a
lock held while joining a thread whose callbacks need it, one event used for three
purposes, a connection closed by one thread under the ping of another, records whose
columns do not match their timestamps.
`PROJECT.json` lists these hazards line by line with the properties that watch each.

What makes each part correct:

- pipeline: points keep their order and are settled at most once; `join()` counts the
  messages really outstanding; a stop that returns leaves nothing moving; each message is
  parsed; a stop ends, or blocks only for reasons that can be named.
- state machine: never two writers, one in `running`, none after the end; the final state
  is final; it reconnects; a stop request is heard.
- descriptors: a decoder is there when used, made from a commit that exists; the blacklist
  counts what it should; what the cache has whole stays whole.
- MQTT connection: a callback comes from the current client; a replaced client is closed
  and its thread does not reconnect it; the flags that make `connect` do nothing are
  backed by a link; calls return, or for one reason do not; the connection comes up.
- InfluxDB connection: a checker ends for a reason; a connection is watched or its end was
  reported; a stop joins its checker; a lost connection is noticed; a check does not raise.
- lines: a value stays with the time of its row; rows nothing is wrong with give their lines
  whatever comes after them or stands in other records; a timestamp is converted exactly and lost only beyond the limit.

## 2. Modules

`Points` names a point by message and position and defines the order points are made in.

`Delivery` is the abstract specification of a session: points are made in one order, wait
in that order and are settled from the front, at most a batch at a time, each batch stored
whole or given up whole.

`Pipeline` is the session in detail, one program counter per thread:

| Variable | Code | Actions that change it |
|---|---|---|
| `mpc`, `arrived` | network thread in `handle_data_message` | `Receive`, `AddToQueue` |
| `raw`, `unfinished` | `row_messages` and its task count | `AddToQueue`, `ParserGet`, `ParserDone`, `ParserRaises` |
| `ppc`, `cur`, `made`, `rows` | parser thread | `Parser...` |
| `dest` | `destination_list` | `ParserPut`, `WriterPop` |
| `wpc`, `batch`, `stored` | writer thread, the commit in progress, what InfluxDB acknowledged | `Writer...`, and a notification |
| `timer`, `tpc`, `expired` | `last_parse_timer`, its callback, `timer_expired` | `ParserTouch`, `WriterReset`, `Timer...` |
| `stopFlag`, `pstop` | `InfluxManager.__stop__`, `Parser.stop` | `SetFlag`, `StopParser`, `WriterStops` |
| `cpc`, `mode`, `pass`, `writerSet` | the thread that runs `MsgDispatcher.stop` or `graceful_stop` | `Request` ... `JoinWriter` |

A condition variable is its wait set: `WriterAwait` and `ParserSleeps` enter it, and a
notification moves a thread only if it is there (`NotifyWriter`, `NotifyParser`). The parser
looks at the queue and the stop flag before it waits and again when it was woken; the writer
does neither. `ParserSleeps` is one step, as is each of the steps that notify the parser, since
they hold the condition's lock throughout. A message is the number of points it expands to, plus, for
those in `Poison`, the exception `push` ends with. Abstractions: one timer callback is in
progress at a time; the second pass of `graceful_stop` follows the first.

`Fsm` is the state machine run by two threads over the engine of python-statemachine,
modelled from how the code uses it (external): an event is queued, the thread that gets the
lock works the queue off, the other returns. `owner` is the lock's holder; `event` is
`__event`; `up` and `reach` say which connections are established and which services
accept one; `writer` and `live` are the dispatcher's reference and the writer threads at
work. Callbacks are steps of the thread that runs them. Waits on the connection condition
have timeouts, so a lost notification only delays, and notifications are left out.
`StopOutcomes` says how stopping the pipeline may end: it is what `ShutdownOutcome` of
`Pipeline` allows, returns, raises or hangs. `ConnTroubles` says how a call of a connection
may fail to return: `ConnLocks` is the lock-out of `Mqtt`, which spreads to every thread that
asks `is_connected` afterwards, `log_status` included, and `ConnRaises` is the exception of
`Checker`, which needs a second thread. That is how the modules compose.

`Descriptors` follows a data message from `device_versions` to its decoder, against
version messages on the network thread, across sessions, crashes and outages. `file` is
the cache on disk and outlives everything else. `Locked` is the parser-state lock, held
throughout a download. A commit check, download or compilation is an outcome the
environment chooses; `proto_version_downloaded` looks in the CAN directory for every
network, as in the code, so the GPS file is fetched anew in each session.

`Mqtt` has the fields of `MQTTConnection`, the place of each caller (`cpc`: FSM and main thread)
and, of each client, its link, its terminate flag and its network thread's place. The
lock is a variable only where it is held from one step to the next, that is while joining a
thread and while dialling; what a callback does under it is one step, guarded by the lock
being free. paho is modelled from how the class uses it. A client instance is used again once
nothing refers to it. `on_message` changes no field and is left out: a network thread is in
its loop or in a callback that wants the lock.

`Checker` has the fields of `InfluxConnection`, of each `ConnectionChecker` its place, event
and `is_stopping`, and the places of callers and writer. `is_connected` is read in up to three
steps (`AskTest`, `AskPing`, and the answer), by callers and checkers alike, since another
thread may set `self.connection` to `None` between them. `failed` is a history variable.

`Lines` pushes the records of a message one by one and packs batches of the lines. A record
is a row, columnar or neither; a timestamp is a number or one of the things that `int`
refuses in different ways; a value is known by its column and position. `Push` has the result
of `PushResult` for one turn of the loop of `commit_to_destination_list`, including which
exceptions its handler takes. What the decoder may hand over is `IsRecord`: a record of one of
the three forms whose timestamp keys hold something a protobuf field can be turned into; the
values of its other fields are unrestricted. A row is one of a list of records or stands
alone as the value of its measurement, which gets no antenna name (`in_list`).

`MC_*` modules instantiate these for TLC; `*Proofs` hold the proofs.

## 3. What is checked

| Run | Instance | Shows |
|---|---|---|
| `pipeline` | 2 messages, up to 2 points each, batch of 2, message 2 may kill the parser, fairness | types, task accounting, order, refinement of `Delivery`, what a graceful stop may abandon, quiet after a stop; every message is parsed; a stop ends in one of four ways |
| `fsm` | 2 connections, 3 changes of the environment, engine queue of 3 | writers, final state, reconnection, the fate of a stop request |
| `descriptors` | 2 devices, CAN, GPS and excluded network, 1 version, threshold 3 | decoders, blacklist, cache |
| `mqtt` | 2 callers, 3 clients, any broker, logging on MQTT, fairness | flags, stale callbacks, replaced clients, calls that end, the connection comes up |
| `checker` | 2 callers, of which the main thread makes 1 call, 2 checkers | why a checker ends, unwatched connections, when `is_connected` raises |
| `checker_live` | the FSM thread alone, 2 checkers, fairness | stops return, lost connections are noticed |
| `lines` | every record over 2 timestamp keys alone, a sample of them in pairs; batch of 3, limit 11 | values and times of a row, rows that must be made, copies, packing, units |
| `nothing_left_behind`, `commit_timeout`, `parser_survives`, `stop_reaches_final`, `failed_downloads_counted` | smallest instances | the code does not do what a docstring or log message says (section 6) |

Bounds and why they are enough. *Pipeline*: every race is between one step of a
thread and one of another; two messages give a message queued behind the one
being parsed, four points give a batch being written, a full batch queued and the
timer's case of less than a batch. *Fsm*: three changes allow a connection to be lost, the
service to be unreachable and to come back. `MaxQueue` is a real bound: while the main thread
is inside the engine, the loop of `run` on the FSM thread goes round and sends `init`,
`connection` or `disconnection` again each time; a queue of three holds the interrupt's
event with two of those, enough for a repeated event to be refused or processed late.
*Descriptors*: keys do not influence one another but through the lock and the version's table, so one
version with networks of both libraries shows every interplay; the threshold is the code's.
There sessions, crashes and outages are unbounded.
*Mqtt*: three clients are one in use and two that were let go and whose threads linger in
their last notification; more of those would differ in nothing, since they no longer touch a
field, and a connect that would need a fourth client waits for one of them. Calls and changes
of the broker are unbounded. *Checker*: two checkers are the current one
and one replaced while at work; the main thread makes at most one call, `connect`,
`disconnect` or a check, at any moment of the FSM thread's unbounded ones: `stop_machine` is
called once. With it the state graph is too large for liveness, so `checker_live` leaves it
out. *Lines*: a record's rows do not depend on one another, and two timestamps give a
row that is there and one that a column is too short for; records meet only in the
exception handlers and in batches, so pairs suffice. The five kinds of odd timestamp stand
for the branches of `from_object`, a factor of 2 for the 1000 between units and 11 for the
greatest integer, with timestamps at the limit and one beyond.

Deadlock is not checked for `Pipeline`, `Fsm` and `Lines`: they are meant to stop. The others
never stop and are checked for it.

Every property of a passing run has a mutant in `PROJECT.json`: a plausible bug of the code
(a dropped `finally`, a stop without its flag, a `setdefault` turned assignment) under
which TLC finds the property violated. Mutated operators are marked in the modules.

### Fairness

`Pipeline`: each thread that can run does (parser, writer, timer callbacks, controller:
Python threads are preempted by the interpreter and hold no lock across a modelled step),
and the network thread leaves a handler it is in. Weak fairness is enough since every
wait is a state of its own. An armed timer fires. Nothing makes messages or stop requests
come. `Fsm`: the two threads run; interrupt, environment and trouble with a connection are free. `Mqtt`: threads run; one
that waits for the lock gets it if it is free again and again (strong fairness), since
between two calls the others sleep for seconds; `do_idle` tries again and again
(`Retry`). The broker and all other calls are free. `Checker`: threads run, and the wait of a
checker has a timeout; calls, commits and InfluxDB are free. `Descriptors` and `Lines`
have safety properties only.

## 4. What is proved

For all values of the constants, by TLAPS. Every safety invariant and every action property of
a passing run is a theorem.

- `PipelineProofs`: `TypeCorrect`, `AccountingCorrect`, `PipelineImplementsDelivery`,
  `PipelineInOrder`, `GracefulStopDrains`, `NoWakeUpLost`, `StopsBlockInTwoWays`, the action properties
  `SessionEndsQuietly` and `BlockedStopsStayBlocked`. Assumption: `PipelineAssumption`.
- `DeliveryProofs`: `DeliveryOrdered`, that the abstract specification keeps points in
  order and apart.
- `FsmProofs`: type correctness, `WritersReplacedInTurn`, `WriterWhileRunning`,
  `RunEndsCleanly`, `CallbacksExclusive`, `FinishIsKept` and the action property `FinalStateIsFinal`.
  Assumption: `FsmAssumption`.
- `DescriptorsProofs`: type correctness, `DecoderIsThere`, `BlacklistIsExact`,
  `OnlyConfirmedDecoders`, and the action property `CacheKept`.
  Assumption: `DescriptorsAssumption`.
- `MqttProofs`: type correctness, `MqttFlagsAreBacked`, `MqttNoStaleCallback`, `MqttOneLink`,
  `MqttNoSelfReconnect`, for any set of client instances; `MqttLeftoverReports`, `MqttWaitsAreLockOuts`, and
  the action property `MqttLockedOutForEver`. Assumption: `MqttAssumption`.
- `CheckerProofs`: type correctness, `RaiseTakesTwo`, `ConnectionIsWatched` and the action
  property `CheckerEndsForAReason`, for any number of checkers and calls. Assumption:
  `CheckerAssumption`.
- `LinesProofs`: type correctness, `ColumnsStayAligned`, `CopiesAreOnePoint`,
  `BatchesLostInBadCompany`, `UnitsRoundDown`; `LinesSoundProofs`: `SoundRowsAreMade`,
  `SoundMessagesSurvived`. Assumptions: `LinesAssumption`, and `MessagesAssumption`, the shape
  of records.

The arguments.

*Accounting*: `TaskAccounting` is not inductive, since the parser thread could be in the
middle of a message before it is started or `unfinished` be no number; `AccountInv` adds the
parser's places and types.

*Order*: directly, one would have to carry the order of three sequences through every step of
the pipeline. Instead each step is shown to be one of `Delivery`'s or a stutter (the parser's
position `<<cur, made>>` is the frontier, points in `batch` and `dest` are pending), which needs
that message ids in `raw` are increasing and larger than `cur`; and order is proved once for
`Delivery`, from: every waiting or stored point is at or before the frontier.

*Stops*: `StopInv` says what the controller knows at each of its steps: which threads it has
joined (`Joined`), which flags it has set (`Requested`), and that after `join()` of the queue
nothing is left but what the network thread still holds (`Drained`, from the accounting). A
blocked stop stays blocked because a parser that has ended is never started again within the
session (`EndedStays`), so the count of unfinished messages can only grow; and a
sleeping writer with no armed timer, no callback under way and a parser that ended has nobody
left to notify it. That there is no third situation is stated with the guards of the threads
(`Standstill`), since `ENABLED` is beyond the provers: a parser that waits has an empty queue, so
the count is zero and no `join()` of the queue waits for it, and it was told to stop before it
is joined (`Told`).

*State machine*: `IInv` says where each thread can be. The lock's holder is in a callback that
belongs to the current state (`Processing`), without the lock the FSM thread is in its own loop
and the main thread between two calls (`Outside`), and each state goes with a writer or none
(`WriterPerState`). `NoWriterLost` and `RunningHasWriter` are part of it, since the set of live
writers has its type only while no writer is lost. `FinishKept` follows the event `finish` through
the queue: a step leaves the queue alone, extends it, takes its head, or raises.

*Descriptors*: what `parse_msg` knows of the message in its hands (`Pursuit`) makes the
invariants inductive: it passed the gates, a download is under way only for a key without
a decoder and, for the CAN library, without a file; that versions registered or about to
be were checked (`Checked`) gives the provenance of decoders.

*MQTT*: none of its invariants is inductive alone. A stale callback is impossible because a
client that was let go is closed, told to end and in no callback but its last notification
(`LetGo`); that it is so when it is let go follows from what is known of the current client
in each of its callbacks (`Current`) and of a caller at each of its steps (`Held`); `LockHeld`
ties the lock to the callers' places. That a leftover client is always reporting its end needs
one thing more, that a client with neither flag set is (`Leftover`). A lock-out is permanent
since the joined thread waits for the lock, its joiner has it, and nobody else can take it. It
is the only standstill because a joined thread was told to end, so it does if it is in its
loop, and a client that `connect` may make stays unused until it does (`Prepared`).

*Checker*: an event is set only for one of the three reasons (`EventHasReason`), and only the
test of the loop ends a checker; as long as the main thread has made no call, the FSM thread
finds in the middle of a ping the client it found at its start (`Alone`). A current checker
that was not started, or died, leaves a caller on its way to start or replace it (`Watched`).

*Lines*: each line, wherever it is, is the one its record and row determine (`MadeLines`), so
two lines of a row agree, and packing and popping batches change no line. The places of a row in
the queue are counted: a push of a record without a bad row adds as many as the record has keys
(`SoundMakes`), one of a record with bad rows at least one for each row before the first of them
(`PrefixMakes`), and any other push none, whatever exception it ends with (`SoundInv`). The count
is of a message whose lines are all still queued; from there on batches keep every line.

Only model-checked: liveness (`EveryMessageParsed`, `ShutdownOutcome`, `Reconnects`,
`StopOutcome`, `CallsEnd`, `ComesUp`, `StopReturns`, `LostIsNoticed`), since temporal reasoning
under fairness is beyond the provers used. Of `ShutdownOutcome`, `CallsEnd` and `StopOutcome` the
part that is safety is proved: that a stop or a call never finds every thread waiting but in the
situations they except (`StopsBlockInTwoWays`, `MqttWaitsAreLockOuts`), that those are for ever,
and that `finish` is not lost on its way. What is left to fairness is that threads which can
step do, and get somewhere.

## 5. Not modelled

Decoding and the restoration of protobuf types, and the text of line protocol: pure
conversions, the second one of the client library. Configuration is read once before any
thread starts; logging and `tools` are output. The threads that create missing buckets touch
no field and swallow their errors. Memory: the queues have no bound in the code and none in
the model but that of messages. `handle_existing_messages` only subscribes, and catches what
that raises. The restart loop of `main` is not modelled: an exception in the FSM thread does
not reach `join`, so the loop is never taken for it.

## 6. Where code and documentation differ

1. `InfluxWriter.graceful_stop` promises that remaining points are committed; the loop
   ends without a last commit (`NothingLeftBehind`).
2. `InfluxWriter.run` says it commits when the timer expires; the notification is lost on a
   writer that is writing (`CommittedOnTimeout`).
3. An invalid record is logged as skipped and ends the parser thread (`ParserSurvives`).
4. `stop_machine` says it leads to the final state; `do_idle` and `do_run` may reset its
   flag (`StopReachesFinal`; `StopOutcome` shows it is the only way to lose a request).
5. `network_blacklisting` is to count "the number of times a network has failed to download its
   .proto descriptor" (`parser.py:73-79`), and `LibManager.download` to return "False otherwise"
   (`protobuf_manager.py:190-191`). When every request raises, as it does while GitHub cannot be
   reached, `resp` is unbound: the error passes `download`, and `parse_msg` takes it without
   counting (`FailedDownloadsCounted`). Such a network is never blacklisted; `BlacklistExact`
   is about the failures that are counted.
6. `Line.from_object` documents a ValueError "If the timestamp is missing", and a comment says
   "If no valid timestamp is found, raise an error" (`line.py:60-61`, `75`); the code takes the
   current time. No run is spent on it, since one look at the code shows it: `TimestampOf` does
   what the code does, and `SoundRowsMade` demands nothing for a row without a timestamp.

What may go wrong without contradicting a sentence of the documentation is named in the
properties that allow it:

- A stop of the pipeline may wait for ever for the writer's thread, which waits for a
  notification that came too early or joins a queue whose parser has ended
  (`ShutdownOutcome`, `StopsBlockInTwoWays`: there is no third reason;
  `BlockedStopsStayBlocked`: nothing ends it).
- `MQTTConnection.connect` and `disconnect` join paho's thread with the lock held, although a
  comment in `is_connected` says that the class avoids "holding our lock while calling into
  paho": when the thread is in a callback, neither moves again (`LockedOut` in `CallsEnd`,
  `MqttLockedOutForEver`). The teardown of a leftover client in `connect` always ends so: a
  client is left over only between a refused `on_connect` and its `on_disconnect`
  (`MqttLeftoverReports`).
- A checker that looks at its event between the set and the clear of `reset_timer` ends,
  and reports a disconnection, although a commit has just succeeded (`EndsForAReason`): the
  connection is not watched from then on.
- `is_connected` of InfluxDB may raise when another thread closes the connection in the
  middle of a ping (`RaiseNeedsRival`), in spite of the "safe ping" its docstring promises.
- Lines packed with one whose timestamp is beyond the limit are lost with it
  (`LostInBadCompany`), and a columnar record with several timestamp keys is written once for
  each of them (`CopiesAgree` shows that the copies are the same point, but for rows without a
  timestamp).

## 7. Plan

Done: all modules above, and the proofs of section 4.

Next, what the proofs can still say where liveness itself is out of their reach:

1. `Pipeline`: a measure that the steps of a stop decrease, the other half of `ShutdownOutcome`;
   `Delivery`'s other promise, that no waiting point is skipped.
2. `Fsm`: how the queue can be left with nobody to work it off (between the last look at it and
   the release of the lock), and that this is the only way.
3. `Checker`: that a stop finds a checker which can step, as in `MqttWaitsAreLockOuts`.
4. `Lines`: the lines of a whole message as a refinement of the count of points `Pipeline` has.
