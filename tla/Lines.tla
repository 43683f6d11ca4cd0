------------------------------- MODULE Lines --------------------------------
(***************************************************************************)
(* From records to points: what Parser.commit_to_destination_list makes of *)
(* the records of a decoded message, and what InfluxWriter makes of the    *)
(* lines.  Pipeline has a message as a number of points and a record that  *)
(* may raise; this module says which records give which lines.             *)
(*                                                                         *)
(* A record is a "row" (a dictionary), "columnar" (one with a valuesMap) or*)
(* "other".  Its timestamp keys are kept apart from its fields: stamps     *)
(* maps those it has to their values.  A columnar record has columns where *)
(* a row has values; "inner" holds the columns of its valuesMap whose name *)
(* is a timestamp key, "columns" the others.  A value has no content but   *)
(* the column and the row it stands in.  A row is one of a list of records *)
(* ("in_list") or the whole value of its measurement.                      *)
(***************************************************************************)
EXTENDS Integers, Sequences, FiniteSetsExt, SequencesExt

CONSTANTS
  Messages,    \* the messages: sequences of records
  BatchSize,   \* write_options.batch_size
  Micro,       \* nanoseconds in a microsecond, and so on: 1000, less in an instance
  IntMax       \* INFLUX_INT64_MAX

ASSUME LinesAssumption ==
  BatchSize \in Nat \ {0} /\ Micro \in Nat \ {0, 1} /\ IntMax \in Nat

\* TIMESTAMP_KEYS: two of the seven, in order; the second is that of expanded rows.
Keys == <<"inner_timestamp", "timestamp">>

\* What a timestamp key may hold: a number, None, a text or NaN that int
\* refuses with ValueError, infinity, or an object.
StampKinds == {"number", "null", "text", "infinite", "object"}

Stamp == [kind : StampKinds, at : Int]

\* Columns that hold timestamps; one that is no list has no items.
AreStamps(columns) ==
  \A key \in DOMAIN columns : key \in Range(Keys) /\ columns[key].items \in Seq(Stamp)

IsRecord(record) ==
  \/ record.form = "other"
  \/ /\ record.form = "row" /\ DOMAIN record = {"form", "stamps", "fields", "in_list"}
     /\ \A key \in DOMAIN record.stamps : key \in Range(Keys) /\ record.stamps[key] \in Stamp
  \/ /\ record.form = "columnar"
     /\ AreStamps(record.stamps) /\ AreStamps(record.inner)
     /\ \A name \in DOMAIN record.columns : Len(record.columns[name].items) \in Nat

\* A message is a list of records; about the values of fields nothing is assumed.
ASSUME MessagesAssumption ==
  \A m \in Messages : /\ Len(m) \in Nat /\ DOMAIN m = 1..Len(m)
                      /\ \A n \in DOMAIN m : IsRecord(m[n])

VARIABLES
  message,   \* the message being parsed
  antenna,   \* it has an antenna_name
  next,      \* position of the next record to push
  parser,    \* the parser thread: "parsing", "parsed" or "died"
  queue,     \* destination_list
  written,   \* points sent to InfluxDB
  given_up   \* batches that were popped and could not be packed

vars == <<message, antenna, next, parser, queue, written, given_up>>

Init ==
  /\ message \in Messages /\ antenna \in BOOLEAN
  /\ next = 1 /\ parser = "parsing"
  /\ queue = <<>> /\ written = <<>> /\ given_up = {}

----------------------------------------------------------------------------
(* Line.from_object.                                                       *)

\* Of a set of keys, the first in TIMESTAMP_KEYS.
FirstKey(keys) == Keys[Min({i \in DOMAIN Keys : Keys[i] \in keys})]

Present(stamps) == {key \in DOMAIN stamps : stamps[key].kind # "null"}

\* The time at which the line is made; which one it is tells nothing apart.
Now == [kind |-> "now", at |-> 0]

\* Mutant: a key that holds None counts as a timestamp.
TimestampOfNull(stamps) ==
  IF DOMAIN stamps = {} THEN Now ELSE stamps[FirstKey(DOMAIN stamps)]

\* The first key that does not hold None, or the current time.
TimestampOf(stamps) ==
  IF Present(stamps) = {} THEN Now ELSE stamps[FirstKey(Present(stamps))]

\* How from_object ends: with a line, or an exception.
Outcome(object) ==
  LET kind == TimestampOf(object.stamps).kind
  IN  IF kind \in {"text", "object"} THEN "ValueError"
      ELSE IF kind = "infinite" THEN "OverflowError"
      ELSE IF DOMAIN object.fields = {} THEN "Missing fields" ELSE "line"

Line(source, row, object) ==
  [source |-> source, row |-> row, fields |-> object.fields,
   time |-> TimestampOf(object.stamps)]

\* dict.update
Update(dict, other) ==
  [key \in DOMAIN dict \cup DOMAIN other |->
     IF key \in DOMAIN other THEN other[key] ELSE dict[key]]

----------------------------------------------------------------------------
(* _expand_columnar_record.  _unwrap_values takes the list out of a column *)
(* that is a dictionary with "values"; a column may also be neither.       *)

Listed(column)   == column.form \in {"list", "wrapped"}

\* Mutant: a column shorter than the timestamps is taken from its start.
CellsFromStart(columns, row) ==
  LET long == {name \in DOMAIN columns : Listed(columns[name]) /\ columns[name].items # <<>>}
  IN  [name \in long |-> LET items == columns[name].items
                         IN  items[IF row <= Len(items) THEN row ELSE 1]]

\* A row has the columns that are long enough.
Cells(columns, row) ==
  LET long == {name \in DOMAIN columns : Listed(columns[name]) /\ row <= Len(columns[name].items)}
  IN  [name \in long |-> columns[name].items[row]]

\* Mutant: the timestamps are those of the key at hand.
ExpandWith(record, key) ==
  LET times == record.stamps[key].items
  IN  [row \in DOMAIN times |->
         [stamps |-> Update([timestamp |-> times[row]], Cells(record.inner, row)),
          fields |-> Cells(record.columns, row)]]

\* Where a columnar record has the timestamps of its rows: its first key.
TimeColumn(record) == record.stamps[FirstKey(DOMAIN record.stamps)]

\* Mutant: every row has the first timestamp.
ExpandFirstTime(record, key) ==
  LET times == TimeColumn(record).items
  IN  [row \in DOMAIN times |->
         [stamps |-> Update([timestamp |-> times[1]], Cells(record.inner, row)),
          fields |-> Cells(record.columns, row)]]

\* The key at hand is not used.
Expand(record, key) ==
  LET times == TimeColumn(record).items
  IN  [row \in DOMAIN times |->
         [stamps |-> Update([timestamp |-> times[row]], Cells(record.inner, row)),
          fields |-> Cells(record.columns, row)]]

Expandable(record) ==
  /\ DOMAIN record.stamps # {}
  /\ Listed(TimeColumn(record)) /\ record.valid

----------------------------------------------------------------------------
(* Parser.push: the lines a record gives and the exception it ends with.   *)
(* The expansion is pushed once for each timestamp key of the record, up to*)
(* the first row from_object raises for.                                   *)

PushRow(source, record) ==
  LET outcome == Outcome(record)
  IN  [lines  |-> IF outcome = "line" THEN <<Line(source, 1, record)>> ELSE <<>>,
       \* The handler of ValueError goes on to the unbound name line.
       raises |-> IF outcome = "ValueError" THEN "UnboundLocalError" ELSE "none"]

RowsFor(record, key) ==
  IF key \notin DOMAIN record.stamps THEN <<>>
  ELSE LET expansion == Expand(record, key)
       IN  [row \in DOMAIN expansion |-> <<row, expansion[row]>>]

Bad(rows) == {i \in DOMAIN rows : Outcome(rows[i][2]) # "line"}

\* Mutant: lines are queued only when all of them are made.
GoodOrNone(rows) == IF Bad(rows) = {} THEN rows ELSE <<>>

\* A line is queued as it is made, up to the first exception.
Good(rows) == IF Bad(rows) = {} THEN rows ELSE SubSeq(rows, 1, Min(Bad(rows)) - 1)

PushColumnar(source, record) ==
  LET rows == RowsFor(record, Keys[1]) \o RowsFor(record, Keys[2])
      good == Good(rows)
  IN  [lines  |-> [i \in DOMAIN good |-> Line(source, good[i][1], good[i][2])],
       raises |-> IF Bad(rows) = {} THEN "none"
                  ELSE IF Outcome(rows[Min(Bad(rows))][2]) = "OverflowError"
                  THEN "OverflowError" ELSE "ValueError"]

Nothing == [lines |-> <<>>, raises |-> "none"]

PushResult(source, record) ==
  IF record.form = "row" THEN PushRow(source, record)
  ELSE IF record.form = "columnar" /\ Expandable(record) THEN PushColumnar(source, record)
  ELSE Nothing

\* commit_to_destination_list adds antenna_name to the records of its lists, not
\* to a record that stands alone.
\* In a columnar record it is beside the valuesMap, where nobody looks.
WithAntenna(record) ==
  IF antenna /\ record.form = "row" /\ record.in_list
    THEN [record EXCEPT !.fields = Update(@, [antenna_name |-> "antenna"])] ELSE record

\* Mutant: the first invalid record ends the message.
PushAbandons ==
  /\ parser = "parsing" /\ next <= Len(message)
  /\ LET result == PushResult(next, WithAntenna(message[next]))
     IN  /\ queue' = queue \o result.lines
         /\ parser' = IF result.raises \in {"none", "ValueError"} THEN parser ELSE "died"
         /\ next' = IF result.raises = "none" THEN next + 1 ELSE Len(message) + 1
  /\ UNCHANGED <<message, antenna, written, given_up>>

\* One turn of the loop.  Its handler takes ValueError, and nothing else.
Push ==
  /\ parser = "parsing" /\ next <= Len(message)
  /\ LET result == PushResult(next, WithAntenna(message[next]))
     IN  /\ queue' = queue \o result.lines
         /\ parser' = IF result.raises \in {"none", "ValueError"} THEN parser ELSE "died"
  /\ next' = next + 1
  /\ UNCHANGED <<message, antenna, written, given_up>>

Finish ==
  /\ parser = "parsing" /\ next > Len(message)
  /\ parser' = "parsed"
  /\ UNCHANGED <<message, antenna, next, queue, written, given_up>>

----------------------------------------------------------------------------
(* InfluxWriter.commit: a batch is popped and packed.                      *)

Precisions == {"ns", "us", "ms", "s", "unknown"}

\* get_factor: nanoseconds in a unit.
Factor == [ns |-> 1, us |-> Micro, ms |-> Micro * Micro, s |-> Micro * Micro * Micro]

\* Mutant: the timestamp is taken for nanoseconds.
NormalizedFromNano(time, precision) ==
  IF precision = "unknown" THEN time ELSE time \div Factor[precision]

\* A timestamp in microseconds, in another unit.
Normalized(time, precision) ==
  IF precision = "unknown" THEN time ELSE (time * Micro) \div Factor[precision]

\* Mutant: the limit itself is refused.
InRangeBelow(line) ==
  line.time.kind = "number" => Normalized(line.time.at, "us") < IntMax

\* _normalize_timestamp does not raise; the current time is in range.
InRange(line) ==
  line.time.kind = "number" => Normalized(line.time.at, "us") <= IntMax

Points(batch) ==
  [i \in DOMAIN batch |->
     IF batch[i].time.kind = "now" THEN batch[i]
     ELSE [batch[i] EXCEPT !.time.at = Normalized(@, "us")]]

\* __pack_lines: one line that cannot be packed empties the whole payload.
\* It may come at any time: when it does is in Pipeline.
Commit ==
  /\ queue # <<>>
  /\ LET count == IF Len(queue) < BatchSize THEN Len(queue) ELSE BatchSize
         batch == SubSeq(queue, 1, count)
     IN  /\ queue' = SubSeq(queue, count + 1, Len(queue))
         /\ IF \A i \in DOMAIN batch : InRange(batch[i])
              THEN written' = written \o Points(batch) /\ UNCHANGED given_up
              ELSE given_up' = given_up \cup {batch} /\ UNCHANGED written
  /\ UNCHANGED <<message, antenna, next, parser>>

----------------------------------------------------------------------------
Next == Push \/ Finish \/ Commit

Spec == Init /\ [][Next]_vars

----------------------------------------------------------------------------
(* Safety.                                                                 *)

Made == queue \o written

LineType(line) ==
  /\ line.source \in DOMAIN message /\ line.row \in Nat
  /\ DOMAIN line.fields # {}
  /\ line.time.kind \in {"number", "now"} /\ line.time.at \in Int

\* Every variable holds a value of its type; a Line has a field and an integer
\* timestamp.
TypeOK ==
  /\ next \in 1..(Len(message) + 1) /\ parser \in {"parsing", "parsed", "died"}
  /\ \A i \in DOMAIN Made : LineType(Made[i])
  /\ \A batch \in given_up : \A i \in DOMAIN batch : LineType(batch[i])

\* The line has the values of its row.
Aligned(line, record) ==
  \A name \in DOMAIN line.fields :
    /\ line.row <= Len(record.columns[name].items)
    /\ line.fields[name] = record.columns[name].items[line.row]

\* It has a timestamp of its row, of the record or of its valuesMap, or the
\* current time where that is None.
Timed(line, record) ==
  \E column \in {TimeColumn(record)} \cup Range(record.inner) :
    /\ line.row <= Len(column.items)
    /\ \/ line.time = column.items[line.row]
       \/ line.time = Now /\ column.items[line.row].kind = "null"

\* A line of a columnar record holds the values and the timestamp of one
\* position, however ragged or wrapped the columns are: no value is written
\* under the time of another.
RowsAligned ==
  \A i \in DOMAIN Made :
    LET record == message[Made[i].source]
    IN  record.form = "columnar" => Aligned(Made[i], record) /\ Timed(Made[i], record)

RowsOf(record) ==
  IF record.form = "row" THEN {1}
  ELSE IF record.form = "columnar" /\ Expandable(record)
    THEN DOMAIN TimeColumn(record).items ELSE {}

\* Nothing is wrong with a row: it has a timestamp, its timestamps are numbers,
\* and it has a value.
SoundAt(record, row) ==
  IF record.form = "row"
    THEN /\ DOMAIN record.fields # {} /\ DOMAIN record.stamps # {}
         /\ \A key \in DOMAIN record.stamps : record.stamps[key].kind = "number"
    ELSE /\ TimeColumn(record).items[row].kind = "number"
         /\ \A key \in DOMAIN record.inner :
              row <= Len(record.inner[key].items) => record.inner[key].items[row].kind = "number"
         /\ \E name \in DOMAIN record.columns :
              Listed(record.columns[name]) /\ row <= Len(record.columns[name].items)

\* No row is bad; one that gives no rows has none.
Sound(record) == \A row \in RowsOf(record) : SoundAt(record, row)

\* The rows before the first one something is wrong with.
SoundRows(record) ==
  {row \in RowsOf(record) : \A r \in RowsOf(record) : r <= row => SoundAt(record, r)}

Copies(record) == IF record.form = "row" THEN 1 ELSE Cardinality(DOMAIN record.stamps)

Places(lines, n, row) == {i \in DOMAIN lines : lines[i].source = n /\ lines[i].row = row}

\* Whatever is wrong with the other records of a message, and whatever that
\* makes of the parser thread, a record that was pushed has its lines: each row
\* before the first bad one, and if there is no bad one each as often as the
\* record has timestamp keys.
SoundRowsMade ==
  written = <<>> /\ given_up = {} =>
    \A n \in 1..(next - 1) : \A row \in SoundRows(message[n]) :
      LET found == Cardinality(Places(queue, n, row))
      IN  IF Sound(message[n]) THEN found = Copies(message[n]) ELSE found >= 1

\* The copies a columnar record with several timestamp keys gives of a row are
\* the same point, which InfluxDB stores once; but for rows without a
\* timestamp, which get the time at which each copy is made.
CopiesAgree ==
  \A i, j \in DOMAIN queue :
    /\ queue[i].source = queue[j].source /\ queue[i].row = queue[j].row
    /\ queue[i].time.kind = "number"
    => queue[i] = queue[j]

\* A batch is given up only for a timestamp beyond the greatest integer, the
\* greatest one excluded; the other lines of the batch are lost with it.
LostInBadCompany ==
  \A batch \in given_up :
    \E i \in DOMAIN batch : batch[i].time.kind = "number" /\ batch[i].time.at > IntMax

\* A timestamp converted to another unit is the last instant of that unit not
\* after it, for every timestamp of a line.
UnitsConvert ==
  \A i \in DOMAIN queue : queue[i].time.kind = "number" =>
    \A precision \in Precisions \ {"unknown"} :
      LET nanos == queue[i].time.at * Micro
          unit  == Factor[precision]
          value == Normalized(queue[i].time.at, precision)
      IN  value * unit <= nanos /\ nanos < (value + 1) * unit
=============================================================================
