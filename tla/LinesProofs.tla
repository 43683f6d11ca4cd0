----------------------------- MODULE LinesProofs -----------------------------
(***************************************************************************)
(* Theorems about Lines, for any messages, batch size, length of the units *)
(* of time and greatest integer.                                           *)
(*                                                                         *)
(* They rest on one invariant: every line that is queued, written or given *)
(* up is the one line its record and its row determine.  What a columnar   *)
(* record pushes once for each of its timestamp keys is then the same line.*)
(***************************************************************************)
EXTENDS Lines, SequenceTheorems, WellFoundedInduction, TLAPS

USE LinesAssumption, MessagesAssumption

----------------------------------------------------------------------------
(* Arithmetic of the units of time.                                        *)

LEMMA DivisionBounds ==
  ASSUME NEW n \in Int, NEW unit \in Nat \ {0}
  PROVE  /\ n \div unit \in Int
         /\ (n \div unit) * unit <= n /\ n < (n \div unit + 1) * unit
OBVIOUS

LEMMA DivisionCancels ==
  ASSUME NEW n \in Int, NEW unit \in Nat \ {0}
  PROVE  (n * unit) \div unit = n
OBVIOUS

LEMMA FactorType ==
  ASSUME NEW precision \in Precisions \ {"unknown"}
  PROVE  Factor[precision] \in Nat \ {0}
<1>1. /\ Micro \in Nat \ {0} /\ Micro * Micro \in Nat \ {0}
      /\ Micro * Micro * Micro \in Nat \ {0}
  OBVIOUS
<1>2. QED
  BY <1>1 DEF Factor, Precisions

\* The unit the writer asks for is the one timestamps are in.
LEMMA MicrosecondsStay ==
  ASSUME NEW time \in Int
  PROVE  Normalized(time, "us") = time
<1>1. Factor["us"] = Micro
  BY DEF Factor
<1>2. QED
  BY <1>1, DivisionCancels DEF Normalized

----------------------------------------------------------------------------
(* Sequences.                                                              *)

LEMMA LeastIndex ==
  ASSUME NEW S, S \subseteq Nat, S # {}
  PROVE  Min(S) \in S /\ \A n \in S : Min(S) <= n
<1>1. PICK x \in S : \A y \in S : ~ (<<y, x>> \in OpToRel(<, Nat))
  BY WFMin, NatLessThanWellFounded
<1>2. \A y \in S : ~ (y < x)
  BY <1>1, Zenon DEF OpToRel
<1>3. \A y \in S : x <= y
  BY <1>2
<1>4. QED
  BY <1>3 DEF Min

----------------------------------------------------------------------------
(* Timestamps.                                                             *)

\* Whatever the keys hold, a time is the current one or what one of them holds,
\* and that is not None.
LEMMA FirstKeyIn ==
  ASSUME NEW keys, keys \subseteq Range(Keys), keys # {}
  PROVE  FirstKey(keys) \in keys
<1> DEFINE places == {i \in DOMAIN Keys : Keys[i] \in keys}
<1>1. DOMAIN Keys = 1..2
  BY DEF Keys
<1>2. places \subseteq Nat /\ places # {}
  BY <1>1 DEF Range
<1>3. Min(places) \in places
  BY <1>2, LeastIndex
<1>4. QED
  BY <1>3 DEF FirstKey

AreTimes(stamps) == \A key \in DOMAIN stamps : key \in Range(Keys) /\ stamps[key] \in Stamp

LEMMA TimeType ==
  ASSUME NEW stamps, AreTimes(stamps)
  PROVE  /\ TimestampOf(stamps) \in [kind : (StampKinds \ {"null"}) \cup {"now"}, at : Int]
<1>1. CASE Present(stamps) = {}
  BY <1>1 DEF TimestampOf, Now
<1>2. CASE Present(stamps) # {}
  <2>1. Present(stamps) \subseteq Range(Keys)
    BY DEF Present, AreTimes
  <2>2. FirstKey(Present(stamps)) \in Present(stamps)
    BY <1>2, <2>1, FirstKeyIn
  <2>3. QED
    BY <1>2, <2>2 DEF TimestampOf, Present, AreTimes, Stamp
<1>3. QED
  BY <1>1, <1>2

\* A line that is made has a field and an integer timestamp or the current one.
LEMMA OutcomeLine ==
  ASSUME NEW object, AreTimes(object.stamps), Outcome(object) = "line"
  PROVE  /\ DOMAIN object.fields # {}
         /\ TimestampOf(object.stamps) \in [kind : {"number", "now"}, at : Int]
<1>1. TimestampOf(object.stamps).kind \notin {"text", "object", "infinite"}
      /\ DOMAIN object.fields # {}
  BY DEF Outcome
<1>2. QED
  BY <1>1, TimeType DEF StampKinds

----------------------------------------------------------------------------
(* The lines of a message.                                                 *)

\* What from_object is given for a record and one of its rows.
Object(n, row) ==
  IF message[n].form = "row" THEN WithAntenna(message[n])
  ELSE Expand(message[n], "timestamp")[row]

Rows(n) ==
  IF message[n].form = "row" THEN {1}
  ELSE IF message[n].form = "columnar" /\ Expandable(message[n])
    THEN DOMAIN Expand(message[n], "timestamp") ELSE {}

\* The lines that may be made of a record, one for each row, and of a message.
LinesOf(n) == { Line(n, row, Object(n, row)) :
                  row \in {r \in Rows(n) : Outcome(Object(n, r)) = "line"} }
MadeLines  == UNION {LinesOf(n) : n \in DOMAIN message}

ParserOK == /\ message \in Messages /\ parser \in {"parsing", "parsed", "died"}
            /\ next \in 1..(Len(message) + 1)

LEMMA RecordIs ==
  ASSUME ParserOK, NEW n \in DOMAIN message
  PROVE  IsRecord(message[n])
BY DEF ParserOK

\* A record with the antenna's name has the timestamps it had.
LEMMA AntennaKeeps ==
  ASSUME NEW record, IsRecord(record)
  PROVE  /\ WithAntenna(record).form = record.form
         /\ record.form = "row" => WithAntenna(record).stamps = record.stamps
         /\ record.form # "row" => WithAntenna(record) = record
BY DEF WithAntenna, IsRecord

\* An expanded row has timestamps where its record has.
LEMMA ExpandType ==
  ASSUME NEW record, IsRecord(record), record.form = "columnar", Expandable(record), NEW key
  PROVE  /\ Expand(record, key) = Expand(record, "timestamp")
         /\ \E len \in Nat : DOMAIN Expand(record, key) = 1..len
         /\ \A row \in DOMAIN Expand(record, key) :
              /\ AreTimes(Expand(record, key)[row].stamps)
              /\ Expand(record, key)[row].fields = Cells(record.columns, row)
<1> DEFINE times == TimeColumn(record).items
<1>1. AreStamps(record.stamps) /\ AreStamps(record.inner)
  BY DEF IsRecord
<1>2. FirstKey(DOMAIN record.stamps) \in DOMAIN record.stamps
  BY <1>1, FirstKeyIn DEF AreStamps, Expandable
<1>3. times \in Seq(Stamp)
  BY <1>1, <1>2 DEF AreStamps, TimeColumn
<1>4. Len(times) \in Nat /\ DOMAIN times = 1..Len(times)
      /\ \A row \in DOMAIN times : times[row] \in Stamp
  BY <1>3, LenProperties, ElementOfSeq
<1>5. ASSUME NEW row \in DOMAIN times
      PROVE  AreTimes(Update([timestamp |-> times[row]], Cells(record.inner, row)))
  <2>1. \A name \in DOMAIN Cells(record.inner, row) :
          /\ name \in DOMAIN record.inner
          /\ row \in 1..Len(record.inner[name].items)
          /\ Cells(record.inner, row)[name] = record.inner[name].items[row]
    BY <1>4, <1>5 DEF Cells
  <2>2. AreTimes(Cells(record.inner, row))
    BY <1>1, <2>1, ElementOfSeq DEF AreStamps, AreTimes
  <2>3. "timestamp" \in Range(Keys)
    BY DEF Keys, Range
  <2>4. AreTimes([timestamp |-> times[row]])
    BY <1>4, <2>3 DEF AreTimes
  <2>5. QED
    BY <2>2, <2>4 DEF AreTimes, Update
<1>6. QED
  BY <1>4, <1>5 DEF Expand

\* The time of an expanded row is one the record has at its position.
LEMMA ExpandTimed ==
  ASSUME NEW record, IsRecord(record), record.form = "columnar", Expandable(record),
         NEW row \in DOMAIN Expand(record, "timestamp"), NEW line, line.row = row,
         line.time = TimestampOf(Expand(record, "timestamp")[row].stamps)
  PROVE  Timed(line, record)
<1> DEFINE times   == TimeColumn(record).items
           cells   == Cells(record.inner, row)
           stamps  == Update([timestamp |-> times[row]], cells)
           columns == {TimeColumn(record)} \cup Range(record.inner)
<1>1. row \in DOMAIN times /\ Expand(record, "timestamp")[row].stamps = stamps
  BY DEF Expand
<1>2. AreTimes(stamps)
  BY <1>1, ExpandType
<1>3. row <= Len(times)
  <2>1. times \in Seq(Stamp)
    BY FirstKeyIn DEF IsRecord, AreStamps, Expandable, TimeColumn
  <2>2. QED
    BY <1>1, <2>1, LenProperties
<1>4. ASSUME NEW key \in DOMAIN stamps
      PROVE  \E column \in columns : row <= Len(column.items) /\ stamps[key] = column.items[row]
  <2>1. CASE key \in DOMAIN cells
    <3>1. /\ key \in DOMAIN record.inner /\ row <= Len(record.inner[key].items)
          /\ stamps[key] = record.inner[key].items[row]
      BY <2>1 DEF Cells, Update
    <3>2. record.inner[key] \in columns
      BY <3>1 DEF Range
    <3>3. QED
      BY <3>1, <3>2
  <2>2. CASE key \notin DOMAIN cells
    BY <1>3, <1>4, <2>2 DEF Update
  <2>3. QED
    BY <2>1, <2>2
<1>5. "timestamp" \in DOMAIN stamps
  BY DEF Update
<1>6. CASE Present(stamps) = {}
  <2>1. line.time = Now /\ stamps["timestamp"].kind = "null"
    BY <1>1, <1>5, <1>6 DEF TimestampOf, Present
  <2>2. QED
    BY <1>4, <1>5, <2>1 DEF Timed
<1>7. CASE Present(stamps) # {}
  <2>1. FirstKey(Present(stamps)) \in DOMAIN stamps
    BY <1>2, <1>7, FirstKeyIn DEF Present, AreTimes
  <2>2. line.time = stamps[FirstKey(Present(stamps))]
    BY <1>1, <1>7 DEF TimestampOf
  <2>3. QED
    BY <1>4, <2>1, <2>2 DEF Timed
<1>8. QED
  BY <1>6, <1>7

LEMMA ObjectType ==
  ASSUME ParserOK, NEW n \in DOMAIN message, NEW row \in Rows(n)
  PROVE  /\ row \in Nat /\ AreTimes(Object(n, row).stamps)
         /\ message[n].form = "columnar" => Object(n, row).fields = Cells(message[n].columns, row)
<1>1. IsRecord(message[n])
  BY RecordIs
<1>2. CASE message[n].form = "row"
  BY <1>1, <1>2, AntennaKeeps DEF Rows, Object, AreTimes, IsRecord
<1>3. CASE message[n].form # "row"
  BY <1>1, <1>3, ExpandType DEF Rows, Object
<1>4. QED
  BY <1>2, <1>3

\* Every such line is well-formed, it is aligned and timed, and its source and its row
\* say which one it is.
LEMMA MadeLineIs ==
  ASSUME ParserOK, NEW line \in MadeLines
  PROVE  /\ LineType(line)
         /\ line = [source |-> line.source, row |-> line.row, fields |-> line.fields,
                    time |-> line.time]
         /\ line.time \in [kind : {"number", "now"}, at : Int]
         /\ line = Line(line.source, line.row, Object(line.source, line.row))
         /\ message[line.source].form = "columnar" =>
              Aligned(line, message[line.source]) /\ Timed(line, message[line.source])
<1>1. PICK n \in DOMAIN message : line \in LinesOf(n)
  BY DEF MadeLines
<1>2. PICK row \in Rows(n) : /\ Outcome(Object(n, row)) = "line"
                             /\ line = Line(n, row, Object(n, row))
  BY <1>1 DEF LinesOf
<1>3. /\ row \in Nat /\ AreTimes(Object(n, row).stamps)
      /\ message[n].form = "columnar" => Object(n, row).fields = Cells(message[n].columns, row)
  BY ObjectType
<1>4. DOMAIN line.fields # {} /\ line.time \in [kind : {"number", "now"}, at : Int]
  BY <1>2, <1>3, OutcomeLine DEF Line
<1>5. line.source = n /\ line.row = row /\ line.fields = Object(n, row).fields
  BY <1>2 DEF Line
<1>6. LineType(line)
  BY <1>3, <1>4, <1>5 DEF LineType
<1>7. message[n].form = "columnar" => Aligned(line, message[n])
  BY <1>3, <1>5 DEF Aligned, Cells
<1>8. message[n].form = "columnar" => Timed(line, message[n])
  <2>1. line.time = TimestampOf(Object(n, row).stamps)
    BY <1>2 DEF Line
  <2>2. QED
    BY <1>5, <2>1, RecordIs, ExpandTimed DEF Rows, Object
<1>9. QED
  BY <1>2, <1>4, <1>5, <1>6, <1>7, <1>8 DEF Line

----------------------------------------------------------------------------
(* push.                                                                   *)

LEMMA PushRowMakes ==
  ASSUME ParserOK, NEW n \in DOMAIN message, message[n].form = "row"
  PROVE  PushRow(n, WithAntenna(message[n])).lines \in Seq(LinesOf(n))
<1> DEFINE object == WithAntenna(message[n])
<1>1. CASE Outcome(object) = "line"
  <2>1. Line(n, 1, object) \in LinesOf(n)
    BY <1>1 DEF LinesOf, Rows, Object
  <2>2. QED
    BY <1>1, <2>1 DEF PushRow
<1>2. CASE Outcome(object) # "line"
  BY <1>2, EmptySeq DEF PushRow
<1>3. QED
  BY <1>1, <1>2

\* The rows pushed up to the first that from_object raises for: it raises for
\* none of those before.
LEMMA GoodRows ==
  ASSUME NEW S, NEW rows \in Seq(S)
  PROVE  /\ Good(rows) \in Seq(S)
         /\ \A i \in 1..Len(Good(rows)) : Outcome(Good(rows)[i][2]) = "line"
<1>1. Len(rows) \in Nat /\ DOMAIN rows = 1..Len(rows) /\ \A i \in 1..Len(rows) : rows[i] \in S
  BY LenProperties, ElementOfSeq
<1>2. CASE Bad(rows) = {}
  BY <1>1, <1>2 DEF Good, Bad
<1>3. CASE Bad(rows) # {}
  <2> DEFINE first == Min(Bad(rows))
  <2>1. first \in Bad(rows) /\ \A i \in Bad(rows) : first <= i
    <3>1. Bad(rows) \subseteq Nat
      BY <1>1 DEF Bad
    <3>2. QED
      BY <1>3, <3>1, LeastIndex
  <2>2. first \in 1..Len(rows)
    BY <1>1, <2>1 DEF Bad
  <2>3. 1 \in Int /\ first - 1 \in Int /\ \A i \in 1..(first - 1) : i \in 1..Len(rows)
    BY <1>1, <2>2
  <2>4. \A i \in 1..(first - 1) : rows[i] \in S /\ i \notin Bad(rows)
    BY <1>1, <2>1, <2>2, <2>3
  <2>5. /\ SubSeq(rows, 1, first - 1) \in Seq(S)
        /\ Len(SubSeq(rows, 1, first - 1)) = first - 1
        /\ \A i \in 1..(first - 1) : SubSeq(rows, 1, first - 1)[i] = rows[i]
    <3>1. /\ SubSeq(rows, 1, first - 1) \in Seq(S)
          /\ Len(SubSeq(rows, 1, first - 1))
               = IF 1 <= first - 1 THEN first - 1 - 1 + 1 ELSE 0
          /\ \A i \in 1..(first - 1) - 1 + 1 : SubSeq(rows, 1, first - 1)[i] = rows[1 + i - 1]
      BY <2>3, <2>4, SubSeqProperties
    <3>2. QED
      BY <2>2, <3>1
  <2>6. \A i \in 1..(first - 1) : Outcome(rows[i][2]) = "line"
    BY <1>1, <2>3, <2>4 DEF Bad
  <2>7. QED
    BY <1>3, <2>5, <2>6 DEF Good
<1>4. QED
  BY <1>2, <1>3

LEMMA PushColumnarMakes ==
  ASSUME ParserOK, NEW n \in DOMAIN message,
         message[n].form = "columnar", Expandable(message[n])
  PROVE  PushColumnar(n, message[n]).lines \in Seq(LinesOf(n))
<1> DEFINE record == message[n]
           Pairs  == {<<row, Object(n, row)>> : row \in Rows(n)}
           rows   == RowsFor(record, Keys[1]) \o RowsFor(record, Keys[2])
<1>1. IsRecord(record)
  BY RecordIs
<1>2. ASSUME NEW key
      PROVE  RowsFor(record, key) \in Seq(Pairs)
  <2>1. Expand(record, key) = Expand(record, "timestamp")
        /\ \E len \in Nat : DOMAIN Expand(record, key) = 1..len
    BY <1>1, ExpandType
  <2>2. PICK len \in Nat : DOMAIN Expand(record, key) = 1..len
    BY <2>1
  <2>3. Rows(n) = 1..len /\ \A row \in 1..len : Object(n, row) = Expand(record, key)[row]
    BY <2>1, <2>2 DEF Rows, Object
  <2>4. [row \in 1..len |-> <<row, Expand(record, key)[row]>>] \in Seq(Pairs)
    <3>1. \A row \in 1..len : <<row, Expand(record, key)[row]>> \in Pairs
      BY <2>3
    <3>2. QED
      BY <3>1, IsASeq
  <2>5. QED
    BY <2>2, <2>4, EmptySeq DEF RowsFor
<1>3. rows \in Seq(Pairs)
  BY <1>2, ConcatProperties
<1> DEFINE good == Good(rows)
<1>4. good \in Seq(Pairs) /\ \A i \in 1..Len(good) : Outcome(good[i][2]) = "line"
  BY <1>3, GoodRows
<1>5. Len(good) \in Nat /\ DOMAIN good = 1..Len(good) /\ \A i \in 1..Len(good) : good[i] \in Pairs
  BY <1>4, LenProperties, ElementOfSeq
<1>6. ASSUME NEW i \in 1..Len(good)
      PROVE  Line(n, good[i][1], good[i][2]) \in LinesOf(n)
  <2>1. PICK row \in Rows(n) : good[i] = <<row, Object(n, row)>>
    BY <1>5
  <2>2. Outcome(Object(n, row)) = "line"
    BY <1>4, <2>1
  <2>3. Line(n, row, Object(n, row)) \in LinesOf(n)
    BY <2>2 DEF LinesOf
  <2>4. QED
    BY <2>1, <2>3
<1>7. [i \in 1..Len(good) |-> Line(n, good[i][1], good[i][2])] \in Seq(LinesOf(n))
  BY <1>5, <1>6, IsASeq
<1>8. PushColumnar(n, record).lines = [i \in DOMAIN good |-> Line(n, good[i][1], good[i][2])]
  BY DEF PushColumnar
<1>9. QED
  BY <1>5, <1>7, <1>8

LEMMA PushMakes ==
  ASSUME ParserOK, NEW n \in DOMAIN message
  PROVE  /\ PushResult(n, WithAntenna(message[n])).lines \in Seq(LinesOf(n))
         /\ PushResult(n, WithAntenna(message[n])).lines \in Seq(MadeLines)
<1>1. IsRecord(message[n])
  BY RecordIs
<1> SUFFICES PushResult(n, WithAntenna(message[n])).lines \in Seq(LinesOf(n))
  <2>1. LinesOf(n) \subseteq MadeLines
    BY DEF MadeLines
  <2>2. QED
    BY <2>1, SeqMonotonic
<1>2. CASE message[n].form = "row"
  BY <1>1, <1>2, AntennaKeeps, PushRowMakes DEF PushResult
<1>3. CASE message[n].form = "columnar" /\ Expandable(message[n])
  BY <1>1, <1>3, AntennaKeeps, PushColumnarMakes DEF PushResult
<1>4. CASE message[n].form # "row" /\ ~ (message[n].form = "columnar" /\ Expandable(message[n]))
  BY <1>1, <1>4, AntennaKeeps, EmptySeq DEF PushResult, Nothing
<1>5. QED
  BY <1>2, <1>3, <1>4

----------------------------------------------------------------------------
(* commit.                                                                 *)

\* Packing changes no line: timestamps are in microseconds, and are asked for
\* in microseconds.
LEMMA PackingKeeps ==
  ASSUME ParserOK, NEW batch \in Seq(MadeLines)
  PROVE  Points(batch) = batch
<1>1. batch \in [1..Len(batch) -> MadeLines] /\ DOMAIN batch = 1..Len(batch)
  BY LenProperties
<1>2. ASSUME NEW i \in DOMAIN batch
      PROVE  (IF batch[i].time.kind = "now" THEN batch[i]
              ELSE [batch[i] EXCEPT !.time.at = Normalized(batch[i].time.at, "us")]) = batch[i]
  <2> DEFINE line == batch[i]
  <2>1. line \in MadeLines
    BY <1>1
  <2>2. /\ line = [source |-> line.source, row |-> line.row, fields |-> line.fields,
                   time |-> line.time]
        /\ line.time \in [kind : {"number", "now"}, at : Int]
    BY <2>1, MadeLineIs
  <2>3. Normalized(line.time.at, "us") = line.time.at
    BY <2>2, MicrosecondsStay
  <2>4. [line EXCEPT !.time.at = line.time.at] = line
    BY <2>2
  <2>5. QED
    BY <2>3, <2>4
<1>3. QED
  BY <1>1, <1>2 DEF Points

LEMMA PopSplits ==
  ASSUME NEW S, NEW lines \in Seq(S), NEW n \in 0..Len(lines)
  PROVE  SubSeq(lines, 1, n) \in Seq(S) /\ SubSeq(lines, n + 1, Len(lines)) \in Seq(S)
<1>1. Len(lines) \in Nat /\ \A i \in 1..Len(lines) : lines[i] \in S
  BY LenProperties, ElementOfSeq
<1>2. /\ 1 \in Int /\ n \in Int /\ n + 1 \in Int /\ Len(lines) \in Int
      /\ \A i \in 1..n : i \in 1..Len(lines)
      /\ \A i \in (n + 1)..Len(lines) : i \in 1..Len(lines)
  BY <1>1
<1>3. QED
  BY <1>1, <1>2, SubSeqProperties

----------------------------------------------------------------------------
(* The invariant.                                                          *)

IInv ==
  /\ ParserOK
  /\ queue \in Seq(MadeLines) /\ written \in Seq(MadeLines)
  /\ given_up \subseteq Seq(MadeLines) /\ LostInBadCompany

LEMMA InitInvariant == Init => IInv
<1> SUFFICES ASSUME Init PROVE IInv
  OBVIOUS
<1>1. ParserOK
  BY DEF Init, ParserOK
<1>2. QED
  BY <1>1, EmptySeq DEF Init, IInv, LostInBadCompany

\* The message does not change while it is parsed, nor what may be made of it.
LEMMA MessageStays ==
  ASSUME [Next]_vars
  PROVE  UNCHANGED <<message, antenna>> /\ MadeLines' = MadeLines
<1>1. UNCHANGED <<message, antenna>>
  BY DEF Next, Push, Finish, Commit, vars
<1>2. QED
  BY <1>1 DEF MadeLines, LinesOf, Rows, Object, WithAntenna

LEMMA PushInvariant ==
  ASSUME IInv, Push, MadeLines' = MadeLines
  PROVE  IInv'
<1> DEFINE result == PushResult(next, WithAntenna(message[next]))
<1>1. next \in DOMAIN message
  BY DEF Push, IInv, ParserOK
<1>2. result.lines \in Seq(MadeLines)
  BY <1>1, PushMakes DEF IInv
<1>3. queue \o result.lines \in Seq(MadeLines)
  BY <1>2, ConcatProperties DEF IInv
<1>4. ParserOK'
  BY <1>1 DEF Push, IInv, ParserOK
<1>5. QED
  BY <1>3, <1>4 DEF Push, IInv, LostInBadCompany

LEMMA CommitInvariant ==
  ASSUME IInv, Commit, MadeLines' = MadeLines
  PROVE  IInv'
<1> DEFINE count == IF Len(queue) < BatchSize THEN Len(queue) ELSE BatchSize
           batch == SubSeq(queue, 1, count)
<1>1. count \in 0..Len(queue)
  BY LenProperties DEF IInv
<1>2. batch \in Seq(MadeLines) /\ SubSeq(queue, count + 1, Len(queue)) \in Seq(MadeLines)
  BY <1>1, PopSplits DEF IInv
<1>3. ParserOK' /\ queue' \in Seq(MadeLines')
  BY <1>2 DEF Commit, IInv, ParserOK
<1>4. CASE \A i \in DOMAIN batch : InRange(batch[i])
  <2>1. written' = written \o batch /\ UNCHANGED given_up
    BY <1>2, <1>4, PackingKeeps DEF Commit, IInv
  <2>2. written' \in Seq(MadeLines)
    BY <1>2, <2>1, ConcatProperties DEF IInv
  <2>3. QED
    BY <1>3, <2>1, <2>2 DEF IInv, LostInBadCompany
<1>5. CASE ~ \A i \in DOMAIN batch : InRange(batch[i])
  <2>1. given_up' = given_up \cup {batch} /\ UNCHANGED written
    BY <1>5 DEF Commit
  <2>2. PICK i \in DOMAIN batch : ~ InRange(batch[i])
    BY <1>5
  <2>3. batch[i] \in MadeLines
    BY <1>2, LenProperties, ElementOfSeq
  <2>4. batch[i].time.at \in Int
    BY <2>3, MadeLineIs DEF IInv
  <2>5. batch[i].time.kind = "number" /\ batch[i].time.at > IntMax
    BY <2>2, <2>4, MicrosecondsStay DEF InRange
  <2>6. LostInBadCompany'
    BY <2>1, <2>5 DEF IInv, LostInBadCompany
  <2>7. QED
    BY <1>2, <1>3, <2>1, <2>6 DEF IInv
<1>6. QED
  BY <1>4, <1>5

LEMMA Invariant == Spec => []IInv
<1>1. IInv /\ [Next]_vars => IInv'
  <2> SUFFICES ASSUME IInv, [Next]_vars PROVE IInv'
    OBVIOUS
  <2>1. MadeLines' = MadeLines
    BY MessageStays
  <2>2. CASE Push
    BY <2>1, <2>2, PushInvariant
  <2>3. CASE Commit
    BY <2>1, <2>3, CommitInvariant
  <2>4. CASE Finish
    BY <2>1, <2>4 DEF Finish, IInv, ParserOK, LostInBadCompany
  <2>5. CASE UNCHANGED vars
    BY <2>1, <2>5 DEF vars, IInv, ParserOK, LostInBadCompany
  <2>6. QED
    BY <2>2, <2>3, <2>4, <2>5 DEF Next
<1>2. QED
  BY InitInvariant, <1>1, PTL DEF Spec

\* What holds of every line that may be made holds of those queued or written.
LEMMA MadeIs ==
  ASSUME IInv, NEW i \in DOMAIN Made
  PROVE  Made[i] \in MadeLines
<1>1. Made \in Seq(MadeLines)
  BY ConcatProperties DEF IInv, Made
<1>2. QED
  BY <1>1, LenProperties, ElementOfSeq

----------------------------------------------------------------------------
\* Whatever the records hold under their timestamp keys, every line that is
\* queued, written or given up has a field and an integer timestamp.
THEOREM LinesTypeCorrect == Spec => []TypeOK
<1>1. IInv => TypeOK
  <2> SUFFICES ASSUME IInv PROVE TypeOK
    OBVIOUS
  <2>1. \A i \in DOMAIN Made : LineType(Made[i])
    BY MadeIs, MadeLineIs DEF IInv
  <2>2. ASSUME NEW batch \in given_up, NEW i \in DOMAIN batch
        PROVE  LineType(batch[i])
    <3>1. batch \in Seq(MadeLines)
      BY DEF IInv
    <3>2. batch[i] \in MadeLines
      BY <3>1, LenProperties, ElementOfSeq
    <3>3. QED
      BY <3>2, MadeLineIs DEF IInv
  <2>3. QED
    BY <2>1, <2>2 DEF IInv, ParserOK, TypeOK
<1>2. QED
  BY Invariant, <1>1, PTL

\* However ragged the columns of a record are, its lines hold the values and the
\* timestamp of one position each.
THEOREM ColumnsStayAligned == Spec => []RowsAligned
<1>1. IInv => RowsAligned
  BY MadeIs, MadeLineIs DEF IInv, RowsAligned
<1>2. QED
  BY Invariant, <1>1, PTL

\* Lines of one record and one row are the same line, however many timestamp
\* keys the record has: its expansion does not depend on the key it is made for.
THEOREM CopiesAreOnePoint == Spec => []CopiesAgree
<1>1. IInv => CopiesAgree
  <2> SUFFICES ASSUME IInv, NEW i \in DOMAIN queue, NEW j \in DOMAIN queue,
                      queue[i].source = queue[j].source, queue[i].row = queue[j].row
               PROVE  queue[i] = queue[j]
    BY DEF CopiesAgree
  <2>1. queue[i] \in MadeLines /\ queue[j] \in MadeLines
    BY LenProperties, ElementOfSeq DEF IInv
  <2>2. \A line \in MadeLines : line = Line(line.source, line.row, Object(line.source, line.row))
    BY MadeLineIs DEF IInv
  <2>3. QED
    BY <2>1, <2>2
<1>2. QED
  BY Invariant, <1>1, PTL

\* A batch is given up in packing only if one of its timestamps is beyond the
\* greatest integer InfluxDB takes.
THEOREM BatchesLostInBadCompany == Spec => []LostInBadCompany
<1>1. IInv => LostInBadCompany
  BY DEF IInv
<1>2. QED
  BY Invariant, <1>1, PTL

\* For every timestamp, before 1970 too, and every unit, the conversion rounds
\* down and is off by less than a unit.
THEOREM UnitsRoundDown == Spec => []UnitsConvert
<1>1. IInv => UnitsConvert
  <2> SUFFICES ASSUME IInv, NEW i \in DOMAIN queue,
                      NEW precision \in Precisions \ {"unknown"}
               PROVE  LET nanos == queue[i].time.at * Micro
                          unit  == Factor[precision]
                          value == Normalized(queue[i].time.at, precision)
                      IN  value * unit <= nanos /\ nanos < (value + 1) * unit
    BY DEF UnitsConvert
  <2> DEFINE nanos == queue[i].time.at * Micro
             unit  == Factor[precision]
  <2>1. queue[i] \in MadeLines
    BY LenProperties, ElementOfSeq DEF IInv
  <2>2. queue[i].time.at \in Int
    BY <2>1, MadeLineIs DEF IInv
  <2>3. nanos \in Int
    BY <2>2
  <2>4. Normalized(queue[i].time.at, precision) = nanos \div unit
    BY DEF Normalized
  <2>5. unit \in Nat \ {0}
    BY FactorType
  <2> HIDE DEF nanos, unit
  <2>6. (nanos \div unit) * unit <= nanos /\ nanos < (nanos \div unit + 1) * unit
    BY <2>3, <2>5, DivisionBounds
  <2>7. QED
    BY <2>4, <2>6 DEF nanos, unit
<1>2. QED
  BY Invariant, <1>1, PTL
==============================================================================
