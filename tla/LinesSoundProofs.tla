-------------------------- MODULE LinesSoundProofs --------------------------
(***************************************************************************)
(* The theorems about Lines that count: a sound record has its lines,      *)
(* whatever is wrong with the others, and so have the rows before the first*)
(* bad one.                                                                *)
(***************************************************************************)
EXTENDS LinesProofs, FiniteSetTheorems

----------------------------------------------------------------------------
(* The lines of a sound record.                                            *)

LEMMA PairSize ==
  ASSUME NEW a, NEW b
  PROVE  Cardinality({a, b}) = IF a = b THEN 1 ELSE 2
<1>1. IsFiniteSet({a}) /\ Cardinality({a}) = 1
  BY FS_Singleton
<1>2. CASE a = b
  BY <1>1, <1>2
<1>3. CASE a # b
  <2>1. Cardinality({a} \cup {b}) = Cardinality({a}) + 1
    BY <1>1, <1>3, FS_AddElement
  <2>2. {a} \cup {b} = {a, b}
    OBVIOUS
  <2>3. QED
    BY <1>1, <1>3, <2>1, <2>2
<1>4. QED
  BY <1>2, <1>3

LEMMA ConcatIs ==
  ASSUME NEW S, NEW s \in Seq(S), NEW t \in Seq(S)
  PROVE  /\ DOMAIN (s \o t) = 1..(Len(s) + Len(t))
         /\ \A i \in 1..(Len(s) + Len(t)) :
              (s \o t)[i] = IF i <= Len(s) THEN s[i] ELSE t[i - Len(s)]
BY ConcatProperties, LenProperties

\* from_object does not raise for numbers, and makes a line if there is a field.
LEMMA NumbersGiveLine ==
  ASSUME NEW object, AreTimes(object.stamps), DOMAIN object.fields # {},
         \A key \in DOMAIN object.stamps : object.stamps[key].kind = "number"
  PROVE  Outcome(object) = "line"
<1>1. Present(object.stamps) \subseteq Range(Keys)
  BY DEF Present, AreTimes
<1>2. TimestampOf(object.stamps).kind \in {"number", "now"}
  <2>1. CASE Present(object.stamps) = {}
    BY <2>1 DEF TimestampOf, Now
  <2>2. CASE Present(object.stamps) # {}
    <3>1. FirstKey(Present(object.stamps)) \in Present(object.stamps)
      BY <1>1, <2>2, FirstKeyIn
    <3>2. QED
      BY <2>2, <3>1 DEF TimestampOf, Present
  <2>3. QED
    BY <2>1, <2>2
<1>3. QED
  BY <1>2 DEF Outcome

LEMMA SoundRow ==
  ASSUME ParserOK, NEW n \in DOMAIN message, message[n].form = "row", Sound(message[n])
  PROVE  PushRow(n, WithAntenna(message[n]))
           = [lines |-> <<Line(n, 1, WithAntenna(message[n]))>>, raises |-> "none"]
<1> DEFINE record == message[n]
           object == WithAntenna(record)
<1>1. IsRecord(record)
  BY RecordIs
<1>2. object.stamps = record.stamps
  BY <1>1, AntennaKeeps
<1>3. AreTimes(object.stamps)
  BY <1>1, <1>2 DEF IsRecord, AreTimes
<1>4. /\ DOMAIN record.fields # {}
      /\ \A key \in DOMAIN record.stamps : record.stamps[key].kind = "number"
  BY DEF Sound, RowsOf, SoundAt
<1>5. DOMAIN object.fields # {}
  <2>1. DOMAIN record = {"form", "stamps", "fields", "in_list"}
    BY <1>1 DEF IsRecord
  <2>2. CASE antenna /\ record.in_list
    <3>1. object.fields = Update(record.fields, [antenna_name |-> "antenna"])
      BY <2>1, <2>2 DEF WithAntenna
    <3>2. QED
      BY <3>1 DEF Update
  <2>3. CASE ~ (antenna /\ record.in_list)
    BY <1>4, <2>3 DEF WithAntenna
  <2>4. QED
    BY <2>2, <2>3
<1>6. Outcome(object) = "line"
  BY <1>2, <1>3, <1>4, <1>5, NumbersGiveLine
<1>7. QED
  BY <1>6 DEF PushRow

LEMMA RowsAre ==
  ASSUME NEW record, IsRecord(record), record.form = "columnar", Expandable(record)
  PROVE  /\ DOMAIN Expand(record, "timestamp") = RowsOf(record)
         /\ \E len \in Nat : RowsOf(record) = 1..len
<1>1. DOMAIN Expand(record, "timestamp") = RowsOf(record)
  BY DEF Expand, RowsOf
<1>2. QED
  BY <1>1, ExpandType

\* A sound row of a columnar record has a value, and a number for its time.
LEMMA SoundRowLine ==
  ASSUME NEW record, IsRecord(record), record.form = "columnar", Expandable(record),
         NEW row \in RowsOf(record), SoundAt(record, row)
  PROVE  Outcome(Expand(record, "timestamp")[row]) = "line"
<1> DEFINE times  == TimeColumn(record).items
           object == Expand(record, "timestamp")[row]
<1>1. row \in DOMAIN times /\ row \in DOMAIN Expand(record, "timestamp")
  BY RowsAre DEF RowsOf
<1>2. AreTimes(object.stamps) /\ object.fields = Cells(record.columns, row)
  BY <1>1, ExpandType
<1>3. /\ times[row].kind = "number"
      /\ \A key \in DOMAIN record.inner :
           row <= Len(record.inner[key].items) => record.inner[key].items[row].kind = "number"
      /\ \E name \in DOMAIN record.columns :
           Listed(record.columns[name]) /\ row <= Len(record.columns[name].items)
  BY DEF SoundAt
<1>4. DOMAIN object.fields # {}
  BY <1>2, <1>3 DEF Cells
<1>5. object.stamps = Update([timestamp |-> times[row]], Cells(record.inner, row))
  BY <1>1 DEF Expand
<1>6. \A key \in DOMAIN Cells(record.inner, row) : Cells(record.inner, row)[key].kind = "number"
  BY <1>3 DEF Cells
<1>7. \A key \in DOMAIN object.stamps : object.stamps[key].kind = "number"
  BY <1>3, <1>5, <1>6 DEF Update
<1>8. QED
  BY <1>2, <1>4, <1>7, NumbersGiveLine

\* The rows of a record's expansion, and those that push hands on.
Once(n)    == [row \in RowsOf(message[n]) |-> <<row, Expand(message[n], "timestamp")[row]>>]
AllRows(n) == RowsFor(message[n], Keys[1]) \o RowsFor(message[n], Keys[2])

\* The expansion is handed on once for each timestamp key, at full length.
LEMMA RowsPushed ==
  ASSUME ParserOK, NEW n \in DOMAIN message, message[n].form = "columnar", Expandable(message[n])
  PROVE  /\ \E len \in Nat : RowsOf(message[n]) = 1..len /\ Len(Once(n)) = len
         /\ Once(n) \in Seq({Once(n)[row] : row \in RowsOf(message[n])})
         /\ \/ AllRows(n) = Once(n) /\ Copies(message[n]) = 1
            \/ AllRows(n) = Once(n) \o Once(n) /\ Copies(message[n]) = 2
<1> DEFINE record    == message[n]
           expansion == Expand(record, "timestamp")
           keys      == DOMAIN record.stamps
           S         == {Once(n)[row] : row \in RowsOf(record)}
<1>1. IsRecord(record)
  BY RecordIs
<1>2. Expandable(record)
  OBVIOUS
<1>3. PICK len \in Nat : RowsOf(record) = 1..len /\ DOMAIN expansion = 1..len
  BY <1>1, RowsAre
<1>4. Once(n) = [r \in 1..len |-> <<r, expansion[r]>>]
  BY <1>3 DEF Once
<1>5. Once(n) \in Seq(S) /\ Len(Once(n)) = len
  <2>1. \A r \in 1..len : <<r, expansion[r]>> \in S
    BY <1>3, <1>4
  <2>2. Once(n) \in Seq(S)
    BY <1>3, <1>4, <2>1, IsASeq
  <2>3. QED
    BY <1>3, <1>4, <2>2, LenProperties
<1>6. \A key : RowsFor(record, key) = IF key \in keys THEN Once(n) ELSE <<>>
  <2>1. \A key : Expand(record, key) = expansion
    BY <1>1, <1>2, ExpandType
  <2>2. ASSUME NEW key \in keys
        PROVE  RowsFor(record, key) = Once(n)
    <3>1. RowsFor(record, key)
            = [r \in DOMAIN Expand(record, key) |-> <<r, Expand(record, key)[r]>>]
      BY DEF RowsFor
    <3>2. QED
      BY <1>3, <1>4, <2>1, <3>1
  <2>3. \A key : key \notin keys => RowsFor(record, key) = <<>>
    BY DEF RowsFor
  <2>4. QED
    BY <2>2, <2>3
<1>7. keys \subseteq {Keys[1], Keys[2]} /\ keys # {} /\ Keys[1] # Keys[2]
  <2>1. Range(Keys) = {Keys[1], Keys[2]} /\ Keys[1] # Keys[2]
    BY DEF Keys, Range
  <2>2. QED
    BY <1>1, <1>2, <2>1 DEF IsRecord, AreStamps, Expandable
<1>8. \/ AllRows(n) = Once(n) /\ Copies(message[n]) = 1
      \/ AllRows(n) = Once(n) \o Once(n) /\ Copies(message[n]) = 2
  <2>1. Once(n) \o <<>> = Once(n) /\ <<>> \o Once(n) = Once(n)
    BY <1>5
  <2>2. CASE keys = {Keys[1]} \/ keys = {Keys[2]}
    <3>1. AllRows(n) = Once(n)
      BY <1>6, <1>7, <2>1, <2>2 DEF AllRows
    <3>2. Copies(message[n]) = 1
      BY <2>2, FS_Singleton DEF Copies
    <3>3. QED
      BY <3>1, <3>2
  <2>3. CASE keys = {Keys[1], Keys[2]}
    <3>1. AllRows(n) = Once(n) \o Once(n)
      BY <1>6, <2>3 DEF AllRows
    <3>2. Cardinality({Keys[1], Keys[2]}) = 2
      BY <1>7, PairSize, Zenon
    <3>3. QED
      BY <2>3, <3>1, <3>2 DEF Copies
  <2>4. QED
    BY <1>7, <2>2, <2>3
<1>9. RowsOf(record) = 1..len /\ Len(Once(n)) = len
  BY <1>3, <1>5
<1>10. QED
  BY <1>5, <1>8, <1>9, Zenon

LEMMA OutcomeOfRow ==
  ASSUME ParserOK, NEW n \in DOMAIN message, message[n].form = "columnar", Expandable(message[n]),
         NEW row \in RowsOf(message[n]), SoundAt(message[n], row)
  PROVE  Outcome(Once(n)[row][2]) = "line" /\ Once(n)[row][1] = row
<1>1. Once(n)[row] = <<row, Expand(message[n], "timestamp")[row]>>
  BY DEF Once
<1>2. Outcome(Expand(message[n], "timestamp")[row]) = "line"
  BY RecordIs, SoundRowLine
<1>3. QED
  BY <1>1, <1>2

\* None of them makes from_object raise.
LEMMA SoundColumnar ==
  ASSUME ParserOK, NEW n \in DOMAIN message, message[n].form = "columnar", Expandable(message[n]),
         Sound(message[n])
  PROVE  PushColumnar(n, message[n])
           = [lines  |-> [i \in DOMAIN AllRows(n) |-> Line(n, AllRows(n)[i][1], AllRows(n)[i][2])],
              raises |-> "none"]
<1> DEFINE S == {Once(n)[row] : row \in RowsOf(message[n])}
<1>1. Once(n) \in Seq(S) /\ (AllRows(n) = Once(n) \/ AllRows(n) = Once(n) \o Once(n))
  BY RowsPushed
<1>2. AllRows(n) \in Seq(S)
  BY <1>1, ConcatProperties
<1>3. \A i \in DOMAIN AllRows(n) : AllRows(n)[i] \in S
  BY <1>2, LenProperties, ElementOfSeq
<1>4. \A row \in RowsOf(message[n]) : Outcome(Once(n)[row][2]) = "line"
  BY OutcomeOfRow DEF Sound
<1>5. Bad(AllRows(n)) = {}
  BY <1>3, <1>4 DEF Bad
<1>6. QED
  BY <1>5 DEF PushColumnar, Good, AllRows

LEMMA SoundColumnarMakes ==
  ASSUME ParserOK, NEW n \in DOMAIN message, message[n].form = "columnar", Expandable(message[n]),
         Sound(message[n]), NEW row \in RowsOf(message[n])
  PROVE  LET lines == PushColumnar(n, message[n]).lines
         IN  \E a, b \in DOMAIN lines : /\ Places(lines, n, row) = {a, b}
                                        /\ Copies(message[n]) = IF a = b THEN 1 ELSE 2
<1> DEFINE lines == PushColumnar(n, message[n]).lines
<1> SUFFICES \E a, b \in DOMAIN lines : /\ Places(lines, n, row) = {a, b}
                                        /\ Copies(message[n]) = IF a = b THEN 1 ELSE 2
  OBVIOUS
<1>1. PICK len \in Nat : RowsOf(message[n]) = 1..len /\ Len(Once(n)) = len
  BY RowsPushed
<1>2. row \in 1..len
  BY <1>1
<1>3. PICK S : Once(n) \in Seq(S)
  BY RowsPushed
<1>4. DOMAIN Once(n) = 1..len /\ \A r \in 1..len : Once(n)[r][1] = r
  BY <1>1 DEF Once
<1>5. /\ DOMAIN lines = DOMAIN AllRows(n)
      /\ \A i \in DOMAIN AllRows(n) : lines[i].source = n /\ lines[i].row = AllRows(n)[i][1]
  BY SoundColumnar DEF Line
<1> HIDE DEF lines
<1>6. CASE AllRows(n) = Once(n) /\ Copies(message[n]) = 1
  <2>1. DOMAIN lines = 1..len /\ \A i \in 1..len : lines[i].source = n /\ lines[i].row = i
    BY <1>4, <1>5, <1>6
  <2>2. Places(lines, n, row) = {row, row}
    BY <1>2, <2>1 DEF Places
  <2>3. QED
    BY <1>2, <1>6, <2>1, <2>2
<1>7. CASE AllRows(n) = Once(n) \o Once(n) /\ Copies(message[n]) = 2
  <2>1. /\ DOMAIN AllRows(n) = 1..(len + len)
        /\ \A i \in 1..(len + len) :
             AllRows(n)[i] = IF i <= len THEN Once(n)[i] ELSE Once(n)[i - len]
    BY <1>1, <1>3, <1>7, ConcatIs
  <2>2. \A i \in 1..(len + len) : (IF i <= len THEN i ELSE i - len) \in 1..len
    OBVIOUS
  <2>3. \A i \in 1..(len + len) : AllRows(n)[i][1] = IF i <= len THEN i ELSE i - len
    BY <1>4, <2>1, <2>2
  <2>4. /\ DOMAIN lines = 1..(len + len)
        /\ \A i \in 1..(len + len) :
             lines[i].source = n /\ lines[i].row = IF i <= len THEN i ELSE i - len
    BY <1>5, <2>1, <2>3
  <2>5. \A i \in 1..(len + len) :
          (IF i <= len THEN i ELSE i - len) = row <=> i = row \/ i = row + len
    BY <1>2
  <2>6. row # row + len /\ row \in 1..(len + len) /\ row + len \in 1..(len + len)
    BY <1>2
  <2>7. Places(lines, n, row) = {row, row + len}
    BY <2>4, <2>5, <2>6 DEF Places
  <2>8. QED
    BY <1>7, <2>4, <2>6, <2>7
<1>8. QED
  BY <1>6, <1>7, RowsPushed

\* Once in the lines of a row, as often as there are timestamp keys in those of
\* a columnar record.
LEMMA SoundMakes ==
  ASSUME ParserOK, NEW n \in DOMAIN message, Sound(message[n]), NEW row \in RowsOf(message[n])
  PROVE  LET lines == PushResult(n, WithAntenna(message[n])).lines
         IN  \E a, b \in DOMAIN lines : /\ Places(lines, n, row) = {a, b}
                                        /\ Copies(message[n]) = IF a = b THEN 1 ELSE 2
<1> DEFINE record == message[n]
           lines  == PushResult(n, WithAntenna(record)).lines
<1>1. /\ IsRecord(record)
      /\ record.form = "row" \/ (record.form = "columnar" /\ Expandable(record))
  BY RecordIs DEF RowsOf
<1>2. CASE record.form = "row"
  <2>1. lines = <<Line(n, 1, WithAntenna(record))>>
    BY <1>1, <1>2, AntennaKeeps, SoundRow DEF PushResult
  <2>2. /\ DOMAIN lines = {1} /\ lines[1].source = n /\ lines[1].row = 1
        /\ row = 1 /\ Copies(message[n]) = 1
    BY <1>2, <2>1 DEF Line, RowsOf, Copies
  <2>3. Places(lines, n, row) = {1, 1}
    BY <2>2 DEF Places
  <2>4. QED
    BY <2>2, <2>3
<1>3. CASE record.form = "columnar"
  <2>1. lines = PushColumnar(n, record).lines
    BY <1>1, <1>3, AntennaKeeps DEF PushResult
  <2>2. Expandable(record)
    BY <1>1, <1>3
  <2>3. \E a, b \in DOMAIN lines : /\ Places(lines, n, row) = {a, b}
                                   /\ Copies(message[n]) = IF a = b THEN 1 ELSE 2
    BY <1>3, <2>1, <2>2, SoundColumnarMakes, Zenon
  <2>4. QED
    BY <2>3
<1>4. QED
  BY <1>1, <1>2, <1>3

\* What comes before the first bad row is handed on.
LEMMA GoodBegins ==
  ASSUME NEW S, NEW rows \in Seq(S), NEW row \in 1..Len(rows),
         \A i \in 1..row : Outcome(rows[i][2]) = "line"
  PROVE  row \in DOMAIN Good(rows) /\ Good(rows)[row] = rows[row]
<1>1. Len(rows) \in Nat /\ DOMAIN rows = 1..Len(rows) /\ \A i \in 1..Len(rows) : rows[i] \in S
  BY LenProperties, ElementOfSeq
<1>2. CASE Bad(rows) = {}
  BY <1>1, <1>2 DEF Good
<1>3. CASE Bad(rows) # {}
  <2> DEFINE first == Min(Bad(rows))
             good  == SubSeq(rows, 1, first - 1)
  <2>1. first \in Bad(rows)
    <3>1. Bad(rows) \subseteq Nat
      BY <1>1 DEF Bad
    <3>2. QED
      BY <1>3, <3>1, LeastIndex
  <2>2. first \in 1..Len(rows) /\ ~ Outcome(rows[first][2]) = "line"
    BY <1>1, <2>1 DEF Bad
  <2>3. first \notin 1..row
    BY <2>2
  <2> HIDE DEF first
  <2>4. row \in 1..(first - 1)
    BY <1>1, <2>2, <2>3
  <2>5. first - 1 \in Int /\ \A i \in 1..(first - 1) : rows[i] \in S
    BY <1>1, <2>2
  <2>6. /\ good \in Seq(S) /\ Len(good) = first - 1
        /\ \A i \in 1..(first - 1) : good[i] = rows[i]
    <3>1. /\ good \in Seq(S)
          /\ Len(good) = IF 1 <= first - 1 THEN first - 1 - 1 + 1 ELSE 0
          /\ \A i \in 1..(first - 1) - 1 + 1 : good[i] = rows[1 + i - 1]
      BY <2>5, SubSeqProperties
    <3>2. QED
      BY <2>2, <3>1
  <2>7. DOMAIN good = 1..(first - 1)
    BY <2>6, LenProperties
  <2>8. Good(rows) = good
    BY <1>3 DEF Good, first
  <2> HIDE DEF good
  <2>9. QED
    BY <2>4, <2>6, <2>7, <2>8
<1>4. QED
  BY <1>2, <1>3

\* The rows before the first bad one have lines.
LEMMA PrefixMakes ==
  ASSUME ParserOK, NEW n \in DOMAIN message, NEW row \in SoundRows(message[n]),
         message[n].form = "columnar", Expandable(message[n])
  PROVE  Places(PushColumnar(n, message[n]).lines, n, row) # {}
<1> DEFINE S     == {Once(n)[r] : r \in RowsOf(message[n])}
           rows  == AllRows(n)
           lines == PushColumnar(n, message[n]).lines
<1>1. PICK len \in Nat : RowsOf(message[n]) = 1..len /\ Len(Once(n)) = len
  BY RowsPushed
<1>2. /\ Once(n) \in Seq(S)
      /\ rows = Once(n) \/ rows = Once(n) \o Once(n)
  BY RowsPushed
<1> HIDE DEF S
<1>3. row \in 1..len /\ \A r \in 1..row : r \in RowsOf(message[n]) /\ SoundAt(message[n], r)
  BY <1>1 DEF SoundRows
<1>4. rows \in Seq(S) /\ row \in 1..Len(rows) /\ \A r \in 1..row : rows[r] = Once(n)[r]
  <2>1. CASE rows = Once(n)
    BY <1>1, <1>2, <1>3, <2>1
  <2>2. CASE rows = Once(n) \o Once(n)
    <3>1. rows \in Seq(S) /\ Len(rows) = len + len
      BY <1>1, <1>2, <2>2, ConcatProperties
    <3>2. \A r \in 1..(len + len) :
            rows[r] = IF r <= len THEN Once(n)[r] ELSE Once(n)[r - len]
      BY <1>1, <1>2, <2>2, ConcatIs
    <3> HIDE DEF rows
    <3>3. QED
      BY <1>1, <1>3, <3>1, <3>2
  <2>3. QED
    BY <1>2, <2>1, <2>2
<1>5. \A r \in 1..row : Outcome(rows[r][2]) = "line"
  <2>1. \A r \in 1..row : Outcome(Once(n)[r][2]) = "line"
    BY <1>3, OutcomeOfRow
  <2>2. QED
    BY <1>4, <2>1
<1>6. row \in DOMAIN Good(rows) /\ Good(rows)[row] = rows[row]
  BY <1>4, <1>5, GoodBegins
<1>7. rows[row][1] = row
  <2>1. Once(n)[row][1] = row
    BY <1>3, OutcomeOfRow
  <2>2. row \in 1..row
    BY <1>1, <1>3
  <2>3. QED
    BY <1>4, <2>1, <2>2
<1>8. lines = [i \in DOMAIN Good(rows) |-> Line(n, Good(rows)[i][1], Good(rows)[i][2])]
  BY DEF PushColumnar, AllRows
<1>9. row \in DOMAIN lines /\ lines[row].source = n /\ lines[row].row = row
  BY <1>6, <1>7, <1>8 DEF Line
<1>10. QED
  BY <1>9 DEF Places

\* Whatever the form of the record.
LEMMA SomeMade ==
  ASSUME ParserOK, NEW n \in DOMAIN message, NEW row \in SoundRows(message[n])
  PROVE  Places(PushResult(n, WithAntenna(message[n])).lines, n, row) # {}
<1> DEFINE record == message[n]
           lines  == PushResult(n, WithAntenna(record)).lines
<1>1. /\ IsRecord(record) /\ row \in RowsOf(record)
      /\ record.form = "row" \/ (record.form = "columnar" /\ Expandable(record))
  BY RecordIs DEF RowsOf, SoundRows
<1>2. CASE record.form = "row"
  <2>1. row = 1 /\ RowsOf(record) = {1} /\ SoundAt(record, 1)
    BY <1>2 DEF RowsOf, SoundRows
  <2>2. Sound(record)
    BY <2>1 DEF Sound
  <2>3. PICK a \in DOMAIN lines : a \in Places(lines, n, row)
    BY <1>1, <2>2, SoundMakes, Zenon
  <2>4. QED
    BY <2>3
<1>3. CASE record.form = "columnar"
  <2>1. lines = PushColumnar(n, record).lines
    BY <1>1, <1>3, AntennaKeeps DEF PushResult
  <2>2. QED
    BY <1>1, <1>3, <2>1, PrefixMakes
<1>4. QED
  BY <1>1, <1>2, <1>3

\* push does not raise for a sound record.
LEMMA SoundRaisesNothing ==
  ASSUME ParserOK, NEW n \in DOMAIN message, Sound(message[n])
  PROVE  PushResult(n, WithAntenna(message[n])).raises = "none"
<1> DEFINE record == message[n]
<1>1. IsRecord(record)
  BY RecordIs
<1>2. CASE record.form = "row"
  BY <1>1, <1>2, AntennaKeeps, SoundRow DEF PushResult
<1>3. CASE record.form = "columnar" /\ Expandable(record)
  <2>1. PushResult(n, WithAntenna(record)) = PushColumnar(n, record)
    BY <1>1, <1>3, AntennaKeeps DEF PushResult
  <2>2. QED
    BY <1>3, <2>1, SoundColumnar
<1>4. CASE record.form # "row" /\ ~ (record.form = "columnar" /\ Expandable(record))
  BY <1>1, <1>4, AntennaKeeps DEF PushResult, Nothing
<1>5. QED
  BY <1>2, <1>3, <1>4

----------------------------------------------------------------------------
(* Counting the lines of the queue.                                        *)

\* Lines of other records do not count.
LEMMA CountKept ==
  ASSUME NEW S, NEW q \in Seq(S), NEW lines \in Seq(S), NEW n, NEW row,
         \A i \in DOMAIN lines : lines[i].source # n
  PROVE  Places(q \o lines, n, row) = Places(q, n, row)
<1>1. /\ Len(q) \in Nat /\ Len(lines) \in Nat
      /\ DOMAIN q = 1..Len(q) /\ DOMAIN lines = 1..Len(lines)
  BY LenProperties
<1>2. /\ DOMAIN (q \o lines) = 1..(Len(q) + Len(lines))
      /\ \A i \in 1..(Len(q) + Len(lines)) :
           (q \o lines)[i] = IF i <= Len(q) THEN q[i] ELSE lines[i - Len(q)]
  BY ConcatIs
<1>3. \A i \in 1..(Len(q) + Len(lines)) : i \in 1..Len(q) \/ i - Len(q) \in 1..Len(lines)
  BY <1>1
<1>4. QED
  BY <1>1, <1>2, <1>3 DEF Places

LEMMA CountNew ==
  ASSUME NEW S, NEW q \in Seq(S), NEW lines \in Seq(S), NEW n, NEW row,
         \A i \in DOMAIN q : q[i].source # n,
         NEW a \in DOMAIN lines, NEW b \in DOMAIN lines, Places(lines, n, row) = {a, b}
  PROVE  Cardinality(Places(q \o lines, n, row)) = IF a = b THEN 1 ELSE 2
<1>1. /\ Len(q) \in Nat /\ Len(lines) \in Nat
      /\ DOMAIN q = 1..Len(q) /\ DOMAIN lines = 1..Len(lines)
  BY LenProperties
<1>2. /\ DOMAIN (q \o lines) = 1..(Len(q) + Len(lines))
      /\ \A i \in 1..(Len(q) + Len(lines)) :
           (q \o lines)[i] = IF i <= Len(q) THEN q[i] ELSE lines[i - Len(q)]
  BY ConcatIs
<1>3. \A i \in 1..Len(q) : i \in DOMAIN (q \o lines) /\ (q \o lines)[i].source # n
  BY <1>1, <1>2
<1>4. \A j \in 1..Len(lines) : /\ Len(q) + j \in DOMAIN (q \o lines)
                               /\ (q \o lines)[Len(q) + j] = lines[j]
  BY <1>1, <1>2
<1>5. \A i \in DOMAIN (q \o lines) :
        i \in 1..Len(q) \/ \E j \in 1..Len(lines) : i = Len(q) + j
  <2> SUFFICES ASSUME NEW i \in 1..(Len(q) + Len(lines)), i \notin 1..Len(q)
               PROVE  i - Len(q) \in 1..Len(lines) /\ i = Len(q) + (i - Len(q))
    BY <1>2
  <2>1. QED
    BY <1>1
<1>6. Places(q \o lines, n, row) = {Len(q) + j : j \in Places(lines, n, row)}
  BY <1>1, <1>3, <1>4, <1>5 DEF Places
<1>7. Places(q \o lines, n, row) = {Len(q) + a, Len(q) + b}
  BY <1>6
<1>8. Len(q) + a = Len(q) + b <=> a = b
  BY <1>1
<1>9. Cardinality({Len(q) + a, Len(q) + b}) = IF Len(q) + a = Len(q) + b THEN 1 ELSE 2
  BY PairSize
<1>10. QED
  BY <1>7, <1>8, <1>9

LEMMA CountSome ==
  ASSUME NEW S, NEW q \in Seq(S), NEW lines \in Seq(S), NEW n, NEW row,
         Places(lines, n, row) # {}
  PROVE  Cardinality(Places(q \o lines, n, row)) >= 1
<1>1. /\ Len(q) \in Nat /\ Len(lines) \in Nat /\ DOMAIN lines = 1..Len(lines)
  BY LenProperties
<1>2. /\ DOMAIN (q \o lines) = 1..(Len(q) + Len(lines))
      /\ \A i \in 1..(Len(q) + Len(lines)) :
           (q \o lines)[i] = IF i <= Len(q) THEN q[i] ELSE lines[i - Len(q)]
  BY ConcatIs
<1>3. PICK j \in 1..Len(lines) : lines[j].source = n /\ lines[j].row = row
  BY <1>1 DEF Places
<1>4. Len(q) + j \in 1..(Len(q) + Len(lines)) /\ (q \o lines)[Len(q) + j] = lines[j]
  BY <1>1, <1>2
<1>5. Len(q) + j \in Places(q \o lines, n, row)
  BY <1>2, <1>3, <1>4 DEF Places
<1>6. IsFiniteSet(Places(q \o lines, n, row))
  <2>1. IsFiniteSet(1..(Len(q) + Len(lines)))
    BY <1>1, FS_Interval
  <2>2. Places(q \o lines, n, row) \in SUBSET (1..(Len(q) + Len(lines)))
    BY <1>2 DEF Places
  <2>3. QED
    BY <2>1, <2>2, FS_Subset
<1>7. /\ Cardinality(Places(q \o lines, n, row)) \in Nat
      /\ Cardinality(Places(q \o lines, n, row)) # 0
  BY <1>5, <1>6, FS_CardinalityType, FS_EmptySet
<1>8. QED
  BY <1>7

----------------------------------------------------------------------------
(* The invariant.                                                          *)

CountedIn(lines, n, row) ==
  IF Sound(message[n]) THEN Cardinality(Places(lines, n, row)) = Copies(message[n])
  ELSE Cardinality(Places(lines, n, row)) >= 1

Counted ==
  \A n \in DOMAIN message : n < next =>
    \A row \in SoundRows(message[n]) : CountedIn(queue, n, row)

\* The lines queued are of records pushed so far, and as long as none has been
\* committed those of the sound rows are there in number.
SoundInv ==
  /\ \A i \in DOMAIN queue : queue[i].source < next
  /\ written = <<>> /\ given_up = {} => Counted

LEMMA SoundInit == Init => SoundInv
<1> SUFFICES ASSUME Init PROVE SoundInv
  OBVIOUS
<1>1. DOMAIN message \subseteq Nat \ {0}
  BY MessagesAssumption DEF Init
<1>2. QED
  BY <1>1 DEF Init, SoundInv, Counted

LEMMA SoundPush ==
  ASSUME IInv, SoundInv, Push
  PROVE  SoundInv'
<1> DEFINE lines == PushResult(next, WithAntenna(message[next])).lines
<1>1. next \in DOMAIN message /\ next \in Nat /\ DOMAIN message = 1..Len(message)
  BY MessagesAssumption DEF Push, IInv, ParserOK
<1>2. lines \in Seq(LinesOf(next)) /\ lines \in Seq(MadeLines)
  BY <1>1, PushMakes DEF IInv
<1>3. \A i \in DOMAIN lines : lines[i].source = next
  <2>1. \A line \in LinesOf(next) : line.source = next
    BY DEF LinesOf, Line
  <2>2. QED
    BY <1>2, <2>1, LenProperties, ElementOfSeq
<1> HIDE DEF lines
<1>4. queue \in Seq(MadeLines) /\ \A i \in DOMAIN queue : queue[i].source < next
  BY DEF IInv, SoundInv
<1>5. /\ queue' = queue \o lines /\ next' = next + 1
      /\ UNCHANGED <<message, antenna, written, given_up>>
      /\ parser' # "parsed"
  BY DEF Push, lines
<1>6. \A i \in DOMAIN queue' : queue'[i].source < next'
  <2>1. /\ Len(queue) \in Nat /\ Len(lines) \in Nat
        /\ DOMAIN queue = 1..Len(queue) /\ DOMAIN lines = 1..Len(lines)
    BY <1>2, <1>4, LenProperties
  <2>2. /\ DOMAIN queue' = 1..(Len(queue) + Len(lines))
        /\ \A i \in 1..(Len(queue) + Len(lines)) :
             queue'[i] = IF i <= Len(queue) THEN queue[i] ELSE lines[i - Len(queue)]
    BY <1>2, <1>4, <1>5, ConcatIs
  <2>3. \A i \in DOMAIN queue : queue[i].source \in DOMAIN message
    BY <1>4, MadeLineIs, LenProperties, ElementOfSeq DEF IInv, LineType
  <2>4. \A i \in 1..(Len(queue) + Len(lines)) :
          i \in DOMAIN queue \/ (~ i <= Len(queue) /\ i - Len(queue) \in DOMAIN lines)
    BY <2>1
  <2>5. \A i \in DOMAIN queue : i <= Len(queue)
    BY <2>1
  <2>6. \A i \in DOMAIN queue' : queue'[i].source = next \/
          (queue'[i].source \in DOMAIN message /\ queue'[i].source < next)
    BY <1>3, <1>4, <2>2, <2>3, <2>4, <2>5
  <2>7. \A k \in DOMAIN message : k < next => k < next + 1
    BY <1>1
  <2>8. next < next + 1
    BY <1>1
  <2>9. QED
    BY <1>5, <2>6, <2>7, <2>8, Zenon
<1>7. ASSUME written = <<>>, given_up = {},
             NEW n \in DOMAIN message, n < next + 1, NEW row \in SoundRows(message[n])
      PROVE  CountedIn(queue \o lines, n, row)
  <2>1. CASE n = next /\ Sound(message[n])
    <3>1. PICK a, b \in DOMAIN lines : /\ Places(lines, n, row) = {a, b}
                                      /\ Copies(message[n]) = IF a = b THEN 1 ELSE 2
      <4>1. row \in RowsOf(message[n])
        BY DEF SoundRows
      <4>2. ParserOK
        BY DEF IInv
      <4>3. lines = PushResult(n, WithAntenna(message[n])).lines
        BY <2>1 DEF lines
      <4>4. LET of == PushResult(n, WithAntenna(message[n])).lines
            IN  \E a, b \in DOMAIN of : /\ Places(of, n, row) = {a, b}
                                        /\ Copies(message[n]) = IF a = b THEN 1 ELSE 2
        BY <2>1, <4>1, <4>2, SoundMakes, Zenon
      <4>5. QED
        BY <4>3, <4>4, Zenon
    <3>2. \A i \in DOMAIN queue : queue[i].source # n
      <4>1. \A i \in DOMAIN queue : queue[i].source \in DOMAIN message
        BY <1>4, MadeLineIs, LenProperties, ElementOfSeq DEF IInv, LineType
      <4>2. QED
        BY <1>1, <1>4, <2>1, <4>1
    <3>3. Cardinality(Places(queue \o lines, n, row)) = Copies(message[n])
      BY <1>2, <1>4, <3>1, <3>2, CountNew
    <3>4. QED
      BY <2>1, <3>3, Zenon DEF CountedIn
  <2>2. CASE n = next /\ ~ Sound(message[n])
    <3>1. Places(lines, n, row) # {}
      BY <2>2, SomeMade DEF IInv, lines
    <3>2. Cardinality(Places(queue \o lines, n, row)) >= 1
      BY <1>2, <1>4, <3>1, CountSome
    <3>3. QED
      BY <2>2, <3>2, Zenon DEF CountedIn
  <2>3. CASE n # next
    <3>1. Places(queue \o lines, n, row) = Places(queue, n, row)
      BY <1>2, <1>3, <1>4, <2>3, CountKept
    <3>2. n < next
      BY <1>1, <1>7, <2>3
    <3>3. CountedIn(queue, n, row)
      BY <1>7, <3>2 DEF SoundInv, Counted
    <3>4. QED
      BY <3>1, <3>3, Zenon DEF CountedIn
  <2>4. QED
    BY <2>1, <2>2, <2>3
<1>8. written' = <<>> /\ given_up' = {} => Counted'
  <2>1. message' = message /\ next' = next + 1 /\ queue' = queue \o lines
    BY <1>5
  <2>2. \A n, row : CountedIn(queue, n, row)' <=> CountedIn(queue \o lines, n, row)
    BY <2>1 DEF CountedIn, Places, Copies
  <2>3. ASSUME written' = <<>>, given_up' = {},
               NEW n \in DOMAIN message, n < next + 1, NEW row \in SoundRows(message[n])
        PROVE  CountedIn(queue, n, row)'
    BY <1>5, <1>7, <2>2, <2>3
  <2>4. QED
    BY <2>1, <2>3 DEF Counted
<1>9. QED
  BY <1>5, <1>6, <1>8 DEF SoundInv

\* A batch is not empty: what is popped is found in written or in given_up.
LEMMA SoundCommit ==
  ASSUME IInv, SoundInv, Commit
  PROVE  SoundInv'
<1> DEFINE count == IF Len(queue) < BatchSize THEN Len(queue) ELSE BatchSize
           batch == SubSeq(queue, 1, count)
<1>1. Len(queue) \in Nat \ {0} /\ DOMAIN queue = 1..Len(queue)
  BY LenProperties, EmptySeq DEF Commit, IInv
<1>2. count \in 1..Len(queue)
  <2>1. BatchSize \in Nat \ {0}
    BY LinesAssumption
  <2>2. QED
    BY <1>1, <2>1
<1>3. batch \in Seq(MadeLines) /\ batch # <<>>
  <2>1. batch \in Seq(MadeLines)
    BY <1>1, <1>2, PopSplits DEF IInv
  <2>2. Len(batch) = count
    BY <1>1, <1>2, SubSeqProperties
  <2>3. QED
    BY <1>2, <2>1, <2>2, EmptySeq
<1>4. \A i \in DOMAIN queue' : queue'[i].source < next
  <2>1. queue' = SubSeq(queue, count + 1, Len(queue))
    BY DEF Commit
  <2>2. /\ DOMAIN queue' = 1..(Len(queue) - count)
        /\ \A i \in 1..(Len(queue) - count) : queue'[i] = queue[count + i]
    BY <1>1, <1>2, <2>1
  <2>3. QED
    BY <1>1, <1>2, <2>2 DEF SoundInv
<1>5. ~ (written' = <<>> /\ given_up' = {})
  <2>1. CASE \A i \in DOMAIN batch : InRange(batch[i])
    <3>1. written' = written \o batch
      BY <1>3, <2>1, PackingKeeps DEF Commit, IInv
    <3>2. QED
      BY <1>3, <3>1, ConcatProperties, EmptySeq, LenProperties DEF IInv
  <2>2. CASE ~ \A i \in DOMAIN batch : InRange(batch[i])
    BY <2>2 DEF Commit
  <2>3. QED
    BY <2>1, <2>2
<1>6. UNCHANGED <<message, next, parser>>
  BY DEF Commit
<1>7. QED
  BY <1>4, <1>5, <1>6 DEF SoundInv

LEMMA SoundNext == IInv /\ SoundInv /\ [Next]_vars => SoundInv'
<1> SUFFICES ASSUME IInv, SoundInv, [Next]_vars PROVE SoundInv'
  OBVIOUS
<1>1. CASE Push
  BY <1>1, SoundPush
<1>2. CASE Commit
  BY <1>2, SoundCommit
<1>3. CASE Finish
  BY <1>3 DEF Finish, SoundInv, Counted, CountedIn, Copies, Places
<1>4. CASE UNCHANGED vars
  BY <1>4 DEF vars, SoundInv, Counted, CountedIn, Copies, Places
<1>5. QED
  BY <1>1, <1>2, <1>3, <1>4 DEF Next

----------------------------------------------------------------------------
\* Whatever is wrong with the other records of a message, a record that was
\* pushed has its lines: the rows before the first bad one are queued, and if no
\* row is bad each as often as the record has timestamp keys.
THEOREM SoundRowsAreMade == Spec => []SoundRowsMade
<1>1. IInv /\ SoundInv => SoundRowsMade
  <2> SUFFICES ASSUME IInv, SoundInv, written = <<>>, given_up = {},
                      NEW n \in 1..(next - 1), NEW row \in SoundRows(message[n])
               PROVE  CountedIn(queue, n, row)
    BY DEF SoundRowsMade, CountedIn
  <2>1. n \in DOMAIN message /\ n < next
    BY MessagesAssumption DEF IInv, ParserOK
  <2>2. QED
    BY <2>1 DEF SoundInv, Counted
<1>2. QED
  BY Invariant, SoundInit, SoundNext, <1>1, PTL DEF Spec

\* The record that ended the parser thread, when there is one.
DiesOfARecord ==
  parser = "died" => next - 1 \in DOMAIN message /\ ~ Sound(message[next - 1])

\* The parser thread outlives every message whose records are sound: what
\* Pipeline allows for the messages of Poison takes a record with something
\* wrong with it, the one pushed last.
THEOREM SoundMessagesSurvived == Spec => []DiesOfARecord
<1>1. Init => DiesOfARecord
  BY DEF Init, DiesOfARecord
<1>2. IInv /\ DiesOfARecord /\ [Next]_vars => DiesOfARecord'
  <2> SUFFICES ASSUME IInv, DiesOfARecord, [Next]_vars PROVE DiesOfARecord'
    OBVIOUS
  <2>1. CASE Push
    <3> DEFINE raises == PushResult(next, WithAntenna(message[next])).raises
    <3>1. next \in DOMAIN message /\ next \in Nat
      BY <2>1, MessagesAssumption DEF Push, IInv, ParserOK
    <3>2. Sound(message[next]) => raises = "none"
      BY <3>1, SoundRaisesNothing DEF IInv
    <3>3. parser' = "died" => ~ raises \in {"none", "ValueError"}
      BY <2>1 DEF Push
    <3>4. next' - 1 = next /\ message' = message
      BY <2>1, <3>1 DEF Push
    <3> HIDE DEF raises
    <3>5. QED
      BY <3>1, <3>2, <3>3, <3>4 DEF DiesOfARecord
  <2>2. CASE Finish
    BY <2>2 DEF Finish, DiesOfARecord
  <2>3. CASE Commit
    BY <2>3 DEF Commit, DiesOfARecord
  <2>4. CASE UNCHANGED vars
    BY <2>4 DEF vars, DiesOfARecord
  <2>5. QED
    BY <2>1, <2>2, <2>3, <2>4 DEF Next
<1>3. QED
  BY Invariant, <1>1, <1>2, PTL DEF Spec
=============================================================================
