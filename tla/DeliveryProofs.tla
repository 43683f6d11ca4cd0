--------------------------- MODULE DeliveryProofs ---------------------------
(* Delivery keeps points in order and stores none twice.                   *)
EXTENDS Delivery, SequenceTheorems, TLAPS

----------------------------------------------------------------------------
(* The order of points.                                                    *)

NotAfter(p, q) == p = q \/ Before(p, q)

LEMMA BeforeTransitive ==
  ASSUME NEW p \in Point, NEW q \in Point, NEW r \in Point, NotAfter(p, q), Before(q, r)
  PROVE  Before(p, r)
  BY DEF NotAfter, Before, Point

----------------------------------------------------------------------------
(* Sequences in that order.                                                *)

\* A point later than all the others may be added at the end.
LEMMA IncreasingAppend ==
  ASSUME NEW s \in Seq(Point), NEW p \in Point, Increasing(s),
         \A i \in 1..Len(s) : Before(s[i], p)
  PROVE  Increasing(Append(s, p))
<1> DEFINE t == Append(s, p)
<1>1. Len(t) = Len(s) + 1 /\ t[Len(s) + 1] = p /\ \A i \in 1..Len(s) : t[i] = s[i]
  BY AppendProperties
<1>2. Len(s) \in Nat
  BY LenProperties
<1> HIDE DEF t
<1>3. ASSUME NEW i \in 1..Len(t), NEW j \in 1..Len(t), i < j PROVE Before(t[i], t[j])
  <2>1. i \in 1..Len(s) /\ t[i] = s[i]
    BY <1>1, <1>2, <1>3
  <2>2. CASE j = Len(s) + 1
    BY <1>1, <2>1, <2>2
  <2>3. CASE j \in 1..Len(s)
    BY <1>1, <1>3, <2>1, <2>3 DEF Increasing
  <2> QED BY <1>1, <1>2, <2>2, <2>3
<1> QED BY <1>3 DEF Increasing, t

\* Taking the first n points of t away leaves every other point of s and t at
\* a place of its own, in the same order.
Shift(s, n, i) == IF i <= Len(s) THEN i ELSE i + n

LEMMA SettleKeeps ==
  ASSUME NEW s \in Seq(Point), NEW t \in Seq(Point), NEW n \in 0..Len(t)
  PROVE  LET u == s \o SubSeq(t, n + 1, Len(t))
         IN  /\ u \in Seq(Point)
             /\ \A i \in 1..Len(u) : /\ Shift(s, n, i) \in 1..Len(s \o t)
                                     /\ u[i] = (s \o t)[Shift(s, n, i)]
<1> DEFINE r == SubSeq(t, n + 1, Len(t))
<1>1. Len(s) \in Nat /\ Len(t) \in Nat /\ n \in Nat /\ n <= Len(t)
  BY LenProperties
<1>2. \A i \in (n + 1)..Len(t) : t[i] \in Point
  BY <1>1, ElementOfSeq
<1>3. /\ r \in Seq(Point) /\ Len(r) = Len(t) - n
      /\ \A i \in 1..Len(t) - n : r[i] = t[n + i]
  <2>1. n + 1 \in Int /\ Len(t) \in Int
    BY <1>1
  <2>2. /\ r \in Seq(Point)
        /\ Len(r) = IF n + 1 <= Len(t) THEN Len(t) - (n + 1) + 1 ELSE 0
        /\ \A i \in 1..Len(t) - (n + 1) + 1 : r[i] = t[n + 1 + i - 1]
    BY <1>2, <2>1, SubSeqProperties
  <2>3. \A i \in 1..Len(t) - n : n + 1 + i - 1 = n + i /\ i \in 1..Len(t) - (n + 1) + 1
    BY <1>1
  <2>4. Len(r) = Len(t) - n
    BY <1>1, <2>2
  <2> QED BY <2>2, <2>3, <2>4
<1> HIDE DEF r
<1>4. /\ s \o r \in Seq(Point) /\ Len(s \o r) = Len(s) + Len(r)
      /\ \A i \in 1..Len(s) + Len(r) :
           (s \o r)[i] = IF i <= Len(s) THEN s[i] ELSE r[i - Len(s)]
  BY <1>3, ConcatProperties
<1>5. /\ Len(s \o t) = Len(s) + Len(t)
      /\ \A i \in 1..Len(s) + Len(t) :
           (s \o t)[i] = IF i <= Len(s) THEN s[i] ELSE t[i - Len(s)]
  BY ConcatProperties
<1>6. ASSUME NEW i \in 1..Len(s \o r)
      PROVE  /\ Shift(s, n, i) \in 1..Len(s \o t)
             /\ (s \o r)[i] = (s \o t)[Shift(s, n, i)]
  <2>1. CASE i <= Len(s)
    BY <1>1, <1>3, <1>4, <1>5, <2>1 DEF Shift
  <2>2. CASE i > Len(s)
    <3>1. i \in Nat /\ i <= Len(s) + Len(t) - n
      BY <1>1, <1>3, <1>4
    <3>2. Shift(s, n, i) = i + n /\ i + n \in 1..Len(s) + Len(t)
      BY <1>1, <2>2, <3>1 DEF Shift
    <3>3. (s \o r)[i] = r[i - Len(s)] /\ i - Len(s) \in 1..Len(t) - n
      BY <1>1, <1>3, <1>4, <2>2, <3>1
    <3>4. r[i - Len(s)] = t[n + (i - Len(s))]
      BY <1>3, <3>3
    <3>5. (s \o t)[i + n] = t[i + n - Len(s)] /\ i + n - Len(s) = n + (i - Len(s))
      BY <1>1, <1>5, <2>2, <3>1, <3>2
    <3> QED BY <1>5, <3>2, <3>3, <3>4, <3>5
  <2> QED BY <1>1, <2>1, <2>2
<1> QED BY <1>4, <1>6 DEF r

----------------------------------------------------------------------------
(* The specification.                                                      *)

\* Nothing in the store or waiting was made after the frontier: the strength
\* that lets a new point keep the order.
DeliveryInv ==
  /\ pending \in Seq(Point) /\ stored \in Seq(Point) /\ frontier \in Point
  /\ AtMostOnceInOrder
  /\ \A i \in 1..Len(stored \o pending) : NotAfter((stored \o pending)[i], frontier)

LEMMA DeliveryInit == Init => DeliveryInv
<1> SUFFICES ASSUME Init PROVE DeliveryInv
  OBVIOUS
<1>1. <<>> \in Seq(Point) /\ Len(<<>>) = 0 /\ <<>> \o <<>> = <<>>
  BY EmptySeq, ConcatEmptySeq
<1>2. frontier \in Point
  BY DEF Init, Point
<1>3. stored \o pending = <<>> /\ Len(stored \o pending) = 0
  BY <1>1 DEF Init
<1> QED
  BY <1>1, <1>2, <1>3 DEF Init, DeliveryInv, AtMostOnceInOrder, Increasing

LEMMA DeliveryStep == DeliveryInv /\ [Next]_delivery => DeliveryInv'
<1> SUFFICES ASSUME DeliveryInv, [Next]_delivery PROVE DeliveryInv'
  OBVIOUS
<1> DEFINE all == stored \o pending
<1>1. pending \in Seq(Point) /\ stored \in Seq(Point) /\ frontier \in Point
  BY DEF DeliveryInv
<1>2. all \in Seq(Point) /\ Increasing(all) /\ \A i \in 1..Len(all) : all[i] \in Point
  BY <1>1, ConcatProperties, ElementOfSeq DEF DeliveryInv, AtMostOnceInOrder
<1>3. \A i \in 1..Len(all) : NotAfter(all[i], frontier)
  BY DEF DeliveryInv
<1>4. ASSUME Advance
      PROVE  frontier' \in Point /\ \A i \in 1..Len(all) : Before(all[i], frontier')
  BY <1>1, <1>2, <1>3, <1>4, BeforeTransitive DEF Advance
<1>5. CASE Accept
  <2>1. /\ stored' = stored /\ pending' = Append(pending, frontier')
        /\ frontier' \in Point /\ \A i \in 1..Len(all) : Before(all[i], frontier')
    BY <1>4, <1>5 DEF Accept
  <2>2. stored' \o pending' = Append(all, frontier')
    <3>1. /\ pending' = pending \o <<frontier'>> /\ <<frontier'>> \in Seq(Point)
          /\ Append(all, frontier') = all \o <<frontier'>>
      BY <1>1, <1>2, <2>1, AppendIsConcat
    <3> QED BY <1>1, <2>1, <3>1, ConcatAssociative
  <2>3. pending' \in Seq(Point) /\ stored' \in Seq(Point)
    BY <1>1, <2>1, AppendProperties
  <2>4. Increasing(stored' \o pending')
    BY <1>2, <2>1, <2>2, IncreasingAppend
  <2>5. \A i \in 1..Len(Append(all, frontier')) : NotAfter(Append(all, frontier')[i], frontier')
    <3>1. /\ Len(all) \in Nat /\ Len(Append(all, frontier')) = Len(all) + 1
          /\ Append(all, frontier')[Len(all) + 1] = frontier'
          /\ \A i \in 1..Len(all) : Append(all, frontier')[i] = all[i]
      BY <1>2, <2>1, AppendProperties, LenProperties
    <3> QED BY <2>1, <3>1 DEF NotAfter
  <2> QED BY <2>1, <2>2, <2>3, <2>4, <2>5 DEF DeliveryInv, AtMostOnceInOrder
<1>6. CASE Skip
  <2>1. /\ stored' = stored /\ pending' = pending
        /\ frontier' \in Point /\ \A i \in 1..Len(all) : Before(all[i], frontier')
    BY <1>4, <1>6 DEF Skip
  <2> QED BY <1>1, <1>2, <2>1 DEF DeliveryInv, AtMostOnceInOrder, NotAfter
<1>7. ASSUME NEW n \in 1..BatchSize, n <= Len(pending), Settle(n) PROVE DeliveryInv'
  <2> DEFINE rest == SubSeq(pending, n + 1, Len(pending))
             kept == stored \o rest
  <2>1. n \in 0..Len(pending)
    BY <1>1, <1>7, LenProperties
  <2>2. /\ kept \in Seq(Point)
        /\ \A i \in 1..Len(kept) : /\ Shift(stored, n, i) \in 1..Len(all)
                                   /\ kept[i] = all[Shift(stored, n, i)]
    BY <1>1, <2>1, SettleKeeps
  <2>3. /\ SubSeq(pending, 1, n) \in Seq(Point) /\ rest \in Seq(Point)
        /\ SubSeq(pending, 1, n) \o rest = pending
    <3>1. /\ Len(pending) \in Nat /\ n \in Nat /\ n + 1 \in Int
          /\ \A i \in 1..Len(pending) : pending[i] \in Point
      BY <1>1, <2>1, LenProperties, ElementOfSeq
    <3>2. SubSeq(pending, 1, n) \in Seq(Point) /\ rest \in Seq(Point)
      BY <2>1, <3>1, SubSeqProperties
    <3>3. 1 \in 1..Len(pending) + 1 /\ n \in (1 - 1)..Len(pending) /\ Len(pending) \in n..Len(pending)
      BY <2>1, <3>1
    <3> QED BY <1>1, <3>2, <3>3, ConcatAdjacentSubSeq, SubSeqFull
  <2>4. frontier' = frontier /\ pending' = rest
    BY <1>7 DEF Settle
  <2>5. CASE stored' = stored
    <3>1. Increasing(kept)
      <4>1. \A i, j \in 1..Len(kept) : i < j => Shift(stored, n, i) < Shift(stored, n, j)
        BY <1>1, <2>1, <2>2, LenProperties DEF Shift
      <4> HIDE DEF kept, all
      <4> QED BY <1>2, <2>2, <4>1 DEF Increasing
    <3>2. \A i \in 1..Len(kept) : NotAfter(kept[i], frontier)
      BY <1>3, <2>2
    <3> QED BY <1>1, <2>3, <2>4, <2>5, <3>1, <3>2 DEF DeliveryInv, AtMostOnceInOrder
  <2>6. CASE stored' = stored \o SubSeq(pending, 1, n)
    <3>1. stored' \o pending' = all
      <4>1. \A h, r \in Seq(Point) : (stored \o h) \o r = stored \o (h \o r)
        BY <1>1, ConcatAssociative
      <4>2. (stored \o SubSeq(pending, 1, n)) \o rest = stored \o (SubSeq(pending, 1, n) \o rest)
        BY <2>3, <4>1
      <4> QED BY <2>3, <2>4, <2>6, <4>2
    <3>2. stored' \in Seq(Point)
      BY <1>1, <2>3, <2>6, ConcatProperties
    <3> QED BY <1>1, <1>2, <1>3, <2>3, <2>4, <3>1, <3>2 DEF DeliveryInv, AtMostOnceInOrder
  <2> QED BY <1>7, <2>5, <2>6 DEF Settle
<1>8. CASE UNCHANGED delivery
  BY <1>8 DEF delivery, DeliveryInv, AtMostOnceInOrder
<1> QED BY <1>5, <1>6, <1>7, <1>8 DEF Next

\* Whatever the batch size, no point is stored twice or out of order.
THEOREM DeliveryOrdered == Spec => []AtMostOnceInOrder
<1>1. DeliveryInv => AtMostOnceInOrder
  BY DEF DeliveryInv
<1> QED BY <1>1, DeliveryInit, DeliveryStep, PTL DEF Spec
=============================================================================
