------------------------------ MODULE MC_Lines ------------------------------
(***************************************************************************)
(* Instance of Lines: a record of each kind that push tells apart, alone   *)
(* and followed by another.                                                *)
(***************************************************************************)
EXTENDS Lines

Number(n) == [kind |-> "number", at |-> n]
Odd       == { [kind |-> kind, at |-> 0] : kind \in StampKinds \ {"number"} }

KeySets == SUBSET {"inner_timestamp", "timestamp"}

\* Rows: any of the keys with a number in range, at the limit, beyond it, or
\* none; with a field or without; in a list or alone.
RowRecords ==
  { [form |-> "row", stamps |-> stamps, fields |-> fields, in_list |-> in_list] :
      stamps \in UNION { [keys -> Odd \cup {Number(n) : n \in {5, IntMax, IntMax + 1}}] :
                           keys \in KeySets },
      fields \in { <<>>, [a |-> "a1"] }, in_list \in BOOLEAN }

List(items)    == [form |-> "list", items |-> items]
Wrapped(items) == [form |-> "wrapped", items |-> items]
Scalar         == [form |-> "scalar", items |-> <<>>]

TimeColumns ==
  { Scalar, List(<<>>), Wrapped(<<Number(3), Number(4)>>), List(<<Number(5), Number(6)>>) }
    \cup { List(<<Number(7), stamp>>) : stamp \in Odd }

ColumnSets ==
  { <<>>, [a |-> Scalar], [a |-> List(<<"a1">>)], [a |-> Wrapped(<<"a1", "a2">>)],
    [a |-> List(<<"a1">>), b |-> List(<<"b1", "b2", "b3">>)] }

InnerSets ==
  { <<>>, [inner_timestamp |-> List(<<Number(8), Number(9)>>)],
    [timestamp |-> List(<<Number(8), [kind |-> "null", at |-> 0]>>)] }

ColumnarRecords ==
  { [form |-> "columnar", stamps |-> stamps, inner |-> inner, columns |-> columns,
     valid |-> valid] :
      stamps \in UNION { [keys -> TimeColumns] : keys \in KeySets },
      inner \in InnerSets, columns \in ColumnSets, valid \in BOOLEAN }

Other == [form |-> "other"]

\* Records that follow another one, or are followed by one.
Sample ==
  { r \in RowRecords : DOMAIN r.stamps = {"timestamp"} /\ r.in_list }
    \cup { r \in ColumnarRecords : /\ r.valid /\ r.inner = <<>> /\ r.columns # <<>>
                                   /\ DOMAIN r.stamps = {"timestamp"} }
    \cup {Other}

MCMessages == { <<r>> : r \in RowRecords \cup ColumnarRecords }
                \cup { <<r, s>> : r \in Sample, s \in Sample }
=============================================================================
