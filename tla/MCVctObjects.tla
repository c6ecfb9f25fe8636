---------------------------- MODULE MCVctObjects ----------------------------
(***************************************************************************)
(* VctObjects with inputs that another build may have written.             *)
(***************************************************************************)
EXTENDS VctObjects, TLC

CONSTANTS k

ASSUME MCAssumption == k \in Strings

-----------------------------------------------------------------------------
(* Inputs.  A build of another version may write field 4 of vct_value_n,   *)
(* which vctn.proto leaves out, add a field or give one another type.       *)

Nested(num, body) ==
  [num |-> num, wire |-> "len", val |-> Null, len |-> TotalBytes(body),
   body |-> body, bytes |-> 1 + LengthDelimitedSize(TotalBytes(body)), cut |-> FALSE]

PosWire == <<WriteInt64(1, 3), WriteInt64(2, 200)>>

ValueNWire ==
  <<Nested(1, PosWire), WriteInt64(2, -1), WriteInt64(3, 3), WriteBool(5, TRUE)>>

OtherValueNWire == <<WriteInt64(4, 3)>>

MCValueForeign ==
  {<<WriteString(1, k), Nested(2, ValueNWire), Nested(3, ValueNWire), WriteInt64(4, 3)>>,
   <<Nested(2, OtherValueNWire), Nested(3, OtherValueNWire), Nested(2, ValueNWire)>>,
   <<WriteString(4, k), WriteInt64(9, 200), WriteInt64(4, 0)>>}

MCKeytableForeign ==
  {<<WriteString(1, k), WriteString(2, Empty), WriteString(3, k)>>,
   <<WriteInt64(1, -1), WriteString(2, k), WriteString(2, Empty), WriteString(9, k)>>}

ColWire == <<WriteString(1, k), WriteString(2, Empty)>>

MCRouteForeign ==
  {<<WriteString(1, Empty), WriteString(2, k), Nested(3, ColWire), Nested(3, ColWire)>>,
   <<WriteInt64(3, 200), Nested(3, <<WriteString(9, k)>>), WriteString(2, k)>>}

MCInt64 == {-1}
Symmetry == Permutations(Objects)
=============================================================================
