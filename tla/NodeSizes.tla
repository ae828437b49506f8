------------------------------- MODULE NodeSizes -------------------------------
(***************************************************************************)
(* How many values a node holds (storage/btree/btree.h).  The type of the  *)
(* counts and positions in a node is chosen from the size of a value       *)
(* before the size of the fields it goes into is known; the number of      *)
(* values is then computed from the size of those fields, and asserted to  *)
(* fit the type.                                                           *)
(***************************************************************************)
EXTENDS Integers

CONSTANTS
  TargetNodeSizes,   \* template arguments of the trees a program instantiates
  ValueSizes,        \* sizeof(Key) + sizeof(Data)
  AddressSpace       \* how many values a size_t has

ASSUME NodeSizesAssumption ==
  /\ TargetNodeSizes \subseteq Nat /\ ValueSizes \subseteq Nat \ {0}
  /\ AddressSpace \in Nat

VARIABLE params   \* what the tree is instantiated with, on which machine

\* A pair of a key and data takes up to twice the bytes of the two.  Keys and data
\* are taken to need no stricter alignment than a pointer.
NodeParams ==
  {p \in [pointer : {4, 8}, target : TargetNodeSizes, value : ValueSizes,
          slot : UNION {v..(2 * v - 1) : v \in ValueSizes}] :
     p.slot \in p.value..(2 * p.value - 1)}

\* Subtraction of sizes is unsigned.
Difference(a, b) == IF a < b THEN AddressSpace + a - b ELSE a - b

\* The least multiple of m that is at least a, for m = 4 and m = 8.
Aligned(a, m) == m * ((a + m - 1) \div m)

-------------------------------------------------------------------------------
kNodeValueSpace(p) == Difference(p.target, 2 * p.pointer)

\* Mutant: 256 values counted in 8 bits.
ByteCountsOneMore(p) == kNodeValueSpace(p) \div p.value <= 256

\* node_count_type is uint8_t, not uint16_t.
ByteCounts(p) == kNodeValueSpace(p) \div p.value < 256

FieldLimit(p) == IF ByteCounts(p) THEN 256 ELSE 65536

\* base_fields: a bool and three of node_count_type, then a pointer.
sizeof_base_fields(p) == Aligned(IF ByteCounts(p) THEN 4 ELSE 8, p.pointer) + p.pointer

\* Mutant: the fields before the values are forgotten.
kNodeTargetValuesOfAll(p) == p.target \div p.value

kNodeTargetValues(p) == Difference(p.target, sizeof_base_fields(p)) \div p.value

kNodeValues(p) == IF kNodeTargetValues(p) >= 3 THEN kNodeTargetValues(p) ELSE 3

sizeof_leaf_fields(p) ==
  Aligned(sizeof_base_fields(p) + kNodeValues(p) * p.slot, p.pointer)

\* The two static_asserts.
Compiles(p) ==
  /\ kNodeValues(p) < FieldLimit(p)
  /\ sizeof_base_fields(p) >= 2 * p.pointer

NodeSizesInit == params \in NodeParams
NodeSizesNext == params' \in NodeParams

NodeSizesSpec == NodeSizesInit /\ [][NodeSizesNext]_params

-------------------------------------------------------------------------------
\* The target has room for the fields of a node and its values are few enough
\* for 16 bits.
Reasonable(p) ==
  p.target >= sizeof_base_fields(p) /\ kNodeTargetValues(p) < 65536

(***************************************************************************)
(* The type chosen for counts holds every count up to kNodeValues whenever *)
(* 16 bits do: the guess made of the size of the fields is good enough, on *)
(* machines of either size.                                                *)
(***************************************************************************)
ChosenTypeFits == Reasonable(params) => Compiles(params)

(***************************************************************************)
(* A leaf of values aligned no more strictly than a pointer is of the size *)
(* asked for, but for the alignment of its end, unless it is given three   *)
(* values it has no room for.  Where a pair is padded kValueSize says less *)
(* than a value takes, and the leaf may be up to twice as large.           *)
(***************************************************************************)
LeafIsOfTargetSize ==
  Reasonable(params) /\ kNodeTargetValues(params) >= 3 =>
    IF params.slot = params.value
    THEN sizeof_leaf_fields(params) < params.target + params.pointer
    ELSE sizeof_leaf_fields(params) < 2 * params.target
===============================================================================
