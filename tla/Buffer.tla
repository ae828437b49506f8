-------------------------------- MODULE Buffer --------------------------------
(***************************************************************************)
(* buffer (utility/buffer.h): an array of bytes with two indices, the low  *)
(* and the high water, between which lie the bytes it holds.  The class    *)
(* checks none of its arguments but where it asserts: a caller adds no     *)
(* more than under_low_water_size() and above_high_water_size() say there  *)
(* is room for, and so the indices, which are of type size_t, do not wrap. *)
(***************************************************************************)
EXTENDS Integers, Sequences

CONSTANTS
  LowWater, HighWater, Capacity,  \* the template's parameters
  Buffers,    \* the buffers there are
  Bytes,      \* the values of a char
  Lengths,    \* the lengths calls name
  WordSize,   \* sizeof(int32_t)
  ReadSizes   \* the sizes of the types T that read<T>() is used with

\* The static_asserts of the class.
ASSUME WatersAssumption ==
  /\ LowWater \in Nat /\ HighWater \in Nat /\ Capacity \in Nat
  /\ LowWater <= HighWater /\ HighWater < Capacity

ASSUME LengthsAssumption ==
  Lengths \subseteq Nat /\ ReadSizes \subseteq Nat /\ WordSize \in Nat

VARIABLES
  buffer,  \* each buffer's array and indices
  out,     \* the bytes the last call returned
  call     \* the last call and its arguments; no action reads it

vars == <<buffer, out, call>>

Calls(name, arguments) == call' = <<name, arguments>>

Positions == 0..Capacity - 1
Buffer == [low : 0..Capacity, high : 0..Capacity, bytes : [Positions -> Bytes]]
Strings == UNION {[1..len -> Bytes] : len \in 0..Capacity}

\* The constructor initializes the indices, and the array not at all.
Init ==
  /\ buffer \in [Buffers -> [low : {LowWater}, high : {HighWater},
                             bytes : [Positions -> Bytes]]]
  /\ out = <<>>
  /\ call = <<"construct", <<>> >>

-------------------------------------------------------------------------------
dirty_space_size(b) == b.high - b.low
above_high_water_size(b) == Capacity - b.high
under_low_water_size(b) == b.low

\* std::copy of data to position p on.
Copied(bytes, p, data) ==
  [i \in Positions |-> IF p <= i /\ i < p + Len(data) THEN data[i - p + 1] ELSE bytes[i]]

\* The len bytes from position p on.
Slice(bytes, p, len) == [i \in 1..len |-> bytes[p + i - 1]]

\* The len bytes from peek() on.
Peeked(b, len) == Slice(b.bytes, b.low, len)

\* An array with its indices.
With(low, high, bytes) == [low |-> low, high |-> high, bytes |-> bytes]

\* Mutant: the index is raised first.
AppendedAbove(b, data) ==
  With(b.low, b.high + Len(data), Copied(b.bytes, b.high + Len(data), data))

Appended(b, data) == With(b.low, b.high + Len(data), Copied(b.bytes, b.high, data))
Prepended(b, data) ==
  With(b.low - Len(data), b.high, Copied(b.bytes, b.low - Len(data), data))

RaisedHigh(b, len) == With(b.low, b.high + len, b.bytes)
RaisedLow(b, len) == With(b.low + len, b.high, b.bytes)
RetrievedAll(b) == With(0, 0, b.bytes)

\* Mutants: the last bytes taken like any others; more taken than there are.
RetrievedNoReset(b, len) ==
  IF len <= dirty_space_size(b) THEN RaisedLow(b, len) ELSE RetrievedAll(b)
RetrievedPast(b, len) == RaisedLow(b, len)

Retrieved(b, len) ==
  IF len < dirty_space_size(b) THEN RaisedLow(b, len) ELSE RetrievedAll(b)

-------------------------------------------------------------------------------
\* The call leaves buffer n as b and returns bytes.
Does(n, b, bytes) == buffer' = [buffer EXCEPT ![n] = b] /\ out' = bytes

\* append(data, len)
append(n, data) ==
  /\ Len(data) <= above_high_water_size(buffer[n])
  /\ Does(n, Appended(buffer[n], data), <<>>)

\* raise_high_water(len): for a caller that has written to high_water() itself.
raise_high_water(n, len) ==
  /\ len <= above_high_water_size(buffer[n])
  /\ Does(n, RaisedHigh(buffer[n], len), <<>>)

\* prepend(data, len)
prepend(n, data) ==
  /\ Len(data) <= under_low_water_size(buffer[n])
  /\ Does(n, Prepended(buffer[n], data), <<>>)

\* lower_low_water(len), which raises the index: for a caller that has read from
\* low_water() itself.
lower_low_water(n, len) ==
  /\ len <= dirty_space_size(buffer[n])
  /\ Does(n, RaisedLow(buffer[n], len), <<>>)

\* retrieve(len): any len, all there is if there is no more than len.
retrieve(n, len) == Does(n, Retrieved(buffer[n], len), <<>>)

retrieve_all(n) == Does(n, RetrievedAll(buffer[n]), <<>>)

\* retrieve_as<T>(len)
retrieve_as(n, len) ==
  /\ len <= dirty_space_size(buffer[n])
  /\ Does(n, Retrieved(buffer[n], len), Peeked(buffer[n], len))

\* read<T>(), for a T of the given size: peek<T>(), then retrieve<T>(), which
\* retrieves sizeof(int32_t) bytes whatever T is.
read(n, size) ==
  /\ size <= dirty_space_size(buffer[n])
  /\ Does(n, Retrieved(buffer[n], WordSize), Peeked(buffer[n], size))

swap(n, m) ==
  /\ buffer' = [buffer EXCEPT ![n] = buffer[m], ![m] = buffer[n]]
  /\ out' = <<>>

Next ==
  \/ \E n \in Buffers, data \in Strings :
       \/ append(n, data) /\ Calls("append", <<n, data>>)
       \/ prepend(n, data) /\ Calls("prepend", <<n, data>>)
  \/ \E n \in Buffers, len \in Lengths :
       \/ raise_high_water(n, len) /\ Calls("raise high water", <<n, len>>)
       \/ lower_low_water(n, len) /\ Calls("lower low water", <<n, len>>)
       \/ retrieve(n, len) /\ Calls("retrieve", <<n, len>>)
       \/ retrieve_as(n, len) /\ Calls("retrieve as", <<n, len>>)
  \/ \E n \in Buffers, size \in ReadSizes : read(n, size) /\ Calls("read", <<n, size>>)
  \/ \E n \in Buffers : retrieve_all(n) /\ Calls("retrieve all", <<n>>)
  \/ \E n, m \in Buffers : swap(n, m) /\ Calls("swap", <<n, m>>)

Spec == Init /\ [][Next]_vars

-------------------------------------------------------------------------------
(***************************************************************************)
(* The indices stay in order and within the array, whatever is added,      *)
(* taken and exchanged, as long as callers add no more than the sizes the  *)
(* buffer reports.                                                         *)
(***************************************************************************)
TypeOK ==
  /\ buffer \in [Buffers -> Buffer]
  /\ \A n \in Buffers : buffer[n].low <= buffer[n].high
  /\ out \in Seq(Bytes)

(***************************************************************************)
(* A buffer emptied by retrieving has its whole array for what is appended *)
(* next: retrieve resets the indices when it takes the last byte, or a     *)
(* buffer that is filled and emptied would run out of room.                *)
(***************************************************************************)
Emptying == {"retrieve", "retrieve all", "retrieve as", "read"}
EmptiedIsRoomy ==
  [][\A n \in Buffers :
       call'[1] \in Emptying /\ call'[2][1] = n /\ dirty_space_size(buffer'[n]) = 0
         => above_high_water_size(buffer'[n]) = Capacity]_vars

(***************************************************************************)
(* Moving the indices and copying at them is a queue of bytes.  The bytes  *)
(* come out in the order they went in, prepended ones first, and each      *)
(* once, but for what read<T>() does to a T that has not the size of an    *)
(* int32_t: it takes as many bytes as an int32_t has, so that the bytes a  *)
(* larger T has beyond these come out again with the next call, and those  *)
(* a smaller T leaves of them never do.                                    *)
(***************************************************************************)
Contents(b) == Peeked(b, dirty_space_size(b))
Queues == INSTANCE ByteQueues
            WITH queue <- [n \in Buffers |-> Contents(buffer[n])],
                 Initial <- HighWater - LowWater
ImplementsQueues == Queues!Spec
===============================================================================
