------------------------------ MODULE ByteQueues ------------------------------
(***************************************************************************)
(* What buffer (utility/buffer.h) is for: queues of bytes.  Bytes are      *)
(* added at either end and taken from the front, in order, and no more     *)
(* than Capacity are held.  Nothing is said of where in an array they are. *)
(* Each byte comes out once, except where a value is read whose size is    *)
(* not WordSize.  Buffer implements this module.                           *)
(***************************************************************************)
EXTENDS Integers, Sequences

CONSTANTS
  Buffers,   \* the buffers, which swap can exchange
  Bytes,     \* the values of a char
  Initial,   \* how many bytes a new buffer holds, of any value
  Capacity,  \* how many a buffer can hold
  Lengths,   \* the lengths calls name
  WordSize,  \* the bytes that reading a value takes out, whatever its size
  ReadSizes  \* the sizes of the values read

VARIABLES
  queue,  \* the bytes each buffer holds
  out,    \* the bytes the last call returned
  call    \* the last call and its arguments

vars == <<queue, out, call>>

Calls(name, arguments) == call' = <<name, arguments>>

\* What a call can be given to add.
Strings == UNION {[1..len -> Bytes] : len \in 0..Capacity}

Init ==
  /\ DOMAIN queue = Buffers
  /\ \A n \in Buffers : queue[n] \in Seq(Bytes) /\ Len(queue[n]) = Initial
  /\ out = <<>>
  /\ call = <<"construct", <<>> >>

Becomes(n, s) == queue' = [queue EXCEPT ![n] = s]
Fits(n, s) == Len(queue[n]) + Len(s) <= Capacity

AddLast(n, s) == Fits(n, s) /\ Becomes(n, queue[n] \o s) /\ out' = <<>>
AddFirst(n, s) == Fits(n, s) /\ Becomes(n, s \o queue[n]) /\ out' = <<>>

\* s without its first len bytes, of which it may have fewer.
Without(s, len) == SubSeq(s, len + 1, Len(s))

Drop(n, len) == Becomes(n, Without(queue[n], len)) /\ out' = <<>>
DropAll(n) == Becomes(n, <<>>) /\ out' = <<>>

\* The first len bytes are returned and taken out.
Take(n, len) ==
  /\ len <= Len(queue[n])
  /\ out' = SubSeq(queue[n], 1, len)
  /\ Becomes(n, Without(queue[n], len))

\* The first size bytes are returned, and the first WordSize taken out.
Read(n, size) ==
  /\ size <= Len(queue[n])
  /\ out' = SubSeq(queue[n], 1, size)
  /\ Becomes(n, Without(queue[n], WordSize))

Swap(n, m) ==
  /\ queue' = [queue EXCEPT ![n] = queue[m], ![m] = queue[n]]
  /\ out' = <<>>

Next ==
  \/ \E n \in Buffers, s \in Strings :
       \/ Calls("append", <<n, s>>) /\ AddLast(n, s)
       \/ Calls("raise high water", <<n, Len(s)>>) /\ AddLast(n, s)
       \/ Calls("prepend", <<n, s>>) /\ AddFirst(n, s)
  \/ \E n \in Buffers, len \in Lengths :
       \/ Calls("retrieve", <<n, len>>) /\ Drop(n, len)
       \/ Calls("lower low water", <<n, len>>) /\ Drop(n, len)
       \/ Calls("retrieve as", <<n, len>>) /\ Take(n, len)
  \/ \E n \in Buffers, size \in ReadSizes : Calls("read", <<n, size>>) /\ Read(n, size)
  \/ \E n \in Buffers : Calls("retrieve all", <<n>>) /\ DropAll(n)
  \/ \E n, m \in Buffers : Calls("swap", <<n, m>>) /\ Swap(n, m)

Spec == Init /\ [][Next]_vars
===============================================================================
