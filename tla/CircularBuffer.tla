--------------------------- MODULE CircularBuffer ---------------------------
(***************************************************************************)
(* The ring of libs/utils/circular_buffer.zig, as pure operators on one    *)
(* buffer: an array, the position of its oldest element and the number of  *)
(* elements.  Elements(b) is the sequence the buffer stands for.           *)
(***************************************************************************)
EXTENDS Integers

CONSTANTS
    MaxLen,     \* len_arg
    Value,      \* Type
    Undefined,  \* what an array element holds before it is first written
    Discard     \* "DiscardNewest" or "DiscardOldest"

ASSUME BufferAssumption ==
    /\ MaxLen \in Nat \ {0}
    /\ Discard \in {"DiscardNewest", "DiscardOldest"}

Position == 0 .. MaxLen - 1

Buffer == [contents : [Position -> Value \cup {Undefined}],
           start : Position, len : 0 .. MaxLen]

EmptyBuffer == [contents |-> [i \in Position |-> Undefined], start |-> 0, len |-> 0]

Cleared(b) == [contents |-> b.contents, start |-> 0, len |-> 0]

WrappedOffset(pos, offset) == (pos + offset) % MaxLen

IsFull(b) == b.len = MaxLen

StoredSlip(contents, start, last, value) ==     \* the offset is not counted from start
    [contents |-> [contents EXCEPT ![last] = value], start |-> start, len |-> last + 1]

(* The last line of push: the value becomes the element at offset last,    *)
(* which is self.len - 1 by then.                                          *)
Stored(contents, start, last, value) ==
    [contents |-> [contents EXCEPT ![WrappedOffset(start, last)] = value],
     start |-> start, len |-> last + 1]

Pushed(b, value) ==
    IF ~ IsFull(b) THEN Stored(b.contents, b.start, b.len, value)
    ELSE IF Discard = "DiscardNewest" THEN b
    ELSE Stored(b.contents, WrappedOffset(b.start, 1), b.len - 1, value)

(* get, of an offset that is less than len.                                *)
Get(b, offset) == b.contents[WrappedOffset(b.start, offset)]

(* pop, of a buffer that is not empty; the element it returns is Get(b, 0). *)
Popped(b) ==
    [contents |-> b.contents, start |-> WrappedOffset(b.start, 1), len |-> b.len - 1]

Elements(b) == [i \in 1 .. b.len |-> Get(b, i - 1)]
=============================================================================
