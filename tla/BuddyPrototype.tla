---------------------------- MODULE BuddyPrototype ----------------------------
(***************************************************************************)
(* scripts/prototypes/buddy.py: the prototype of the buddy allocator.  Its *)
(* simulated memory is part of the state: a free block holds its two       *)
(* pointers in its own cells, a flag and an address each.  A cell nobody   *)
(* may rely on, never written, left over or in a client's hands, is Junk;  *)
(* reading one stops the prototype as an exception stops the code.         *)
(***************************************************************************)
EXTENDS Integers, SequencesExt

CONSTANTS
    Start,          \* start
    Size,           \* size
    Nil,            \* nil, no block
    Junk

MinBlockSize == 4   \* what two pointers take
PrevOffset == 0
NextOffset == 2

Log2(n) == CHOOSE k \in 0 .. n : 2 ^ k <= n /\ n < 2 ^ (k + 1)

LevelCount == Log2(Size \div MinBlockSize) + 1

(* The sizes that smallest blocks fill on a whole number of levels.        *)
SizeFits ==
    /\ Start \in Nat
    /\ \E k \in 0 .. LevelCount : Size = MinBlockSize * 2 ^ k

Level == 0 .. LevelCount - 1
Address == Start .. Start + Size - 1

PotSlip(value) ==           \* 1 is not taken off first
    CHOOSE p \in {2 ^ k : k \in 0 .. LevelCount + 1} : p > value /\ p \div 2 <= value

(* pot: the first power of two that is no less than the value.             *)
Pot(value) == CHOOSE p \in {2 ^ k : k \in 0 .. LevelCount + 1} :
                  p >= value /\ (p = 1 \/ p \div 2 < value)

LevelToBlockSize(level) == Size \div 2 ^ level
BlockSizeToLevel(size) == LevelCount + 1 - Log2(size)
UniqueId(level, index) == 2 ^ level + index - 1
GetIndex(level, address) == (address - Start) \div LevelToBlockSize(level)
GetPointer(level, index) == index * LevelToBlockSize(level) + Start
BuddyIndex(index) == IF index % 2 = 1 THEN index - 1 ELSE index + 1

------------------------------------------------------------------------------
(* Pointers of free blocks.                                                *)

FreeListPointer(b, at) == IF b.memory[at] = 0 THEN Nil ELSE b.memory[at + 1]

IsPointer(b, at) ==
    b.memory[at] = 0 \/ (b.memory[at] = 1 /\ b.memory[at + 1] \in Address)

SetFreeListPointer(b, at, value) ==
    IF value = Nil
    THEN [b EXCEPT !.memory[at] = 0, !.memory[at + 1] = Junk]
    ELSE [b EXCEPT !.memory[at] = 1, !.memory[at + 1] = value]

SetPrev(b, address, value) == SetFreeListPointer(b, address + PrevOffset, value)
SetNext(b, address, value) == SetFreeListPointer(b, address + NextOffset, value)

Raised(b, what) == [b EXCEPT !.raised = what]
StatusOf(b, level, index) == b.statuses[UniqueId(level, index)]
Marked(b, level, index, status) == [b EXCEPT !.statuses[UniqueId(level, index)] = status]

(* Buddy.__init__: one free block.                                         *)
Fresh ==
    LET b == [memory |-> [a \in Address |-> Junk],
              freeLists |-> [l \in 0 .. LevelCount |-> IF l = 0 THEN Start ELSE Nil],
              statuses |-> [id \in 0 .. 2 ^ LevelCount - 2 |->
                               IF id = 0 THEN "free" ELSE "invalid"],
              raised |-> "nothing"]
    IN  SetNext(SetPrev(b, Start, Nil), Start, Nil)

(* What leaves the list: its pointers mean nothing from now on.            *)
Abandoned(b, ptr) ==
    [b EXCEPT !.memory = [a \in Address |-> IF a \in ptr .. ptr + MinBlockSize - 1 THEN Junk ELSE @[a]]]

RemoveBlock(b, level, ptr) ==
    LET prev == FreeListPointer(b, ptr + PrevOffset)
        next == FreeListPointer(b, ptr + NextOffset)
        forward == IF prev = Nil THEN [b EXCEPT !.freeLists[level] = next]
                   ELSE SetNext(b, prev, next)
        both == IF next = Nil THEN forward ELSE SetPrev(forward, next, prev)
    IN  IF ~ IsPointer(b, ptr + PrevOffset) \/ ~ IsPointer(b, ptr + NextOffset)
        THEN Raised(b, "Junk") ELSE Abandoned(both, ptr)

SplitSlip(b, level, index) ==   \* the upper half is listed first
    LET lower == GetPointer(level + 1, 2 * index)
        upper == GetPointer(level + 1, 2 * index + 1)
        rest == b.freeLists[level + 1]
        headed == [RemoveBlock(b, level, lower) EXCEPT !.freeLists[level + 1] = upper]
        linked == SetNext(SetPrev(SetNext(SetPrev(headed,
                      upper, Nil), upper, lower), lower, upper), lower, rest)
        backed == IF rest = Nil THEN linked ELSE SetPrev(linked, rest, lower)
    IN  Marked(Marked(Marked(backed, level, index, "split"),
               level + 1, 2 * index, "free"), level + 1, 2 * index + 1, "free")

(* split: the lower half, then the upper one, become the first blocks of   *)
(* the next level's list.                                                  *)
Split(b, level, index) ==
    LET lower == GetPointer(level + 1, 2 * index)
        upper == GetPointer(level + 1, 2 * index + 1)
        rest == b.freeLists[level + 1]
        headed == [RemoveBlock(b, level, lower) EXCEPT !.freeLists[level + 1] = lower]
        linked == SetNext(SetPrev(SetNext(SetPrev(headed,
                      lower, Nil), lower, upper), upper, lower), upper, rest)
        backed == IF rest = Nil THEN linked ELSE SetPrev(linked, rest, upper)
    IN  IF StatusOf(b, level, index) # "free" THEN Raised(b, "WrongBlockStatus")
        ELSE Marked(Marked(Marked(backed, level, index, "split"),
                    level + 1, 2 * index, "free"), level + 1, 2 * index + 1, "free")

(* merge: of two free halves of a split block; the whole becomes the first  *)
(* block of the list above.  The block that was first there is not told    *)
(* what precedes it now.                                                   *)
Merge(b, level, index) ==
    LET buddy == BuddyIndex(index)
        parent == index \div 2
        ptr == GetPointer(level - 1, parent)
        removed == RemoveBlock(RemoveBlock(b, level, GetPointer(level, index)),
                               level, GetPointer(level, buddy))
        linked == SetPrev(SetNext(removed, ptr, removed.freeLists[level - 1]), ptr, Nil)
        headed == [linked EXCEPT !.freeLists[level - 1] = ptr]
    IN  IF \/ level = 0
           \/ StatusOf(b, level, index) # "free" \/ StatusOf(b, level, buddy) # "free"
           \/ StatusOf(b, level - 1, parent) # "split"
        THEN Raised(b, "WrongBlockStatus")
        ELSE Marked(Marked(Marked(headed, level, index, "invalid"),
                    level, buddy, "invalid"), level - 1, parent, "free")

(* The numbers from first to last, upwards or downwards.                   *)
Upwards(first, last) == [i \in 1 .. last - first + 1 |-> first + i - 1]
Downwards(first, last) == [i \in 1 .. first - last + 1 |-> first - i + 1]

------------------------------------------------------------------------------
(* alloc and free.  What is raised before anything is changed (ValueError, *)
(* OutOfMemory, InvalidPointer) leaves b as it is; once something is       *)
(* raised halfway, nothing more happens.                                   *)

IsRaised(b) == b.raised # "nothing"

(* What becomes of b, and the address that is given, if any.               *)
Allocated(b, size) ==
    LET target == BlockSizeToLevel(Pot(size))
        nonEmpty == {l \in 0 .. target : b.freeLists[l] # Nil}
        level == CHOOSE l \in nonEmpty : \A k \in nonEmpty : k <= l
        SplitNext(s, l) ==
            IF IsRaised(s) THEN s ELSE Split(s, l, GetIndex(l, s.freeLists[l]))
        split == FoldLeft(SplitNext, b, Upwards(level, target - 1))
        address == split.freeLists[target]
        taken == Marked(RemoveBlock(split, target, address),
                        target, GetIndex(target, address), "used")
    IN  IF size < MinBlockSize \/ size > Size \/ nonEmpty = {} THEN [b |-> b, given |-> {}]
        ELSE IF IsRaised(split) THEN [b |-> split, given |-> {}]
        ELSE [b |-> taken, given |-> {address}]

(* The levels on which the block around the address is in use.             *)
UsedLevels(b, address) ==
    {l \in Level : StatusOf(b, l, GetIndex(l, address)) = "used"}

MergeNext(s, level) ==
    IF \/ ~ s.on \/ IsRaised(s.b)
       \/ StatusOf(s.b, level, BuddyIndex(s.index)) # "free"
    THEN [s EXCEPT !.on = FALSE]
    ELSE [b |-> Merge(s.b, level, s.index), index |-> s.index \div 2, on |-> TRUE]

Listed(b, level, address) ==
    LET next == b.freeLists[level]
        backed == IF next = Nil THEN b ELSE SetPrev(b, next, address)
        linked == SetNext(SetPrev(backed, address, Nil), address, next)
    IN  Marked([linked EXCEPT !.freeLists[level] = address],
               level, GetIndex(level, address), "free")

FreedSlip(b, address) ==    \* whether a block was found is not asked
    LET used == UsedLevels(b, address)
        level == IF used = {} THEN 0 ELSE CHOOSE l \in used : \A k \in used : k <= l
    IN  FoldLeft(MergeNext,
            [b |-> Listed(b, level, address), index |-> GetIndex(level, address), on |-> TRUE],
            Downwards(level, 1)).b

Freed(b, address) ==
    LET used == UsedLevels(b, address)
        level == CHOOSE l \in used : \A k \in used : k <= l
        merged == FoldLeft(MergeNext,
                      [b |-> Listed(b, level, address), index |-> GetIndex(level, address),
                       on |-> TRUE],
                      Downwards(level, 1)).b
    IN  IF used = {} THEN b ELSE merged

(* A free list as one walks it, until it ends or has met too many blocks.  *)
WalkOf(b, level) ==
    LET Step(walk, i) ==
            IF Last(walk) = Nil \/ ~ IsPointer(b, Last(walk) + NextOffset) THEN walk
            ELSE Append(walk, FreeListPointer(b, Last(walk) + NextOffset))
    IN  FoldLeft(Step, <<b.freeLists[level]>>, Upwards(0, 2 ^ level))
===============================================================================
