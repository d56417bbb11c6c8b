---------------------------- MODULE BuddyAllocator ----------------------------
(***************************************************************************)
(* kernel/buddy_allocator.zig: blocks of each level with a status, a       *)
(* linked list of the free blocks of each level, and alloc, free and       *)
(* reserve.  The links of a free block are kept in the block itself, or,   *)
(* with the kind InSelf, in an array with an element for each block of the *)
(* smallest size.  Addresses are relative to the start of the managed      *)
(* area, which is aligned.                                                 *)
(***************************************************************************)
EXTENDS Integers, FiniteSets, SequencesExt

CONSTANTS
    Levels,         \* level_count
    MinSize,        \* min_size
    FreeBlockSize,  \* free_block_size
    Sizes,          \* the sizes clients ask for
    Reservable,     \* the ranges clients reserve, [start, len]
    Null

Pow2[n \in 0 .. Levels] == IF n = 0 THEN 1 ELSE 2 * Pow2[n - 1]

MaxSize == MinSize * Pow2[Levels - 1]

ASSUME BuddyAssumption ==
    /\ Levels \in Nat \ {0} /\ MinSize \in Nat \ {0} /\ FreeBlockSize \in Nat \ {0}
    /\ MinSize % FreeBlockSize = 0
    /\ Sizes \subseteq Nat \ {0}
    /\ \A r \in Reservable : r.start \in Nat /\ r.len \in Nat \ {0} /\ r.start + r.len <= MaxSize
    /\ Null \notin 0 .. MaxSize

Level == 0 .. Levels - 1
LastLevel == Levels - 1
Block == {b \in Level \X (0 .. Pow2[LastLevel] - 1) : b[2] < Pow2[b[1]]}
Status == {"Invalid", "Split", "Free", "Used"}

BlockSize(level) == MaxSize \div Pow2[level]
Address(level, index) == index * BlockSize(level)
BytesOf(b) == Address(b[1], b[2]) .. Address(b[1], b[2]) + BlockSize(b[1]) - 1

(* pow2_round_up, with min_size the least; and size_to_level.              *)
RoundedSize(size) ==
    CHOOSE s \in {BlockSize(l) : l \in Level} :
        s >= size /\ \A l \in Level : BlockSize(l) >= size => s <= BlockSize(l)
SizeToLevel(size) == CHOOSE l \in Level : BlockSize(l) = RoundedSize(size)

VARIABLES
    kind,           \* the parameter of BuddyAllocator, "InSelf" or "InManagedArea"
    ba,             \* the allocator: status, lists, links, and a phase that
                    \* is "panic" once an assertion of the code has failed
    allocs,         \* the allocations the clients hold, [start, size]
    refused         \* the last request, if its error was OutOfMemory or
                    \* CantReserveAlreadyUsed

buddyVars == <<kind, ba, allocs, refused>>

(* A pointer to a block's links: the block's address, or the position of   *)
(* its first smallest block in free_blocks_in_self.                        *)
Pointer == 0 .. (IF kind = "InSelf" THEN Pow2[LastLevel] ELSE MaxSize) - 1
Span(level) == IF kind = "InSelf" THEN Pow2[LastLevel - level] ELSE BlockSize(level)
IndexToBlock(level, index) == index * Span(level)
BlockToIndex(level, p) == p \div Span(level)
AddressToBlock(address) == IF kind = "InSelf" THEN address \div FreeBlockSize ELSE address

BuddyIndex(index) == IF index % 2 = 1 THEN index - 1 ELSE index + 1

Unlinked == [prev |-> Null, next |-> Null]

------------------------------------------------------------------------------
(* FreeBlocks.push and remove_block.                                       *)

Push(h, level, p) ==
    LET current == h.lists[level]
        links == IF current = Null THEN h.links ELSE [h.links EXCEPT ![current].prev = p]
    IN  [h EXCEPT !.links = [links EXCEPT ![p] = [prev |-> Null, next |-> current]],
                  !.lists[level] = p]

RemoveBlockSlip(h, level, p) ==     \* the next block keeps its link back
    LET prev == h.links[p].prev
        next == h.links[p].next
    IN  IF prev = Null THEN [h EXCEPT !.lists[level] = next]
        ELSE [h EXCEPT !.links[prev].next = next]

(* What is left in the links that were removed is never read again.        *)
RemoveBlock(h, level, p) ==
    LET prev == h.links[p].prev
        next == h.links[p].next
        back == IF next = Null THEN h.links ELSE [h.links EXCEPT ![next].prev = prev]
        links == IF prev = Null THEN back ELSE [back EXCEPT ![prev].next = next]
    IN  [h EXCEPT !.links = [links EXCEPT ![p] = Unlinked],
                  !.lists[level] = IF prev = Null THEN next ELSE @]

Marked(h, level, index, status) == [h EXCEPT !.status[<<level, index>>] = status]
Panicked(h) == [h EXCEPT !.phase = "panic"]

Split(h, level, index) ==
    LET this == IndexToBlock(level, index)
        buddy == IndexToBlock(level + 1, 2 * index + 1)
        relisted == Push(Push(RemoveBlock(h, level, this), level + 1, buddy), level + 1, this)
    IN  IF h.status[<<level, index>>] # "Free" THEN Panicked(h)
        ELSE Marked(Marked(Marked(relisted,
                level, index, "Split"),
                level + 1, 2 * index, "Free"),
                level + 1, 2 * index + 1, "Free")

Merge(h, level, index) ==
    LET buddy == BuddyIndex(index)
        unlisted == RemoveBlock(RemoveBlock(h, level, IndexToBlock(level, index)),
                                level, IndexToBlock(level, buddy))
    IN  IF \/ h.status[<<level, index>>] # "Free" \/ h.status[<<level, buddy>>] # "Free"
           \/ h.status[<<level - 1, index \div 2>>] # "Split"
        THEN Panicked(h)
        ELSE Marked(Marked(Marked(
                Push(unlisted, level - 1, IndexToBlock(level - 1, index \div 2)),
                level, index, "Invalid"),
                level, buddy, "Invalid"),
                level - 1, index \div 2, "Free")

ReserveBlock(h, level, p) ==
    Marked(RemoveBlock(h, level, p), level, BlockToIndex(level, p), "Used")

------------------------------------------------------------------------------
BuddyInit ==
    /\ kind \in {"InSelf", "InManagedArea"}
    /\ ba = Push([status |-> [b \in Block |-> IF b = <<0, 0>> THEN "Free" ELSE "Invalid"],
                  lists |-> [l \in Level |-> Null],
                  links |-> [p \in Pointer |-> Unlinked],
                  phase |-> "run"], 0, 0)
    /\ allocs = {} /\ refused = {}

(* The numbers from first up to last, none if first is beyond it.          *)
Up(first, last) == [i \in 1 .. last - first + 1 |-> first + i - 1]

(* alloc: from the nearest level that has a free block, the first block of *)
(* each list is split until the target level has one.                      *)
SplitFirst(s, target) ==
    IF s.level = target THEN s
    ELSE [h |-> Split(s.h, s.level, BlockToIndex(s.level, s.h.lists[s.level])),
          level |-> s.level + 1]

SplitDown(h, level, target) ==
    LET Step(s, i) == SplitFirst(s, target)
    IN  FoldLeft(Step, [h |-> h, level |-> level], Up(level, target - 1)).h

Alloc(size) ==
    LET target == SizeToLevel(size)
        nonEmpty == {l \in 0 .. target : ba.lists[l] # Null}
        level == CHOOSE l \in nonEmpty : \A k \in nonEmpty : k <= l
        split == SplitDown(ba, level, target)
        block == split.lists[target]
    IN  IF size > MaxSize \/ nonEmpty = {}
        THEN refused' = {[start |-> Null, len |-> size]} /\ UNCHANGED <<ba, allocs>>
        ELSE /\ ba' = ReserveBlock(split, target, block)
             /\ allocs' = allocs \cup
                   {[start |-> Address(target, BlockToIndex(target, block)), size |-> size]}
             /\ refused' = {}

(* BlockStatusIter: the blocks around pointer p, the smallest first.       *)
Around(level, p) == <<level, BlockToIndex(level, p)>>

(* One step of free's last loop, on the allocator, the block it has come   *)
(* to and whether it is to go on.                                          *)
MergeOnceSlip(s, i) ==      \* stops after the first
    IF ~ s.on \/ s.level = 0 \/ s.h.status[<<s.level, BuddyIndex(s.index)>>] # "Free"
    THEN [s EXCEPT !.on = FALSE]
    ELSE [h |-> Merge(s.h, s.level, s.index), level |-> s.level - 1, index |-> s.index \div 2,
          on |-> FALSE]

MergeStep(s, i) ==
    IF ~ s.on \/ s.level = 0 \/ s.h.status[<<s.level, BuddyIndex(s.index)>>] # "Free"
    THEN [s EXCEPT !.on = FALSE]
    ELSE [h |-> Merge(s.h, s.level, s.index), level |-> s.level - 1, index |-> s.index \div 2,
          on |-> TRUE]

MergeUp(h, level, index) ==
    FoldLeft(MergeStep, [h |-> h, level |-> level, index |-> index, on |-> TRUE], Up(1, level)).h

(* free, of the block around the address that is in use; level 0 if there  *)
(* is none.                                                                *)
Freed(address) ==
    LET p == AddressToBlock(address)
        used == {l \in Level : ba.status[Around(l, p)] = "Used"}
        level == IF used = {} THEN 0 ELSE CHOOSE l \in used : \A k \in used : k <= l
        index == BlockToIndex(level, p)
        listed == Marked(Push(ba, level, p), level, index, "Free")
    IN  IF p \notin Pointer THEN Panicked(ba)
        ELSE MergeUp(listed, level, index)

Free(a) ==
    /\ a \in allocs
    /\ ba' = Freed(a.start)
    /\ allocs' = allocs \ {a} /\ refused' = {}

------------------------------------------------------------------------------
(* aligned_range, as its first byte and the end.                           *)
AlignedStart(r) == IF kind = "InSelf" THEN r.start ELSE r.start - (r.start % FreeBlockSize)
End(r) == r.start + r.len

(* block_is_free: the level of the free block around the address, or none. *)
FreeLevels(h, address) ==
    LET p == AddressToBlock(address)
    IN  {l \in Level : /\ h.status[Around(l, p)] = "Free"
                       /\ \A k \in l + 1 .. LastLevel : h.status[Around(k, p)] = "Invalid"}

(* is_free: the addresses at which it looks, each one free block further.  *)
LookStep(s, r) ==
    LET next == s.address + BlockSize(CHOOSE l \in FreeLevels(ba, s.address) : TRUE)
    IN  IF s.done THEN s
        ELSE IF FreeLevels(ba, s.address) = {} THEN [s EXCEPT !.done = TRUE, !.free = FALSE]
        ELSE [address |-> next, done |-> next >= End(r), free |-> TRUE]

LookFurther(r) ==
    LET Step(s, i) == LookStep(s, r)
    IN  FoldLeft(Step, [address |-> AlignedStart(r), done |-> FALSE, free |-> TRUE],
                 Up(0, Pow2[LastLevel]))
IsFree(r) == LookFurther(r).free

(* The inner loop of reserve: the block is split while the range lies in   *)
(* one half of it.                                                         *)
NarrowStep(s, r) ==
    LET middle == Address(s.level, s.index) + BlockSize(s.level) \div 2
        right == AlignedStart(r) >= middle
        left == End(r) < middle
    IN  IF ~ (right \/ left) \/ s.level = LastLevel THEN s
        ELSE [h |-> Split(s.h, s.level, s.index), level |-> s.level + 1,
              index |-> 2 * s.index + IF right THEN 1 ELSE 0]

Narrowed(h, r, level, index) ==
    LET Step(s, i) == NarrowStep(s, r)
    IN  FoldLeft(Step, [h |-> h, level |-> level, index |-> index], Up(level, LastLevel - 1))

ReserveStep(s, r) ==
    LET level == CHOOSE l \in FreeLevels(s.h, s.address) : TRUE
        index == BlockToIndex(level, AddressToBlock(s.address))
        narrowed == Narrowed(s.h, r, level, index)
        next == s.address + BlockSize(level)
    IN  IF s.done \/ FreeLevels(s.h, s.address) = {} \/ Address(level, index) >= End(r)
        THEN [s EXCEPT !.done = TRUE]
        ELSE [h |-> ReserveBlock(narrowed.h, narrowed.level,
                                 IndexToBlock(narrowed.level, narrowed.index)),
              address |-> next, done |-> next >= MaxSize]

Reserved(h, r) ==
    LET Step(s, i) == ReserveStep(s, r)
    IN  FoldLeft(Step, [h |-> h, address |-> AlignedStart(r), done |-> FALSE],
                 Up(0, Pow2[LastLevel])).h

Reserve(r) ==
    IF ~ IsFree(r)
    THEN refused' = {r} /\ UNCHANGED <<ba, allocs>>
    ELSE ba' = Reserved(ba, r) /\ refused' = {} /\ UNCHANGED allocs

BuddyNext ==
    /\ ba.phase = "run" /\ UNCHANGED kind
    /\ \/ \E size \in Sizes : Alloc(size)
       \/ \E a \in allocs : Free(a)
       \/ \E r \in Reservable : Reserve(r)

BuddySpec == BuddyInit /\ [][BuddyNext]_buddyVars
------------------------------------------------------------------------------
BuddyTypeOK ==
    /\ kind \in {"InSelf", "InManagedArea"}
    /\ ba.phase \in {"run", "panic"} /\ ba.status \in [Block -> Status]
    /\ ba.lists \in [Level -> Pointer \cup {Null}]
    /\ ba.links \in [Pointer -> [prev : Pointer \cup {Null}, next : Pointer \cup {Null}]]
    /\ \A a \in allocs : a.start \in 0 .. MaxSize - 1 /\ a.size \in Sizes
    /\ refused \subseteq Reservable \cup [start : {Null}, len : Sizes]

WithStatus(status) == {b \in Block : ba.status[b] = status}
UsedBytes == UNION {BytesOf(b) : b \in WithStatus("Used")}

(* The statuses are a tree: the blocks that are not invalid are the root   *)
(* and the halves of those that are split.  free leaves no two free halves *)
(* of the same block, so that memory never stays in pieces for no reason.  *)
TreeFits ==
    /\ BuddyTypeOK
    /\ ba.status[<<0, 0>>] # "Invalid"
    /\ \A b \in Block :
          /\ b[1] > 0 => (ba.status[b] # "Invalid"
                            <=> ba.status[<<b[1] - 1, b[2] \div 2>>] = "Split")
          /\ ba.status[b] = "Split" => b[1] < LastLevel
          /\ b[1] > 0 => ~ (ba.status[b] = "Free" /\ ba.status[<<b[1], BuddyIndex(b[2])>>] = "Free")

(* Each level's list, walked along its links, holds the free blocks of the *)
(* level, each once, and the links back are right, although the links live *)
(* in memory that changes hands.                                           *)
WalkStep(walk, i) ==
    IF Last(walk) = Null THEN walk ELSE Append(walk, ba.links[Last(walk)].next)
WalkOf(level) == FoldLeft(WalkStep, <<ba.lists[level]>>, Up(0, Pow2[LastLevel]))
ListsHoldFreeBlocks ==
    \A level \in Level :
        LET walk == WalkOf(level)
            free == {b \in WithStatus("Free") : b[1] = level}
        IN  /\ Last(walk) = Null /\ Len(walk) = Cardinality(free) + 1
            /\ {walk[i] : i \in 1 .. Len(walk) - 1} = {IndexToBlock(b[1], b[2]) : b \in free}
            /\ \A i \in 1 .. Len(walk) - 1 :
                  ba.links[walk[i]].prev = IF i = 1 THEN Null ELSE walk[i - 1]

(* The allocator keeps the promise of Heap: places are aligned, no two     *)
(* overlap and none overlaps what was reserved; memory runs out only when  *)
(* no such place is left, which needs every free to have merged all it     *)
(* could; what is freed can be had again.                                  *)
H == INSTANCE Heap WITH
    Area <- MaxSize,
    reserved <- UsedBytes \ UNION {a.start .. a.start + RoundedSize(a.size) - 1 : a \in allocs}
ImplementsHeap == H!Spec
===============================================================================
