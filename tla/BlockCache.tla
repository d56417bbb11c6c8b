----------------------------- MODULE BlockCache -----------------------------
(***************************************************************************)
(* The disk as the kernel reads it: CachedBlockStore of kernel/io.zig in   *)
(* front of an ATA device, the search for a partition at boot              *)
(* (kernel/gpt.zig, found_partition of kernel/fs.zig), and the reads of    *)
(* bytes that the mounted file system makes through BlockStore.read.       *)
(*                                                                         *)
(* Nothing here runs in parallel: the disk is searched before the first    *)
(* thread exists, and the file system is only entered from system calls,   *)
(* which run with interrupts off.  What is hard is the sequence: who owns  *)
(* a buffer after it was cached, bumped, evicted, freed or not read.       *)
(*                                                                         *)
(* A buffer holds a sector, which is known by its address.  Sectors have   *)
(* SectorSize bytes and the disk is read-only, so that byte i of the disk  *)
(* is i itself.  A panic stops the kernel.                                 *)
(***************************************************************************)
EXTENDS MappedList, SequencesExt

CONSTANTS
    Free, Junk,     \* what is in a buffer that is free, or never was read into
    MaxBlocks,      \* max_block_count
    SectorSize,
    Entries,        \* the first sector of the partition entries
    EntrySectors,   \* how many sectors of entries the search may look through
    Requests        \* the [address, len] that the file system reads

Buffer == Value     \* the buffers the heap has room for

DivRoundUp(a, b) == (a + b - 1) \div b

ASSUME CacheAssumption ==
    /\ Key \subseteq Nat /\ {0, 1} \subseteq Key
    /\ Null \notin Buffer /\ Free \notin Key /\ Junk \notin Key /\ Free # Junk
    /\ Entries \in Nat /\ EntrySectors \in Nat \ {0}
    /\ Entries .. Entries + EntrySectors - 1 \subseteq Key
    /\ MaxBlocks \in Nat /\ MaxBlocks >= 2      \* Disk.new holds two blocks at once

(* The sectors of a read are on the disk.                                  *)
ASSUME RequestsAssumption ==
    /\ SectorSize \in Nat \ {0}
    /\ \A r \in Requests :
          /\ r.address \in Nat /\ r.len \in Nat \ {0}
          /\ \A i \in 0 .. DivRoundUp(r.len, SectorSize) - 1 :
                (r.address \div SectorSize) + i \in Key

VARIABLES
    cache,      \* the MappedList of CachedBlockStore
    buffers,    \* what is in each buffer
    held,       \* the blocks the search has read and is still to free
    step,       \* where the search is, and "mounted" when it is over
    next,       \* where it goes once every block held is free
    request,    \* the read under way
    to,         \* the bytes copied for it
    moved       \* has the search gone on to a second sector of entries?

store == <<cache, buffers>>
search == <<held, step, next, moved>>
reader == <<request, to>>
vars == <<store, search, reader>>

NoRequest == [address |-> 0, len |-> 0]

Init ==
    /\ cache = EmptyMappedList
    /\ buffers = [b \in Buffer |-> Free]
    /\ held = <<>> /\ step = "start" /\ next = "none"
    /\ request = NoRequest /\ to = <<>>
    /\ moved = FALSE

-----------------------------------------------------------------------------
(* The store.  A read of one block gives a store, the data of the block,   *)
(* and whether there was an error.                                         *)

Unread(s, data) == [cache |-> s.cache, buffers |-> s.buffers, data |-> data, ok |-> FALSE]

Cached(s, a) ==
    [cache |-> FoundBumped(s.cache, a), buffers |-> s.buffers,
     data |-> s.cache.value[Find(s.cache, a)], ok |-> TRUE]

PushedBlockSlip(s, a, data) ==      \* full one block too early
    LET pushed == Pushed(s.cache, a, data)
        last == pushed.list.tail
    IN  IF pushed.list.len < MaxBlocks
        THEN [cache |-> pushed, buffers |-> s.buffers, data |-> data, ok |-> TRUE]
        ELSE [cache |-> TakenOut(pushed, last),
              buffers |-> [s.buffers EXCEPT ![pushed.value[last]] = Free],
              data |-> data, ok |-> TRUE]

(* A block that has been read is the first of the cache, and the last one  *)
(* goes, with its buffer, when there are too many.                         *)
PushedBlock(s, a, data) ==
    LET pushed == Pushed(s.cache, a, data)
        last == pushed.list.tail
    IN  IF pushed.list.len <= MaxBlocks
        THEN [cache |-> pushed, buffers |-> s.buffers, data |-> data, ok |-> TRUE]
        ELSE [cache |-> TakenOut(pushed, last),
              buffers |-> [s.buffers EXCEPT ![pushed.value[last]] = Free],
              data |-> data, ok |-> TRUE]

(* The device reads into the buffer of the block, and allocates one only   *)
(* if the block has none.  An error leaves a new buffer to nobody.         *)
FromDevice(s, a, data) ==
    IF data = Null /\ \A b \in Buffer : s.buffers[b] # Free THEN {Unread(s, Null)}
    ELSE LET b == IF data # Null THEN data ELSE CHOOSE c \in Buffer : s.buffers[c] = Free
             failed == [s EXCEPT !.buffers[b] = IF data = Null THEN Junk ELSE @]
             full == [s EXCEPT !.buffers[b] = a]
         IN  {Unread(failed, b),                        \* of the drive
              Unread(full, b)}                          \* no memory for a node
             \cup IF s.cache.used = Node THEN {} ELSE {PushedBlock(full, a, b)}

ReadBlock(s, a, data) ==
    IF Find(s.cache, a) # Null THEN {Cached(s, a)} ELSE FromDevice(s, a, data)

Store == [cache |-> cache, buffers |-> buffers]
StoreIs(r) == cache' = r.cache /\ buffers' = r.buffers

FreedSlip(n, block) ==              \* the block stays in the cache
    /\ buffers' = [buffers EXCEPT ![block.data] = Free]
    /\ UNCHANGED cache

(* free_block of a block that is in the cache, in node n.  The buffer that *)
(* is freed is the one of the caller's block, not the cached one.          *)
Freed(n, block) ==
    /\ cache' = TakenOut(cache, n)
    /\ buffers' = [buffers EXCEPT ![block.data] = Free]

-----------------------------------------------------------------------------
(* The search for a partition.  Blocks are freed by defers: the last one   *)
(* read is the first one freed, on success and on every error.             *)

LeaveFor(where) ==
    IF held = <<>> THEN step' = where /\ UNCHANGED next
    ELSE step' = "freeing" /\ next' = where

SearchReadsSlip(a, where) ==        \* the defer comes before the try
    \E r \in ReadBlock(Store, a, Null) :
        /\ StoreIs(r)
        /\ held' = Append(held, [address |-> a, data |-> r.data])
        /\ IF r.ok THEN step' = where /\ UNCHANGED next ELSE step' = "freeing" /\ next' = "none"
        /\ UNCHANGED <<moved, reader>>

(* A block is read from address a, and the search goes on or gives up.     *)
SearchReads(a, where) ==
    \E r \in ReadBlock(Store, a, Null) :
        /\ StoreIs(r)
        /\ IF r.ok THEN held' = Append(held, [address |-> a, data |-> r.data])
                        /\ step' = where /\ UNCHANGED next
           ELSE LeaveFor("none") /\ UNCHANGED held
        /\ UNCHANGED <<moved, reader>>

ReadMbr == step = "start" /\ SearchReads(0, "mbr")

(* Without an MBR the whole disk is the file system; with one that is not  *)
(* of a GPT disk there is none.                                            *)
LeaveMbr ==
    /\ step = "mbr"
    /\ \E where \in {"mounted", "none"} : LeaveFor(where)
    /\ UNCHANGED <<store, held, moved, reader>>

ReadHeader == step = "mbr" /\ SearchReads(1, "header")

LeaveHeader ==
    /\ step = "header"
    /\ \E where \in {"table", "none"} : LeaveFor(where)
    /\ UNCHANGED <<store, held, moved, reader>>

(* Disk.partitions                                                         *)
ReadEntries == step = "table" /\ SearchReads(Entries, "entries")

(* PartitionIterator.next finds no Linux partition in a sector full of     *)
(* entries.  The iterator reads the next one into the block it has.        *)
NextEntries ==
    LET block == held[1]
        a == block.address + 1
    IN  /\ step = "entries" /\ a < Entries + EntrySectors
        /\ \E r \in ReadBlock(Store, a, block.data) :
              /\ StoreIs(r)
              /\ held' = <<[address |-> a, data |-> r.data]>>
              /\ IF r.ok THEN UNCHANGED <<step, next>> ELSE LeaveFor("none")
        /\ moved' = TRUE
        /\ UNCHANGED reader

LeaveEntries ==
    /\ step = "entries"
    /\ \E where \in {"mounted", "none"} : LeaveFor(where)
    /\ UNCHANGED <<store, held, moved, reader>>

(* One of the defers.  The cache panics over a block it does not have.     *)
FreeHeld ==
    LET n == Find(cache, Last(held).address)
    IN  /\ step = "freeing"
        /\ \/ /\ n # Null
              /\ Freed(n, Last(held))
              /\ step' = IF Len(held) = 1 THEN next ELSE step
           \/ /\ n = Null
              /\ step' = "panicked"
              /\ UNCHANGED store
        /\ held' = Front(held)
        /\ UNCHANGED <<next, moved, reader>>

-----------------------------------------------------------------------------
(* BlockStore.read, a block at a time.                                     *)

StartRead ==
    /\ step = "mounted" /\ request = NoRequest
    /\ request' \in Requests /\ to' = <<>>
    /\ UNCHANGED <<store, search>>

Byte(sector, i) == IF sector \in Key THEN sector * SectorSize + i ELSE Junk

CopiedSlip(sector, from, size) == [i \in 1 .. size |-> Byte(sector, i - 1)]

(* The bytes are copied from the middle of the first block, and from the   *)
(* start of every other one, as many as fit.                               *)
Copied(sector, from, size) ==
    [i \in 1 .. IF SectorSize - from < size THEN SectorSize - from ELSE size
        |-> Byte(sector, from + i - 1)]

StartSector == request.address \div SectorSize
SectorCount == DivRoundUp(request.len, SectorSize)
Sector(i) == StartSector + i        \* of round i of the loop

ReadSector(i) ==
    LET dest == i * SectorSize
        left == request.len - dest
        size == IF SectorSize < left THEN SectorSize ELSE left
        from == IF i = 0 THEN request.address % SectorSize ELSE 0
    IN  \E r \in ReadBlock(Store, Sector(i), Null) :
            /\ StoreIs(r)
            /\ IF r.ok
               THEN to' = Append(to, Copied(r.buffers[r.data], from, size)) /\ UNCHANGED request
               ELSE to' = <<>> /\ request' = NoRequest
            /\ UNCHANGED search

ReadNext == request # NoRequest /\ Len(to) < SectorCount /\ ReadSector(Len(to))

Return ==
    /\ request # NoRequest /\ Len(to) = SectorCount
    /\ request' = NoRequest /\ to' = <<>>
    /\ UNCHANGED <<store, search>>

Next ==
    \/ ReadMbr \/ LeaveMbr \/ ReadHeader \/ LeaveHeader
    \/ ReadEntries \/ NextEntries \/ LeaveEntries \/ FreeHeld
    \/ StartRead \/ ReadNext \/ Return

Spec == Init /\ [][Next]_vars
-----------------------------------------------------------------------------
(* The variables hold what the fields of the code can hold.                *)
TypeOK ==
    /\ cache \in MappedListType
    /\ buffers \in [Buffer -> Key \cup {Free, Junk}]
    /\ held \in SeqOf([address : Key, data : Buffer], 2)
    /\ step \in {"start", "mbr", "header", "table", "entries", "freeing", "mounted", "none",
                "panicked"}
    /\ next \in {"table", "mounted", "none"}
    /\ request \in Requests \cup {NoRequest}
    /\ to \in Seq(Seq(Int \cup {Junk}))
    /\ moved \in BOOLEAN

(* The search tree and the list of kernel/mapped_list.zig never part: after *)
(* every push, bump, eviction and removal both hold the nodes that are     *)
(* allocated, every node is where the search for its key ends, and the     *)
(* list can be walked both ways.                                           *)
MapAndListAgree == TypeOK /\ Agree(cache)

(* A cached block is the sector of its address in a buffer of its own, and *)
(* what the search holds stays in the cache as long as it is held, so that *)
(* no buffer is used after it was freed, nor freed twice.  That is not so  *)
(* once NextEntries has read a second sector into a buffer of the cache.   *)
CacheHoldsDisk ==
    ~moved =>
        /\ \A n \in cache.used : buffers[cache.value[n]] = cache.map.key[n]
        /\ \A n, m \in cache.used : cache.value[n] = cache.value[m] => n = m
        /\ \A i \in 1 .. Len(held) :
              LET n == Find(cache, held[i].address)
              IN  n # Null /\ cache.value[n] = held[i].data

ReadIsRight ==
    request # NoRequest /\ Len(to) = SectorCount =>
        FlattenSeq(to) = [i \in 1 .. request.len |-> request.address + i - 1]

(* What BlockStore.read gives its caller is what is on the disk, whatever  *)
(* was cached or evicted meanwhile, for the reads that stay in a block or  *)
(* start at one, and if one sector of entries was enough.                  *)
ReadReturnsDisk ==
    LET start == request.address % SectorSize
    IN  ~moved /\ (start = 0 \/ start + request.len <= SectorSize) => ReadIsRight

(* A search that needs one sector of entries meets no panic of the cache:  *)
(* every block it frees is one it has read and the cache still has.        *)
NoPanic == ~moved => step # "panicked"

(* The blocks stay, and go, as in a cache that forgets the one not used    *)
(* for longest.                                                            *)
Recent == [i \in 1 .. cache.list.len |-> cache.map.key[InOrder(cache.list)[i]]]

Lru == INSTANCE LruCache WITH Address <- Key, recent <- Recent
ImplementsLru == Lru!Spec
=============================================================================
