# Georgios: verification project

Georgios is a hobby operating system for i386 written in Zig: a kernel with preemptive threads and processes, a
PS/2 keyboard, ATA disks behind a block cache, a virtual file system over Ext2 and RAM disks, and a few programs.
It runs on one CPU. Python scripts beside it generate parts of the kernel and of the programs' library. This directory holds TLA+ modules that model the parts of it whose correctness depends on
sequences and interleavings, the TLC configurations that check them, and TLAPS proofs. `PROJECT.json` maps each
definition to the lines it is translated from.

## The system

### Threads and time

| Component | State it keeps | Operations | What makes it correct |
|---|---|---|---|
| Time queue (`kernel/threading.zig`, `TimeQueue`) | an array of eight elements linked by indexes, head, tail | `insert`, `check` | the elements that can be reached are one list in order of their times; nobody wakes early; nobody is forgotten |
| Scheduler (`Manager`, and the context switch in `kernel/platform/threading.zig`) | list of threads, current thread, time queue, who waits for whom, exit info, the slot for a thread that waits for a key | `new_thread`, `start_process`, `next`, `yield`, the sleeps, `wait_for_process`, `wait_for_thread`, `wait_for_keyboard`, `exit_current_process` | whoever waits is recorded where something will wake it; only ready threads run; ready threads run some day |
| Timer (`kernel/platform/interrupts.zig`) | `in_tick`, the interrupt flag of the CPU | `tick` calls `yield` | the flag is right after every switch |
| System calls (`kernel/platform/system_calls.zig`), `kernel.exec` | none of their own | one each | `exec` answers the exit info of the process it started |
| Locks and semaphores (`kernel/sync.zig`) | `locked`; a value and a queue | `lock`, `spin_lock`, `unlock`, `wait`, `signal` | exclusion; no lost wakeup; no lost permit |

The timer interrupt calls the scheduler from any point where interrupts are on. System calls and interrupt
handlers enter through interrupt gates and run with interrupts off, until they give the CPU away, or until
`get_key` turns interrupts on again. Kernel threads run with interrupts on, and with them off once they have come
back from a yield of their own. The hard behaviours are there: a child process that ends before its parent waits
for it, a key that arrives between looking for one and waiting for one, a tick between two lines of `wait` or of
`insert_thread`, the scheduler that starts from a thread that has just been removed.

### Keys

The keyboard interrupt handler (`kernel/platform/ps2.zig`) puts codes of one to six bytes together, turns them
into events with the modifiers of that moment (`libs/georgios/keyboard.zig`), pushes them into a ring of 128
(`libs/utils/circular_buffer.zig`) and wakes the thread that waits for a key; `get_key` takes them out. Its state is
a byte count, a `pattern` that is undefined at boot, the modifiers and the ring. Hard: codes that share prefixes,
lost bytes, a full ring. The tables of keys and codes are generated by `scripts/codegen/keys.py` and
`scripts/codegen/scan_codes.py`, which give each key its characters and each of some two hundred codes, pressed and
released, its place by what follows the byte 0xE0 or by its first byte.

### Memory

The buddy allocator (`kernel/buddy_allocator.zig`) keeps a status for each block, a list of the free blocks of each
level, and the links of those lists in the free blocks themselves or in an array. `alloc` splits, `free` merges,
`reserve` withholds a range. It is the kernel's heap and the allocator of kernel address space. Frames, page tables
and guard pages (`kernel/memory.zig`, `kernel/platform/memory.zig`) are below and beside it. Hard: long sequences of
calls; links in memory that changes hands; failures in the middle of a range. It was ported from
`scripts/prototypes/buddy.py`, which keeps the links in a simulated memory and looks a block up by its status on every
level.

### Files

`kernel/platform/ata.zig` reads sectors. `CachedBlockStore` (`kernel/io.zig`) keeps the recent ones in a `MappedList`
(`kernel/mapped_list.zig`), a search tree (`kernel/map.zig`) and a list (`kernel/list.zig`) with common nodes. At boot
`kernel/gpt.zig` and `found_partition` look for a partition, `kernel/fs/Ext2.zig` is mounted from it and a RAM disk
(`kernel/fs/RamDisk.zig`) beside it. `kernel/fs.zig` resolves paths, crosses mounts, creates and unlinks nodes, and
keeps each process's open files. Hard: who owns a buffer after it was read, cached, evicted, freed or not read; a
path that is reported apart from the walk that found it; writes in pieces with memory running out.

### The developers' scripts

`scripts/codegen/generate_system_calls.py` runs before the kernel is built, if its output is older than its inputs. It
reads which calls `kernel/platform/system_calls.zig` declares, asks Zig for the errors each may return, gives errors that
are new to the interface codes of their own, and writes the programs' side of the calls,
`libs/georgios/system_calls.zig`. Its state is that file: the codes are kept between runs, since programs on a disk image
may be older than the kernel. Hard: errors that come and go, edits during a run, runs that are stopped.

`scripts/zig.py` keeps downloaded versions of Zig in a directory and the one in use in a line of `README.md`. Hard: a
stop between downloading, unpacking and naming. `scripts/codegen/code_page_437.py` generates the tables with which the CGA
console turns Unicode into its own characters: a few ranges, and a hash table for the rest.

### The rest

The console with its escape sequences and two displays, the ELF loader, devices (ACPI, PCI, USB, serial), boot and
descriptor tables, formatted printing, the utilities, the programs' library, Tinyish Lisp (an interpreter with a
mark and sweep collector), the shell, Snake and the other programs, and the build tools. `PROJECT.json` lists them all.

## The modules

Each variable is named after the field it stands for.

| Module | Models | How |
|---|---|---|
| `TimeQueue` | `TimeQueue` | a queue is a record; `Inserted`, `HeadDue` and `HeadRemoved` follow `insert` and `check` assignment by assignment. Times are relative to now: `Aged` lets time pass |
| `Sleepers` | its clients | threads that sleep (`Sleep`), the scheduler's `Check`, and the clock |
| `Threading` | `Manager`, switches, `tick`, the system calls that reach it | an action is what the CPU does between two points where it may be interrupted or changes threads; `pc` says in which call a thread is suspended. `next` alone is cut into the iterations of its loop. A thread between calls is in `body` and may do any call. `start_process` turns interrupts off before it calls `insert_thread`; `system_tests` does not, so that its call (`Spawn`) is followed by `LinkTail`, `Place`, `MoveTail` and `List`, one for each write that others can see, with ticks between any two (`insertAt`) |
| `ExecCalls` | abstract: what `exec` promises | a caller stands still until its callee has ended and answers its exit info. `Threading` refines it (`ExecIsACall`) |
| `Sync` | `Lock`, `Semaphore` | every step no interrupt can split; threads follow a program of calls. Of the scheduler it keeps who is in state Run and the interrupt flag |
| `CircularBuffer` | the ring | pure operators on a buffer; what was never written is `Undefined` |
| `Keys`, `ScanCodes` | `keys.py`, `scan_codes.py` | the rows as the scripts list them, and the functions that make the tables of them. A character is named by its key |
| `KeyEvents`, `Keyboard` | modifiers and events; the handler and `get_key` | one action per byte, looked up in the tables of `ScanCodes`; the keyboard is the environment, it may lose bytes |
| `KeyLine` | abstract: a bounded line of key events | `Keyboard` refines it (`ImplementsKeyLine`) while no byte is lost |
| `Heap`, `BuddyAllocator` | abstract heap; the allocator | the allocator refines the heap (`ImplementsHeap`) with the bytes that are used but not handed out as those reserved. `kind` is chosen at the start, since it is a parameter of the type |
| `BuddyPrototype`, `PrototypeClients` | `prototypes/buddy.py`; clients that free what they were given | pure operators on the prototype's state, with the memory its pointers are in; what it raises is part of an answer |
| `BuddyPort` | the two allocators given the same calls | `BuddyAllocator` with the prototype following: `PortAnswersAlike` compares what both answer, `PortFollowsPrototype` their trees |
| `Nodes`, `LinkedList`, `SearchTree`, `MappedList` | the containers | pure operators on node fields |
| `LruCache`, `BlockCache` | abstract cache; the store, the search for a partition, `BlockStore.read` | each read of the search is an action, as are its ends; a buffer knows which sector is in it |
| `Paths` | `Path`, `PathIterator` | a path is the list of its components |
| `PageFile` | the pages of a RAM disk's file | reads and writes go through `GetPage` as the code does |
| `Files` | nodes, mounts, resolution, open files | system calls run with interrupts off, so each is one action. `text`, what a file should hold, is the model's own |
| `SystemCallSource` | what the generator reads | pure operators: a line is the pattern it matches |
| `SystemCallGenerator` | the generator among developers and programs | an action is what happens between two looks at a file or at Zig's answers. `touched` stands for the times of files; `disturbed`, `codesLost` and `program` are the model's own |
| `ZigVersions` | `zig.py` | the script stops between any two actions; an archive is unpacked part by part. `kept` and `stopped` are the model's own |
| `CodePage437` | `code_page_437.py`, `from_unicode` of `cga_console.zig` | `Generate` makes the tables from the list of keys, `Ask` looks a code point up in them |

The operators whose names end in `Slip` are wrong versions of the definition that follows them, one for each
property, with which the property is known to fail.

## The runs

All bounds are constants of the configurations. Deadlock is checked where the system cannot stop.

| Run | Question | Bounds, and why they do |
|---|---|---|
| `sleepers_many` | Is the list in order and well linked, and is nobody woken early, whatever is inserted and removed? | four threads, three slots, naps of 1, 2 and 4: an insert at the head, in the middle and at the end, and a leaked slot as well; `WaitingProofs` has any number |
| `sleepers_tack` | Does `insert` put the last element on the list, as its comment says? Violated | two sleepers suffice |
| `threading_live` | Does each waiting thread have a waker, is `exec` a call, does `next` end, do ready threads and sleepers run? | four threads (idle, boot, `/etc/init` and a process of it), two slots, one key: parents and children exiting in both orders, a sleeper and a reader |
| `threading_kernel` | Are the thread list, the thread on the CPU and the records of whom to wake right with kernel threads too, and in the middle of an insertion? | four threads of which three may be asleep, joined or ended, two of them inserted one after the other with the timer's interrupt before each write; `ThreadingProofs` has any number |
| `sync_clients` | Exclusion, lost wakeups, lost permits | three threads, four waits, a tick between any two steps |
| `sync_tests_end` | Do the two threads of `system_tests` end? Violated | the program is that of the test |
| `keyboard_strokes` | Does the driver deliver what was typed, do the modifiers follow the keys, and is `pattern` always set when read? | each code of the generated tables on its own; a shift key beside a letter and beside the two keys whose codes hold its byte; two letters; bytes lost of the longest codes and of a shift key. A ring of two events and two strokes that `get_key` has not seen yet: order, wrap-around and a full ring. The debugging chord and the other pairs are left to `DriverKeepsLine` and `ModifiersAlwaysFollowKeys`, which have any number of strokes and any ring |
| `buddy_heap` | Does the allocator keep its tree and lists, implement a heap, and do what its prototype does? | both places for the links; eight smallest blocks, four levels; requests of 1, 3, the whole area and more; ranges that end inside a block and in the middle of one; the prototype follows until a block is reserved or a merge has gone wrong in it |
| `prototype_heap` | Is every block the prototype takes in the state it asserts? Violated | eight smallest blocks, requests of one and of two |
| `scripts` | Do error codes stay apart and old programs understand, is what was generated what is declared, is the version a command was about named and there, is the code page inverted? | six implementation files of which four are refused at different points, two errors, two libraries; two versions of Zig; every code point a 16-bit lookup can be asked for, and some more. The scripts share no state, so a behaviour is of one of them |
| `disk_mounted` | Do tree and list agree, is the cache an LRU cache, do readers get the disk, is nothing freed twice? | four sectors, a cache full with three, every error of drive and heap at every read; `BlockCacheProofs` has any number |
| `files` | Is the tree a tree, do files give back what was written, do reported paths lead back, do names keep naming? | two disks, four nodes, two names, pages of two bytes and files of up to three, one process that opens two files; four paths, with `.`, `..`, a slash at the end, relative and above the root; `FilesProofs` has any paths |

Bounds named in the modules: `MaxThreads`, `MaxKeys`, `MaxAsleep`, `MaxStrokes`, `Typings`, `Lossy`, `Node`, `MaxBytes`,
`MaxOpens`, `Requests`, `Sizes`, `Reservable`, `AskedSizes`, `Sources`, `Libraries`, `Version`, `LastCodePoint`.

Two bounds hide something the code does, and are there because one defect would drown the rest. `InstantCalls` says
that no unit of the clock ends while interrupts are off, so that no sleep is over before its own yield.
`Reservable` has ranges that start where the area does, as the one range the kernel reserves. See below for both.
In the same way a behaviour of `Threading` ends (`torn`) where a thread ends in one of the gaps of an interrupted
`insert_thread` that `Tears` names, since its removal leaves the list broken. All the rest of what a tick
can do there is in the model.

### Fairness

Only `threading_live` and `sync_tests_end` have temporal properties that need it. In `Threading` the scheduler's loop,
once entered, goes on (weak fairness: it runs with interrupts off and nothing else can). The clock goes on and the
timer's interrupt, which stays pending until interrupts are on, is taken again and again (strong fairness), and
between two ticks, milliseconds apart, there is time for kernel code to make a step, so that a call that was
suspended is continued if its thread keeps getting the CPU (strong fairness). Nothing is assumed of threads in their
own code: a process may loop for ever. `ReadyThreadRuns` exempts the time in which somebody goes to sleep, since a
timed wake jumps the round robin. `Sync` assumes the same of its steps, and that the round robin gives every thread
in state Run its turn, which `threading_live` checks of the scheduler for threads that do not sleep.

## The proofs

They hold for every value of the constants that satisfies the modules' assumptions (numbers of threads and slots,
sets of naps, programs, sizes), which TLC evaluates for the runs.

* `TimeQueueProofs`: `insert` and `check` keep `GoodList`, a walk from the head is a list in order with each thread
  once. The difficulty is that "linked" is a least set closed under next; the lemmas say what that set is after an
  element was spliced in, removed or aged. The lost tail is covered: the walk need not reach the tail.
* `WaitingProofs`, first half, about `Sleepers`: the invariant is `SleepersTypeOK`, `GoodList` and `Truthful` (a linked element carries the time left of its
  thread's sleep). `NobodyWokenEarly` needs the last part, and it needs the order, since `check` looks at the head only.
* `ThreadingProofs`: `TypeOK`, `RingIsThreadList`, `RunnerIsReady` and `WakersNameWaiters`. What makes them
  inductive: the ring is stated one thread at a time (`RingShape`); the scheduler's loop starts from a thread that may
  have been removed, whose own next pointer still leads to a thread of the list (`CpuInv`); threads that were not
  started are untouched (`UnbornInv`); a thread in `exec` knows its child (`CallInv`).
  Then, in the second half of the module, the other direction: that what is blocked is recorded (`WaitsHaveWakers`),
  which panics can be reached (`NoFailure`), and that `exec` is the call of `ExecCalls`. Processes are a chain of calls (`ChainInv`): all but the
  last one that was started stand in `exec`. So at most one of them sleeps, reads a key or is about to, one slot for a
  reader and one element of the time queue are enough, and the child whose end a caller waits for has nobody else
  waiting for it. That holds for the system as it boots (`~ KernelThreads`), which is the hypothesis of three of the
  theorems. With kernel threads of which several may sleep, `insert` can lose one (`sleepers_tack`) and the queue can
  fill up; what is proved of any configuration is that awake waiters have wakers, that no other panic of the
  scheduler is ever reached, and that nothing but an exit in one of the gaps of `Tears` breaks the list.
  `RingIsThreadList`, `RunnerIsReady` and `WakersNameWaiters` hold after each write of `insert_thread`: the thread that is
  being inserted belongs to the system from the moment the last one points at it (`InSystem`), and what is still to be
  written is told apart (`LastInSystem`, `WayBack`). `NoFailure` also assumes `InstantCalls`, as the run does.
* `WaitingProofs`, second half, about `Sync`: `TypeOK`, `OneInside`, `QueueHoldsWaiters` and `NoPermitLost`, for any programs and any interleaving. They
  need that a waiting thread is between its mark and the end of its yield, and that whoever is inside a call has not
  ended. `NoPermitLost` compares numbers of calls that were made; that each step's line belongs to the call its thread is
  in (`StepsFitCalls`) is what it needs.
* `KeyboardBuddyProofs`, first half: push appends to the sequence a ring stands for, or discards as asked, and pop takes its
  first element, for a ring of any length; with this the short ring of `keyboard_strokes` suffices. Then the driver: the
  bytes taken of a code say what state the handler is in (`InStep`, `PatternInv`), and what `modifiers` says is wrong by
  just the codes that are on the wire (`ModifierInv`). From these `PatternFits`, `ModifiersFollowKeys` and the safety
  part of `ImplementsKeyLine`. Of the tables the proofs use what `TableAssumption` says (each key has one code,
  codes are told apart by their last bytes, and so on), and TLC evaluates that on all the rows of the scripts.
* `KeyboardBuddyProofs`, second half, about `BuddyAllocator` (the two parts share no state, only a module): `TreeFits`, `ListsHoldFreeBlocks`, and
  that the allocator never panics, for any number of levels, sizes, requests and ranges, the ranges that start inside a block
  included. First the arithmetic: powers of two, by induction; the bytes and the pointers of a block; which block is around
  a pointer on each level. A list stands for the sequence of its pointers, as in the block cache, and `Listed`
  says that each level's sequence is that of its free blocks. The invariant (`BuddyInv`) has four parts. `Tree` is about the statuses. With
  `Listed` it makes up `Good`, which each `Split`, `Merge` and `ReserveBlock` keeps, so that the loops of `alloc`, `free` and
  `reserve` keep it by induction (`FoldRuns`). `NoPair`: no two free halves of a block. It does not hold within an
  operation, where just one pair may be there, next to the block the loop has come to (`OnlyPair`). And `AllocsHeld`: what a
  client holds begins with a block in use. Of all the blocks around an address just one is not split or invalid (`OneLeaf`),
  so that `free` finds that block and no other. The hypothesis of the theorems, `PointersFit`, is that blocks whose
  links are in an array are of the size of a free block's links, as in the allocator's tests (`buddy_allocator.zig:621`);
  nothing is assumed if the links are in the blocks, as in the kernel's heap. It fails for the allocator of kernel address space
  (`kernel/platform/memory.zig:267`), where `in_self_offset` (`buddy_allocator.zig:210`) goes beyond the array: see below. That
  nothing panics is a theorem, and in TLC the absence of deadlock, since `BuddyNext` needs `phase = "run"`.
  `AllocatorIsAHeap` then maps each step of the allocator to one of `Heap`. Every byte is in just one block that is free
  or in use (`LeafThere`, `LeavesApart`), so what alloc gives overlaps nothing, and the block that free finds is all that the
  client held (`FreeDoes`). A refusal is right because something is in use below every block that is split
  (`UsedBelow`, from `NoPair`): if no block of the size or larger is free, no place of the size is. Of `reserve`, the loop of
  `is_free` has looked at all bytes before the address it has come to (`Looking`), and the loop that takes the blocks has
  taken them all and left what comes later as it was (`Taking`); both move on by a block, which is what ends them.
  The hypothesis, `RangesFromStart`, is that of the run, and of the kernel: `reserve` is wrong about other ranges, see below.
* `ScriptsProofs`: `CodesNeverClash` and `OldProgramsUnderstand`, for any implementation files, libraries and errors.
  The codes are the numbers from 1 to how many there are, so that the highest one, after which new errors are numbered,
  is also their count; that is true of the part of a file that was written, too, which the next run starts from
  (`Numbered`). That a program's codes stay in the interface needs that they stay in what the script has read of it
  until the file is written (`ProgramInv`), and that every error of a type it asked for has a code (`CoverInv`).
  `SuccessMeansSame` is about the parser, a fold over the lines of a file: what it has found after each line is stated
  without it (`ReadSoFar`), from which `ParsedIsDeclared` follows by induction. `CommandsKeepTheirWord` of `zig.py`
  needs the archives that were unpacked whole (`WholeInv`) and what a command knows half way (`RunInv`).
* `FilesProofs`: the four properties of `Files`, for any number of nodes, processes, paths and open files, and for pages
  and files of any size. The invariant `FilesInv` has these parts. `TreeOk`: entries and parents belong together
  (`TreeInv`), and the other disk stays empty until it is mounted (`MountInv`; else a path could lead into it that is not
  there). `OpenInv`: a node is open at most as often as its count says, and no context is left of a node that was
  freed, which is what `InUse` keeps `unlink` from. `ListingInv`: an iterator is within a directory that only grows.
  `PagesInv` and `TextInv`: while nothing was written where the code's comment fears it goes wrong (`IsPlain`), all pages
  but the last are full, so that a position is in the page the loops of `write_impl` and `read_impl` find. Those loops
  have invariants of their own (`HasWritten`, `HasRead`). `TreeIsSound` also needs that there are no cycles (`Acyclic`):
  a step gives parents to new nodes only, and old ones (`ParentsKept`). `PathsNameNodes` goes by the length of the path;
  `NamesAreStable` goes by the length of the path as well: each stride finds what it found if the step took no entry
  away that the path uses (`StaysBut`). Only `unlink` and `mount` do, and what they take is the node their own path
  leads to; every other call, `close`, `write` and the seeks included, takes nothing.
* `BlockCacheProofs`: the five properties of `BlockCache`, for any sectors, buffers, nodes, limit, size of a sector and
  reads. The containers come first. A list stands for the sequence of its nodes (`ListIs`), and each of
  `PushedFront`, `RemovedNode` and `BumpedToFront` is shown to do to the sequence what its name says. A tree stands for
  the set of nodes below each of its nodes (`Forest`, `Tree`): a search for a key goes down to the one place it can be
  (`FindParentIs`), and insertion and the three cases of removal change these sets as they should. Together they are a
  mapped list of nodes (`MappedIs`), which gives `MapAndListAgree`. Seen through its addresses and buffers the cache is
  a sequence of blocks (`Blocks`), and each step of the store puts one in front, drops one, or drops the last one
  as well (`Follows`), which is what `LruCache` says. The invariant (`CacheInv`) has types and shapes (`TypeInv`), and what is
  lost once a second sector of entries is read (`DiskInv`): blocks have distinct buffers, each holds the sector of its address, and
  what the search holds are the first blocks of the cache, last one read first (`HeldFirst`). This order is why
  nothing that is held is evicted, and why a limit of two suffices (`CacheAssumption`). For `ReadReturnsDisk` the invariant
  says which bytes each piece copied so far has (`Pieces`), and a lemma on concatenation that the pieces are one run of the disk.
* `Induction`: induction over the natural numbers for sets, from the well-foundedness of finite sets, what folds over
  sequences are, and what the library's `RemoveAt` and `FlattenSeq` answer. The library states induction with an operator as a parameter, which the installed provers cannot
  instantiate; stated with a set, they can.

Only model-checked: everything about liveness (`SchedulerAnswers`, `ReadyThreadRuns`, `SleeperRuns`, the fairness in
`ExecIsACall` and `ImplementsKeyLine`), which is out of the prover's reach; what is said of the
buddy allocator's prototype (`PortFollowsPrototype`, `PortAnswersAlike`, `StrayFreeIsRefused`), whose links are written into and
read from a simulated memory byte by byte; and `PageIsInverted`. The code page's tables are sorted and
searched with operators the provers cannot expand, and they are constants, which TLC computes in full.

## What the code does otherwise than it says

Shown by runs:

* **The lost tail** (`sleepers_tack`, `threading.zig:207`). The last case of `insert` is commented "Tack on end", but the old
  tail's next pointer is never set. Unless an earlier insert goes around it, such an element is never reached, its
  thread never wakes and its slot never comes back.
* **A lock kept by a thread that cannot run** (`sync_tests_end`, `sync.zig:63`). `wait` sets its thread's state to Wait
  while it holds the semaphore's lock and with interrupts on. A tick before the next line, and `signal` spins for ever.
* **A link that is not set** (`prototype_heap`, `prototypes/buddy.py:308`). `merge` puts the merged block at the head of a
  list, but leaves the block that was first without its way back. When that one is taken off the list, the list loses
  the merged block or keeps a used one, and a later `alloc` raises `WrongBlockStatus`. The kernel's allocator pushes
  blocks in one place and does not have the mistake; `BuddyPort` has the prototype follow it up to there.

Met while modelling, visible in the model with other constants or from what the runs exempt, and not run here:

* `threading.zig:315`: `insert_thread` leaves interrupts on, and so does `system_tests` (`sync.zig:136`), which
  `kernel.zig:176` has commented out. A tick in the middle of it may let the new thread run, sleep or end before it is on
  `thread_list`. If it slept, `next` does not find it when its time comes (line 401), and it sleeps for ever; the
  model takes that step. If it ended, it is put on `thread_list` after its end, and `wait_for_thread` waits for ever. If the
  thread that `tail` still names ends there, the new one is linked behind a thread that is gone. `Tears` says which exits these are.
* `system_calls.zig:130`: `get_key` turns interrupts on between its look at the buffer and `wait_for_keyboard`. A key that
  comes in between is in the buffer and wakes nobody; the thread sleeps until the next one. `WaitsHaveWakers` holds
  all the same, since the thread is in the slot that the next key empties.
* A sleep that is over before its own yield makes `next` answer the current thread, and `switch_to` loads a context
  saved at an earlier switch (`InstantCalls = FALSE`; the comment at `threading.zig:534` describes the page fault).
* A ready process may wait for ever while another keeps going to sleep: a timed wake does not take its place in the
  round robin, and it leaves the idle thread in state Run (without the exemption in `ReadyThreadRuns`).
* In `system_tests` thread B may hold lock 2 when A asks for it with `lock`, which does not wait; A panics.
* `signal` raises the value and wakes a thread that does not lower it: a semaphore may let in more threads than it has
  permits. `NoPermitLost` is an inequality for this reason, and does not see permits that are duplicated.
* `buddy_allocator.zig`: `reserve` and `is_free` of a range that starts inside one free block step past the start of the
  next, and leave the end of the range free; `free` of an address that is not in use marks the whole area free
  instead of returning `InvalidFree`; with links in an array `in_self_offset` divides by the size of a free block's
  links, which is right only if that is the smallest size (in the kernel's use it is a page, and nothing is freed).
* `gpt.zig:124`: the iterator over partition entries raises the address of its block before it reads the next sector into
  the same buffer. If that read fails, the block it frees was never cached, and the kernel panics; if it succeeds, one
  buffer is cached under two addresses. It takes a table of entries of two sectors (`BlockCache` has it as a constant).
* `generate_system_calls.py`: a run that stops while it writes, as line 326 makes it do at a call that needs the last
  register (which line 301 lets pass), leaves part of a file that the next run takes for up to date; codes that were not
  written yet are given to other errors (`disturbed`, `codesLost`). An implementation that is edited after line 61 compared
  the times is not looked at again. Without an interface file the script crashes at line 138, although line 54 says
  that it will generate one. Changes of error sets alone do not make it run.
* `zig.py`: a version whose unpacking was stopped counts as there (`stopped`); `use` ends well, and does nothing, when
  `README.md` names no version; parts of versions are compared as text, so that `list` has 0.10 before 0.9.
* `fs.zig`: ".." at the root of a mounted disk stays there, since that root is its own parent, while the path that is
  reported goes up. `PathsNameNodes` exempts it (`StaysAtMount`).
* `RamDisk.zig`: a write into a page that is full appends a page (a comment fears it). `IsPlain` says which writes are
  as one would think. `unlink` frees a node that is open. A failed `open_new_context` leaves the count raised. An iterator
  over a directory points into its hash map (line 294), which `put` may reallocate while a program has the directory open
  (line 306); the model keeps only the length that the iterator started with.
* `io.zig:70`: a read that starts inside a block and crosses its end does not get all its bytes: the first block fills less
  than its share of the destination, and the blocks are counted from the length alone. `ReadReturnsDisk` exempts it.

## Not modelled, and why

Frames, page tables, Ext2, the ELF loader, the console and the Lisp collector are planned. Device probing, the
vendored ACPICA and x86emu, drawing, fonts, formatting and `build.zig` are input and output or data with hardly any
state. Snake, the shell and the other programs are sequential clients of system calls. `lint.py` compares lists of
files once, and the scripts that explain a number's bits or write a file of constants have no state. Of the scripts
that are modelled, their messages and the text they generate are left out. Within what is modelled:
page directory switches, the memory of threads and processes, and failing allocations in the scheduler are left out;
formatting, contents of sectors and characters of paths are data.

## The plan

Order: what several actors share first (scheduler, time queue, locks, keyboard), then what lives long on sequences of
calls (heap, cache, files), then what is computed.

1. Done: the modules above, the scripts among them; proofs about the time queue, the scheduler, `exec`, the semaphore,
   the keyboard with its ring, the buddy allocator, the files, the block cache, and the scripts.
2. `Ext2`: the block iterator over direct and indirect blocks against a plain list of blocks, with the directory
   iterator and `BlockStore.read` below it (`Ext2.zig:179`, 271, 305). `Frames`: the frame list, page tables, guard pages and
   the two-step allocation of a range, with failures (`platform/memory.zig:242`, 455, 553; `memory.zig:296`). `Elf`:
   segments and `teardown` after each error (`elf.zig:198`). The programs' allocator (`libs/georgios/memory.zig`).
3. `Console` with `AnsiEscProcessor`; the ATA command protocol; the collector of Tinyish Lisp with its roots.
4. Proofs: that the buddy allocator follows its prototype, from `BuddyInv` and a relation between links by address and by
   block; powers of two as a recursive function would come first, since the provers cannot expand `^`.
