# MyTFS: a verification project

TLA+ models of the block storage engine in this repository, TLC runs that check
them on small instances, and proofs, checked by TLAPS, that hold for instances
of every size. Paths below are relative to `src/`.

## 1. The system

MyTFS keeps many small files in one *block*. A block is two files: the *main
block*, which holds the contents one behind the other, and the *index*, a
header, an array of hash buckets and a growing array of 24-byte nodes
(`MetaInfo`), one per small file. Command-line tools work on a block one
operation at a time: each maps the index into memory, changes it in place, and
ends. There is no server, no log and no lock; what a tool stored in the shared
mapping is in the file the moment it is stored, whether the tool ends well or is
killed.

| Component | State | Operations | Talks to |
|---|---|---|---|
| `FileOperation` (`file_op.*`) | descriptor, file position | `open_file`, `close_file`, `check_file`, `pread_file`, `pwrite_file`, `read_file`, `write_file`, `seek_file`, `ftruncate_file`, `get_file_size`, `flush_file`, `unlink_file` | the kernel |
| `MMapFile`, `MMapFileOperation` (`mmap_file*.{h,cpp}`) | mapping, its length, `is_mapped`, `map_file_` | `mmap_file`, `munmap_file`, `remapFile`, `pread_file`, `pwrite_file`, `flush_file` | inherits `FileOperation` for what the mapping does not cover |
| `IndexHandle` (`index_handle.*`, `head.h`) | the words of the index: header, buckets, nodes, free list | `create`, `load`, `remove`, `hash_find`, `hash_insert`, `write_segment_meta`, `read_segment_meta`, `delete_segment_meta`, `commit_block_data_offset`, `update_block_info`, `flush` | `MMapFileOperation`; the header and the buckets it reads and writes through the mapping |
| `block_write`, `block_read`, `block_delete` | which step they are at, `data_offset`, `file_no` | one run each | `IndexHandle`, and the main block through `FileOperation` |
| `block_init` | - | create both files; on failure remove the index | both |
| `space_reclamation`, `block_recla` | offsets of the compaction | move contents to the front, truncate, reset counters | `IndexHandle`, main block |
| `block_stat` | - | load and print | `IndexHandle` |
| `main.cpp`, `*_test.cpp` | - | demonstrations and manual tests | `MMapFile`, `FileOperation` |

What makes each of them correct:

* **FileOperation**: a transfer stores or reads a prefix of its buffer, all of it
  exactly when it reports success; it ends; no descriptor is lost.
* **MMapFileOperation**: the same, whichever way an access takes; the mapping
  never reaches behind the end of the file.
* **IndexHandle**: every file is the head of a chain of its bucket, no node is in
  use twice or lost, the counters are those of the files, stores hit nodes only.
* **The tools**: what they report is so, also when earlier runs failed or were
  killed; contents of existing files are not overwritten; they end; a run touches
  the block it was asked for and no other.
* **block_init**: a block is complete or not there, whichever call failed.
* **space_reclamation**: no file's bytes are given up.
* **Without a lock**: a read beside changes returns what was so at some moment;
  processes that lengthen the index at the same time cut nothing off.
* **After a power failure**: a file whose write was reported and then synchronised
  is still there.

Hard behaviours: a tool killed between two stores to a shared mapping; a store
that fails in the middle; an access that straddles or exceeds the mapping and
goes through system calls that may be short, interrupted or fail; the free list
across reuse, deletion and failure; a layout in which the first node lies on top
of bucket slots; several files in one chain; a node that is freed or reused while
another process reads it; a length of the index that is compared and then set, by
two processes; a report that comes before the data is synchronised; an index cut
short in its creation and extended by the
next load; a handle made for the wrong block or used after it was deleted; a
compaction that is handed the wrong file; sectors of different ages after a power
failure. `PROJECT.json` lists each hazard at
the line where it bites, with the properties that cover it or the reason why none
does yet.

## 2. The modules

| Module | Models | |
|---|---|---|
| `FileOperation` | `file_op.cpp` | one action per operation, one per iteration of a transfer loop |
| `MMapFileOperation` | `mmap_file_op.cpp`, `mmap_file.cpp` | uses `FileOperation` as an instance on the same variables |
| `MCFileAccess` | - | compares `MMapFileOperation` with what `IndexHandle` assumes of it |
| `IndexLayout` | layout of the index, `head.h`, `index_handle.h` | words, headers, slots, nodes; `FreshIndex` is what `create` leaves |
| `IndexHandle` | `index_handle.cpp`, `block_write.cpp`, `block_read.cpp`, `block_delete.cpp` | one action per store or fallible read |
| `SpaceReclamation` | `block_reclamation.cpp`, `block_recla.cpp` | a fourth tool beside those of `IndexHandle`, sharing its `hash_find` |
| `BlockTools` | `block_init.cpp`, `block_stat.cpp`, constructor, `create`, `load` and `remove` of `index_handle.cpp`, the heads of the other tools | several blocks, one action per call; what a tool does with a loaded index is one step |
| `BlockRace` | `block_read.cpp` beside the others | two instances of `IndexHandle` on the same words |
| `Durability` | `~MMapFile`, `syncFile`; kernel and disk | `IndexHandle` with a disk under it |
| `FileTable` | - | the abstract block: a set of files and a counter |
| `BlockStore` | - | the abstract set of blocks, each with such a table |
| `IndexProperties` | - | invariants, the refinement mapping to `FileTable`, the inductive invariant |
| `MCIndex`, `MCReclamation` | - | what the repository states and the code does not keep, of the index and of compaction |
| `IndexSafety` | - | proofs: types, what each store changes, and that each step keeps the invariant |
| `IndexLedger` | - | proofs: counters, ids, bytes, no node lost; the refinement of `FileTable` |
| `ReclamationProofs` | - | proofs: the same with compaction among the tools |
| `BlockRaceProofs` | - | proofs: a reader beside writers |
| `DurabilityProofs` | - | proofs: what survives a power failure |
| `FileOperationProofs`, `MMapFileOperationProofs` | - | proofs: descriptor and loops; the same through a mapping, and what `IndexHandle` assumes of it |
| `BlockToolsProofs` | - | proofs: the indexes of all blocks; the refinement of `BlockStore` |

### State and code

`IndexHandle` keeps the words of the index in `mem`, a function from byte
addresses (multiples of four) to integers: `mem[SEQ_NO]` is
`block_info()->seq_no_`, `mem[SlotAddr(s)]` is `bucket_slot()[s]`, and
`ReadMeta(mem, o)` is what `pread_file(&meta, sizeof(MetaInfo), o)` fills in.
Because slots and nodes are addresses of the same words, the overlap that
`create` makes (`sizeof(IndexHandle)` is 24, `sizeof(IndexHeader)` 44) is in the
model without being written down anywhere: a node stored at `NodeBase` changes
the last five slots, and an offset read from such a slot need not be aligned
(`Word` puts its four bytes together). `fsize` is the length of the index,
`mapped` what the running tool maps of it, `block` the main block as a function
from offsets to the file whose bytes are there. `pc`, `key`, `pos`, `prev`,
`cur`, `meta` and `step` are the locals of the tool that runs; `op` and `ret` say
which it was and what it reported.

A run of `block_write` is `StartWrite` (load, read `data_offset` and `file_no`),
`WriteBlock`, `HashFindSlot`, `HashFindNext`..., `HashFindEnd`, `ReuseNode` or
`AppendNode`, `StoreMeta`, `LinkNode` (and `RelinkNode`), `CommitOffset`, four
times `UpdateBlockInfo`, `Flush`. A read ends with `ReadSegmentMeta`, `ReadBlock`;
a delete with `UnlinkNode` (and `UnlinkBehind`, `BypassNode`), `FreeNode`,
`PushNode`, five times `UpdateBlockInfo`, `Flush`. Every access that can fail may
fail, and takes the code's error path in the same action. `Kill` ends the tool
between any two of these; `KillStoring` ends it while `memcpy` or `pwrite64`
copies a node, of which some first bytes are then in the file: `PartOfMeta` takes
whole words and, of the word in which the copy ends, its low bytes.

`SpaceReclamation` adds `StartRecla`, `CheckDeleted` (the two returns at the top),
`NextFile` (the loop's condition), `CopyChunk` (one `pread_file` and
`pwrite_file`, of the whole file or of a buffer), `Truncate` and three times
`ResetHeader`; the lookup in between is `hash_find` of `IndexHandle` with `op =
"recla"`. The file it works on is what `block_recla` really opens: with the path
it builds from `MAINBLOCK_DIR_PREFIX` (a number) that is a new empty file beside
the main block, of which only the length (`handed`) is kept.

`BlockTools` keeps of an index whether its name exists, its length, how many bytes
of the image that `create` writes are in it, and its files as the other modules
define them. `WordAt` gives the header words that a reader of a partly written
image gets. A run of `block_init` is `TruncateMain`, `OpenIndex`, `WriteImage`,
`FlushImage`, `MapIndex`, `CloseBlock`, or `RemoveIndex` after any failure; a run
of another tool `OpenIndex`, `MapIndex`, `CheckIndex` and one of `UseWrite`,
`UseDelete`, `UseRead`, `UseOther`. `HandleFor` says which index it opened:
`block_read`, `block_delete` and `block_stat` construct their handle while
`block_id` still has its initial value 1. They also use their handle after
`delete`. What that does is undefined; with the sizes involved the freed object's
`file_op_` lies in the part an allocator overwrites or that the destructor left
null or dangling, so `remove` follows a wild pointer and crashes, or finds nothing
to unlink: `AfterDelete` allows both.

`BlockRace` extends `IndexHandle`'s variables, which are those of the process that
writes and deletes, by a second set for the process that reads; `mem`, `fsize` and
`block` are shared. Neither copy of a node is one step: `CopyPart` makes any subset
of its words visible before the store is complete, and `ReaderCopies` takes words
of `ReadWords` earlier than the rest, so a reader acts on a mixture of two moments
(`NodeRead`) of what may itself be a mixture. `ensureFileSize` is `fstat` and then
`ftruncate`: `ReaderCompares` and `WriterCompares` remember the length to be set
(`rtodo`, `wtodo`), `ReaderTruncates` and `WriterTruncates` set it, whatever the
file has become in between, and words behind it are gone. Where that makes the
file shorter (`cut`) the run of the model ends: processes then have mappings that
reach behind the file, and the next store or read there is a `SIGBUS`. `files` and
`seen` are history: which files are
linked, and what was so of the reader's file during its run. (Loads and stores of
one process are seen in their order, as on x86, and the compiler cannot move them
over the calls they are arguments of.)

`Durability` puts a disk under `mem`. `WriteBack` takes one sector there at any
time. A tool reports first: `block_write` prints success (`block_write.cpp:120`)
after a `flush` that waits for nothing, and only `delete index_handle` (`:126`)
comes to `msync` with `MS_SYNC`. Between the two the process is `closing`;
`Destroys` then takes all that is mapped to the disk, or nothing, because it was
killed or `msync` failed, of which nobody learns (`mmap_file.cpp:32`). `Syncs` says
which runs get there at all. `PowerFailure`, at any moment, makes the disk's words
those of the file, with any length it may have had.

`MMapFileOperation` and `FileOperation` model a file position by position. The
kernel is modelled from how the loops use it: a call transfers between one byte
and all that was asked for, or fails with an errno the loops distinguish, or a
read meets the end of the file. `Access` is `pread_file` and `pwrite_file`:
remap once if the mapping is too short, copy if it then covers the access, else
run the loop. The descriptor reached in a process is at least `FirstFd`.

`MCFileAccess` joins the two levels. It runs `MMapFileOperation` in units of
words and asks, when an access to a six-word node is done, whether what happened
to the lengths of mapping and file and to the node is among the outcomes that
`Remapped`, `Preads`, `Pwrites`, `Fails` and `FailsStoring` of `IndexHandle`
allow. (This is how `FailsStoring` came to leave a part of a node behind: a
`pwrite_file` that gives up after a short write does.)

### Where the index works

With `bucket_size` 1000, as in the tools, the 995th file is the first whose slot
lies under the first node. Two conditions name the regime in which the design
works as intended:

* `EarlyBlock`: ids stay below the overlapped slots (`MaxId + 5 < BucketSize`);
* `FullyMapped`: the index fits into the largest mapping (below 1,024,000 bytes).

Within it every chain has at most one node. The runs `index_early`,
`index_kills`, `block_race` and `durability` and all theorems are about this
regime; `index_faults` leaves
`FullyMapped`, `index_whole` both; the runs that end in a violation show what
goes wrong outside, or what a document of the repository promises and the code
does not keep.

## 3. The runs

| Run | Bounds | Shows |
|---|---|---|
| `index_early` | 10 buckets, 4 ids, 1 kill, 200-byte buffer for 300-byte files | with `block_recla` among the tools: `ReportsTruth` and `FileTable` also after the kill; without one `CountersAgree`, `NoLeak`, `BytesKeptByReclamation`, `OffsetBalance` |
| `index_kills` | 9 buckets, 3 ids, 2 kills | `ReportsTruth`, `FreeListSound`, `IndexInv`, `LedgerInv` (which implies `BytesKept`), `FileTable` still implemented, every run ends |
| `index_faults` | 11 buckets, 5 ids, nodes never mapped | `ReportsTruth` and `SeqNoFree` when any access may fail in the middle |
| `index_whole` | 7 buckets, 6 ids, small mapping | `TypeOK`, `CountersBalance`, `BytesKept`, `StoresHitNodes` with overlapped slots and chains; `FreedIsUnlinked`: a delete frees a node only when its chain does not lead to it any more, whichever access failed |
| `file_operation` | files up to 4 bytes, 3 calls per loop | `TypeOK`, `WritesPrefix`, `ReadsExactly`, `NoDescriptorLost`, `LoopInv`, every transfer `Ends` |
| `file_access` | 12 words, mapping from 5 to 11 | `WritesPrefix` and `ReadsExactly` through a mapping, `MappingInsideFile`, `MapInv`, `AccessAsAssumed` |
| `block_tools` | blocks 0, 1, 2, 2 files each, 1 kill or failed unlink, the real sizes | `UsesWholeIndex`, `InitialisedLoads`, `IndexAfterBlock`, `CreatedOrNothing`, `BlockInv`, and the blocks implement `BlockStore` |
| `block_race` | 9 buckets, 3 ids, 2 deletes, a mapping that begins with one node | `ReadLinearizable`, `CutOnlyAfterFailure`, and every read ends |
| `durability` | 8 buckets, 2 ids, sectors of 13 words, 1 kill, 1 power failure | `Durable` |
| `index_lost`, `index_offset`, `recla_skips` | smallest that show it | the findings below |

**Why the bounds are enough.** Buckets and ids matter only in relation: five
slots are overlapped, so seven buckets give ids on both sides (`index_whole`: 1
is below, 2 to 6 are in them), and 9, 10 or 11 buckets give 3, 4 or 5 ids in a row
below. Three files give a free list of three nodes in every order of deletion, two
kills hit one run of each kind or two of the same, and 4 or 5 ids with 9 deletes
reuse nodes while others are in use. A compaction meets files before, between and
behind deleted ones, none at all, and a file in two chunks of its buffer. `MaxDeletes` counts deletions only to stop; ids
bound the writes, because the counter is never given back. `TornBytes` says how
many bytes of a node a store cut short by a failure or a kill may have written: 0
none, 13 the id, the offset and the low byte of the size (44 of 300), 20 all but the
padding. A transfer of up to 4
bytes in at most 3 calls is cut short in every way that a longer one can be: the
loop keeps only how much is left and the count. `file_access` starts with a
mapping that ends inside the first node, grows it once inside the second and once
to its maximum, which no node reaches. Three blocks are the one that handles are
made for too early, another, and the one whose id `load` takes for none; `Cuts`
has one length for every case `load` can tell apart (no id, an id, a part of
`bucket_size_`, the whole header) but one, named under 6. A reader keeps nothing
but a node and the one before, so three files give it each of: its own node, one
that was freed, one that was reused, and a free list behind. Of what it copies
only the words that decide where it goes matter, the low word of the id and the
link (`ReadWords`); the proofs are for any. A sector of 13 words ends between the
slots of the two files, the mapping between their nodes, inside the second sector;
two files give a node on the free list while another is in use.

**Fairness.** `FairSpec` of `IndexHandle` is weak fairness of the running tool's
steps: its code waits for nothing but the kernel, so a process that is not killed
takes its next step. Nothing obliges a user to start a tool. A kill ends the
run as well, so `Terminates` says a run ends by itself or is ended. `FairSpec` of
`FileOperation` is the same for a transfer loop; that system calls return is part
of it. `RaceSpec` has weak fairness of the reader's steps alone: writers may stop
anywhere or go on as long as the bounds let them. (That they cannot go on for ever
is a bound of the model: a reader that is led from one node to the next as fast as
others are freed in front of it is not excluded by the code.)

Neither specification stops by itself, so deadlock is checked in every run.

## 4. What is proved

Every theorem holds for all values of the constants: any number of buckets, ids,
files, blocks, bytes, deletes, kills and faults. Assumed are the conditions named
with the theorem, and the assumptions on constants (`LayoutAssumption`,
`IndexHandleAssumption`, `MMapAssumption`, `FileOperationAssumption`,
`BlockToolsAssumption`, `BufferAssumption`, `DurabilityAssumption`), which TLC evaluates in the runs. The
inductive invariants `TypeInv /\ IndexInv`, `LedgerInv`, `LoopInv`, `MapInv` and
`BlockInv` are themselves invariants of the runs; `ReclaInv`, `RaceInv`, `CutInv`,
`BegunInv` and `DiskInv`, which only serve the proofs, are not.

### One block (`IndexSafety`, `IndexLedger`)

Under `EarlyBlock` and `FullyMapped`:

| Theorem | States |
|---|---|
| `TypeCorrect` | `Spec => []TypeOK` |
| `FreeListCorrect` | `Spec => []FreeListSound` |
| `ReportsCorrect` | `Spec => []ReportsTruth` |
| `IndexSound` | `Spec => [](TypeInv /\ IndexInv)` |
| `CountersBalanced`, `CountersExact`, `NextIdFree` | `CountersBalance`, `CountersAgree`, `SeqNoFree`: without a kill, the counters are those of the files and the next id is unused |
| `BytesNeverLost` | `BytesKept`, also after kills and failures: for every file some place in front of `data_file_offset_` (or at it, after a kill) holds its bytes; that the node leads there is not so (finding 4) |
| `StoresOnlyNodes` | `StoresHitNodes`, if the index has room for a node of every id and every kill (`RoomForAll`) |
| `NoNodeLost` | `NoLeak`: without a kill, every allocated node is in use, held by the running tool or on the free list |
| `LedgerSound` | `Spec => []LedgerInv` |
| `TableImplemented` | `Spec => ImplementsFileTable`: a block refines the abstract file table |

**The argument.** None of these is inductive alone. `TypeInv` adds to the types
which tool may be at which step and how far it can count. That a hash slot is a
word of the index needs `bucket_size_` to be unchanged, that stores leave the
header alone needs them to hit nodes, that they hit nodes needs the buckets and
the free list to hold nodes, and that needs the overlapped slots to be out of
play. `IndexInv` says all of it at once: `HeaderInv` (bucket size, counter, end of
the node area), `MappedInv` (what a tool finds or reuses is mapped, so that only
appending can go beyond the mapping, and only a store to an appended node can
fail), `BucketsInv` (a bucket is empty or leads to one stored node, that of its
file, with no successor), `RegistersInv` (what the running tool knows), `FreeInv`
(some set of allocated nodes is the free list, disjoint from the nodes in use and
from the one the tool holds) and `TruthInv` (what will be reported is so already).
The free list is stated by a set closed under links on which links are one-to-one,
and not by a recursive walk, so that each store is a first-order step: popping
removes the head, pushing adds it.

The first part of `IndexSafety` says what each kind of store changes (a header word,
a slot, a node and nothing else); the second has one lemma per group of actions, which
`IndexInvStep` collects. The walks behind the first node
(`RelinkNode`, `UnlinkBehind`, `BypassNode`) are shown unreachable in the regime.

The counters are wrong while a tool works: it links its node first and counts it
by four or five stores later. `LedgerInv` speaks of them as they will be: `Due`
is what the running tool still owes by its `i`-th update, and the `Final` values
are the counters with the debt paid (`CountInv` for files and sizes, `OffsetInv`
for the offset, `IdsInv` for the id). A kill leaves a debt unpaid, so those parts
hold while `kills = 0`; what a kill cannot break is stated for all of them: what was committed to the main block, and the end
of the node area, are a number of files and of nodes that the ids and the kills
account for (`BytesInv`, `NodesInv`), and the slot that the next write fills holds
no file but perhaps the one with the id that is given out again. The steps of the
refinement: linking a node is `Put` once the id is counted, unlinking it is
`Remove`, everything else leaves the table alone.

That no node is lost (`NoLeak`) needs the free list once more, now with its
length: it is a function that counts the spare nodes, from 1 for the last to the
head, each linked to the one with the number below. Such a list grows and shrinks
at its head by one more or one less argument, so pushing and popping are again
first-order steps (`ListPushed`, `ListPopped`) and no walk has to be unrolled. One
lemma each says that a step takes a spare node, holds one, gives one back, or
moves none (`TakeStep`, `HoldStep`, `GiveStep`, `SpareKept`). A write or delete
that is killed keeps what it held, hence `kills = 0`.

### Compaction (`ReclamationProofs`)

Under `EarlyBlock` and `FullyMapped`, for `ReclaSpec`: `block_recla` runs between,
before and after the other tools.

| Theorem | States, while no tool is killed |
|---|---|
| `ReclamationKeepsBytes` | `BytesKeptByReclamation` |
| `OffsetBalances` | `OffsetBalance` |
| `ReclamationKeepsIndex` | `CountersAgree`, `SeqNoFree` and `FreeListSound` |
| `ReclamationLosesNoNode` | `NoLeak` |
| `ReclaSound` | `ReclaSpec => []ReclaIInv` (`TypeInv` and `ReclaInv`) |

**The argument.** The steps of the other tools keep `IndexInv` and `LedgerInv` by
the lemmas of the section before, but for one part: a compaction forgets the
deleted files while ids and nodes remember them. So the books of `LedgerInv`
(`Books`) are kept apart from the one statement that a compaction makes false
(`BalanceInv`: ids given out are files and deleted files). Why a compaction comes
to nothing is in `HandedInv`: it looks id 1 up and no other, because were that
file found, its first chunk would have to be read from the file handed in, which is
empty (`Plain` says that a file found has a size and an offset which that file does
not reach), and were it not found, the loop ends with an error. `EmptiedInv` says what
that leaves: a truncation, and the reset, only while `Indexed` is empty and the
sizes add up to zero. After a kill this is no longer so (finding *Compaction after
a killed write*), and `ReportsTruth` and `FileTable` with `block_recla` among the
tools are then checked in `index_early` only.

### A reader beside writers (`BlockRaceProofs`)

Under `EarlyBlock` and `FullyMapped`, for `RaceSpec`:

| Theorem | States |
|---|---|
| `ReadsLinearizable` | `ReadLinearizable`: a read finds, or misses, what was there, or was not, at some moment of its run |
| `RaceSafe` | `FreeListSound`, `CountersBalance` and `BytesKept` of the tools that write and delete, until a length out of date cuts the index off |
| `CutsNothingBefore` | `CutOnlyAfterFailure`: that takes an access that failed before, if one extension of the mapping makes room for a node (`PerMap >= META_SIZE`) |

**The argument.** The reader adds nothing to the words, and until it cuts something
off it only lengthens the file, which `IndexInv` and `LedgerInv` allow for; so the
writers' invariant survives. For the reader, `SeenInv` relates what it holds to the history in `seen`.
A bucket that is not empty holds the node of its file, so a reader that goes from
it to a node has seen the file there, and whatever it then finds is justified. To
miss the file it must meet a node without its key, and as long as it is at the
node at the head of its bucket it does not: a store copies only into a node that
no bucket leads to (`CopyPart`), so the words of that one are whole, and those that it copied
earlier are of its key (`Differs`), or were copied when its file was not yet or no
longer there. If it is at any
other node, its file was unlinked since, and the miss is justified as well -
whatever the node held by then was freed, reused or half overwritten. Later nodes
on its way, perhaps on the free list, need no other argument.

Nothing is cut off while every access succeeds (`CutInv`), for three reasons. All
processes map, and set, lengths of one grid, `FirstMap` and then `PerMap` more each
time (`GridSteps`). What leads to a node - a bucket, the free list, another node, a
link that the reader copied earlier - leads to one inside the file, so that a
mapping too small for it can be extended without making the file longer, and the
reader never asks for a length (`ReaderQuiet`). Only the store of an appended node
does make it longer, and one tool at a time does that. Once an access failed, none
of the three need hold: a node added with `pwrite64` lies in a file whose length is
not of the grid.

### After a power failure (`DurabilityProofs`)

Under `EarlyBlock` and `FullyMapped`, for `DurSpec`, with sectors of any size:

| Theorem | States |
|---|---|
| `SurvivesPowerFailure` | `Durable` in every state up to the first power failure and in the one right after it |

`Durable` does not speak of a file that was only reported: one whose process was
killed, or whose `msync` failed, between the report and the end of the mapping, may
be lost (section 5).

**The argument.** When `block_write` has reported success and then destroys its
mapping, and `msync` does not fail, two things are on
the disk: the slot of its file and the node the slot leads to (`SyncedFile`). Every
later store of any tool, whole or cut short, leaves both as they are for every file
that is not being deleted (`FilesKeep`): a slot is written only by the write and the
delete of its own file, and `IndexInv` keeps a node in use apart from the free list
and from the node a tool fills. So whatever sector is written back later, and
whichever run ends with or without `msync`, puts the same words there again. `DiskInv` says
this, and that a file stops being counted as durable when its deletion starts.
The power failure makes the disk's words those of the file; slot and node are
among them, and nothing else is needed to find the file.

### File access (`FileOperationProofs`, `MMapFileOperationProofs`)

Under `FirstFd > 0`: a process starts with descriptors 0 to 2 open. (`open_file`
and `close_file` take descriptor 0 for none, so a process that was started with
its standard input closed may open its file twice and lose a descriptor.)

| Theorem | States, for `FileOperation` and then through a mapping |
|---|---|
| `FileTypeCorrect` | `Spec => []TypeOK` |
| `DescriptorKept` | `NoDescriptorLost` in every order of open, close, unlink and use |
| `PrefixWritten`, `MappedPrefixWritten` | `WritesPrefix` |
| `BufferFilled`, `MappedBufferFilled` | `ReadsExactly` |
| `MappingStaysInside` | `MappingInsideFile`, whatever failed while the file was extended or mapped |
| `AccessIsAsAssumed` | `AccessAsAssumed`: accesses to nodes do to mapping, file and node what `IndexHandle` assumes |
| `LoopSound`, `MappedSound` | `LoopInv`, `MapInv` |

**The argument.** Between two calls a write loop has stored the first `n - left`
positions of its buffer and left all others as they were (`Overlaid`), a read loop
has filled the same positions of its buffer (`Filled`), and the length of the file
is that of before or reaches as far as was written. `JobInv` says so for whichever
loop runs or ran last, and `HandleInv` that the only open descriptor is the
object's. `MapInv` is `LoopInv` and a mapping that ends inside the file.
`MMapFileOperationProofs` instantiates `FileOperationProofs` on its own variables,
so a loop behind the mapping needs no proof of its own; a copy through the mapping
is shown to be a loop that is done.

`AccessIsAsAssumed` ties the two levels together: the proofs about one block take
the operators `Remapped`, `Preads`, `Pwrites`, `Fails` and `FailsStoring` for
granted, and this theorem says that `MMapFileOperation`, at every size of file and
mapping, does nothing else. `BegunInv` remembers for it, while the loop behind the
mapping runs, how an access found mapping and file and which of the three outcomes
its one `remapFile` had (kept, file grown, both grown); what remains is arithmetic
between words and bytes, and the prefix that `WritesPrefix` leaves of a node.

### All blocks (`BlockToolsProofs`)

| Theorem | States |
|---|---|
| `UsesWhole` | `UsesWholeIndex` |
| `InitialisedLoadable` | `InitialisedLoads` |
| `IndexAfterMain` | `IndexAfterBlock` |
| `WholeOrEmpty` | `CreatedOrNothing` |
| `BlockSound` | `Spec => []BlockInv` |
| `StoreImplemented` | `Spec => ImplementsBlockStore`: the blocks refine the abstract block store |

**The argument.** `AcceptedIsWhole` and `FullIsAccepted` relate what `load`
compares, header words of an index of which perhaps only some bytes were written,
to what is there: an accepted index was made for the block that was asked for and
has the whole of its header. This is where the one gap in `BlockToolsAssumption`
(section 6) is needed. `BlockInv` then says what every index may be at any moment:
empty or with files only if it is whole; complete and long enough if its creation
was reported; and, as long as no fault happened, half-made only while the
`block_init` that makes it still runs (`IndexesInv`); and what a running
`block_init` relies on (`InitRunInv`), which never works on a block it is not
asked for and opens the index only after the main block has its length. In the
refinement writing the image is `Make`, also when it is cut short but long enough
for its header; unlinking a whole index is `Discard`; a tool's use of the index it
accepted is `Put` or `Remove`; opening, mapping and extending change nothing the
store can see.

### Only model-checked

* Everything outside the regime of `EarlyBlock` and `FullyMapped`: chains with more
  than one node are out of reach there for a first-order invariant, and most of
  what one would prove is false (section 5). `FreedIsUnlinked` is about such chains.
* Liveness (`Terminates`, `Ends`, `ReadEnds`), which TLAPS does not reason about.
* `ReportsTruth` and `ImplementsFileTable` with `block_recla` among the tools; they
  are proved for `Spec`, that is for the other three tools, with kills.
* `Durable` while tools go on after a power failure: the words of the index are then
  any mixture of older and newer sectors, and nothing like `IndexInv` holds of them.
  What may happen then, and how little `Durable` can promise of it, is in section 5
  (*After a power failure*).

## 5. Findings

1. **First node over the last five slots** (`index_lost`): `create` uses
   `sizeof(IndexHandle)` where the comment below it says `index_header + total
   buckets` (`index_handle.cpp:59-60`). In the trace the first node lies on the slot
   of id 5, whose write takes that word for the first node of a chain.
2. **A write that is lost** (`index_lost`): linking behind an existing node stores
   the changed previous node at the new node's place (`index_handle.cpp:353`);
   the new file's node is overwritten and success is reported.
   Both are in one trace; without the first it takes as many files as buckets.
3. **A compaction ends at the first deleted id** (`recla_skips`): `space_reclamation`
   passes over another code than `hash_find` returns (`block_reclamation.cpp:124`),
   where `block_reclamation.cpp:15` and `:128` say that deleted files are passed over
   and `README.md:235` that the remaining ones are made contiguous. Corrected, it
   would still fail: `block_recla.cpp:50` hands in a new empty file, from which no
   file's bytes can be read. So it succeeds only in a block without files, and the
   main block never shrinks.
4. **Every file reads the first one's bytes** (`index_offset`): `hash_insert`
   resets the inner offset (`index_handle.cpp:333`).

**Observations**: what else the models showed, for which no run is kept.

* *A killed write blocks the block.* Killed between linking its node and
  `++seq_no_` (`index_handle.cpp:365`, `:385`), a write leaves a file whose id is
  the next to be given out; every later write ends with
  `EXIT_META_UNEXPECT_FOUND_ERROR`. Hence `SeqNoFree` and the counters are stated
  for `kills = 0`; nothing repairs an index.
* *A search that never ends.* With as many files as buckets a deletion closes a
  chain to a circle, and `hash_find` (`index_handle.cpp:283`) follows it for ever.
* *A failing store into a reused node*, which the mapping does not cover, shrinks
  the node area (`index_handle.cpp:338`), after which `FreeListSound` and
  `ImplementsFileTable` do not hold.
* *A reader that cuts the index off.* A read comes to a node behind its mapping,
  and `ensureFileSize` finds the file too short (`mmap_file.cpp:113`). Before it goes
  on, a writer fails to extend the file, adds its node with `pwrite64`, which makes
  the file longer, links it and reports success. The reader then sets the length it
  asked for (`:120`), and the linked node is cut off: a later read denies a file that
  is there. To the code the call only adds memory ("追加内存",
  `mmap_file_op.cpp:86`). That it takes such a failure is proved (`CutOnlyAfterFailure`).
* *Reported before it is written.* `block_write` prints success (`block_write.cpp:120`)
  after an `msync` that waits for nothing (`:98`), and synchronises in the destructor
  (`:126`), which nobody asks whether it could (`mmap_file.cpp:32`). A file reported
  before a kill or a failure there is lost when the power fails, though
  `README.md:214` says that the block's information is written synchronously
  ("同步写入磁盘"). `block_delete` exits without it altogether.
* *Compaction after a killed write.* If the write of the only file was killed
  before it was counted, `file_count_` is 0: the compaction passes over the file
  and sets `data_file_offset_` back, and the next write overwrites its bytes. If
  that file is then deleted, `size_` is negative, and the next compaction makes
  the offset negative too: every later write fails.
* *Only block 1 can be read.* `block_read`, `block_delete` and `block_stat` open
  the index of block 1 for every id; asked for another block they end with a
  conflict of ids and then use the handle they deleted.
* *Initialising twice destroys.* A second `block_init` fails because the index
  exists, and then unlinks it, files and all (`block_init.cpp:57`). Block 0 is
  created with success and accepted by no other tool.
* *A rejected index is accepted the second time.* `load` measures the index before
  mapping extends it (`index_handle.cpp:127`, `:141`, `:160`). This is harmless
  for an image cut before byte 30 or behind byte 37; between, the node area begins
  at byte 0 or 184, and the first write stores a node over the header or the slots.
* *A reader's second look.* `read_segment_meta` reads the node again without
  comparing its id (`index_handle.cpp:416`), so beside a delete and a write it may
  return another file's `MetaInfo`.
* *After a power failure* a slot may be on the disk without its node. The next
  write of that id then walks over a node of zeros, links behind it and reports
  success for a file that cannot be found. And if that node cannot be read the
  second time, to be linked (`index_handle.cpp:345`), the rollback takes 24 bytes
  from an `index_file_size_` to which a reused node has added nothing: the write
  after that puts its node over the one of a file whose write had succeeded before
  the failure (a trace of 63 steps with 3 ids). So `Durable` counts files written
  before the first failure, and those until a write or the power fails after it. A
  node stored by `pwrite64` beyond the mapping is not reached by `msync`, so
  `Durable` speaks of nodes in the mapping.

## 6. What is not modelled

Two tools that change one block at the same time, and `block_init` beside another
tool: there is no lock, and nothing the code promises holds then (see the hazards).
The contents of the main block beyond which file's bytes lie where; after a power
failure nothing is known of it. An index whose creation was cut between bytes 30
and 37 of 4024 (`BlockToolsAssumption`): the kernel copies it into one page.
`MMapFile::mumapFile`, `MetaInfo::operator=` and `clone`, which no tool uses;
logging and prompts; extension blocks, which the repository's documents mention
and no code implements; the demonstrations and manual tests. In `IndexHandle`
`load` succeeds; its failures are in `BlockTools`. Counters are
integers: 32-bit overflow would need 524288 files.

## 7. Plan

In this order; the first ten are done.

1. `IndexLayout`, `IndexHandle` with the three tools; `FileTable`,
   `IndexProperties`, `MCIndex` and the index runs.
2. `IndexSafety`: types, free list, reports.
3. `FileOperation`: loops and descriptor.
4. `MMapFileOperation` over it, and the comparison with `IndexHandle`.
5. `SpaceReclamation` on `IndexHandle`, with `MCReclamation`.
6. `BlockTools` and `BlockStore`.
7. `BlockRace`.
8. `Durability`.
9. `IndexLedger`, `FileOperationProofs`, `MMapFileOperationProofs`,
   `BlockToolsProofs`.
10. `ReclamationProofs`, `BlockRaceProofs`, `NoNodeLost`, `AccessIsAsAssumed`,
   `DurabilityProofs`.
11. Proofs: `ReportsTruth` and `ImplementsFileTable` with compaction and kills.
