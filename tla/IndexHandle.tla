----------------------------- MODULE IndexHandle -----------------------------
(***************************************************************************)
(* One block, as the tools block_write, block_read and block_delete work   *)
(* on it: the index file behind IndexHandle (a MAP_SHARED mapping, so its  *)
(* words survive the process) and the main block file the contents go to.  *)
(* One tool runs at a time.  A tool run is taken apart into its stores and *)
(* its fallible reads, in the order the code makes them; it may be killed  *)
(* between any two, or while it copies a node.                             *)
(***************************************************************************)
EXTENDS IndexLayout, Sequences, FiniteSets

CONSTANTS
  MaxId,     \* bound: highest file id that is written, read or deleted
  FileSize,  \* bytes per written file (sizeof(buffer), 4096 in block_write)
  FirstMap,  \* mmap_option.first_mmap_size_
  PerMap,    \* mmap_option.per_mmap_size_
  MaxMap,    \* mmap_option.max_mmap_size_
  MaxDeletes,\* bound: deletes that are counted before no more is started
  MaxKills,  \* bound: how often a tool run is killed
  TornBytes  \* bound: bytes of a node that a store cut short has written

ASSUME IndexHandleAssumption ==
  /\ MaxId \in Nat \ {0} /\ FileSize \in Nat \ {0}
  /\ MaxDeletes \in Nat /\ MaxKills \in Nat /\ TornBytes \subseteq 0 .. 23
  /\ PerMap \in Nat \ {0} /\ FirstMap \in Nat /\ MaxMap \in Nat
  /\ HEADER_SIZE + 4 * BucketSize <= FirstMap
  /\ FirstMap <= MaxMap /\ FirstMap <= Capacity

VARIABLES
  mem,     \* the words of the index file
  fsize,   \* its length in bytes
  mapped,  \* MMapFile::size_ of the running tool, 0 when none runs
  block,   \* main block: data offset -> id of the file whose bytes are there
  op,      \* the tool that runs, or ran last
  pc,      \* where it is
  key,     \* the file id it works on
  pos,     \* hash_find: the node looked at
  prev,    \* hash_find: previous_offset
  cur,     \* current_offset
  meta,    \* its MetaInfo
  step,    \* next counter of update_block_info
  ret,     \* what it returned
  kills    \* how often a tool was killed

fileVars == <<mem, fsize, block>>
regVars  == <<pos, prev, cur, meta, step>>
vars     == <<mem, fsize, mapped, block, op, pc, key, pos, prev, cur, meta,
              step, ret, kills>>

FileIds     == 1 .. MaxId
DataOffsets == {FileSize * i : i \in 0 .. MaxId + MaxKills}
NoMeta      == [lo |-> 0, hi |-> 0, inner_offset |-> 0, size |-> 0,
                next |-> 0, pad |-> 0]

(* The steps and the reports of all four tools that work on a block: those *)
(* of block_recla that are its own are in SpaceReclamation.                *)
ReclaSteps == {"check", "next_file", "truncate", "reset"}

Steps == {"idle", "pwrite_block", "find", "walk", "alloc", "store", "link",
          "relink", "commit", "unlink", "unlink_prev", "bypass", "free", "push",
          "update", "flush", "read_meta", "pread_block"} \cup ReclaSteps

Results == {"none", "TFS_SUCCESS", "EXIT_META_UNEXPECT_FOUND_ERROR",
            "EXIT_MEFA_NOT_FOUND_ERROR", "EXIT_BLOCK_NOTHING_DELETED",
            "IO_ERROR", "TFS_ERROR", "killed"}

Init ==
  /\ mem = FreshIndex(1) /\ fsize = FirstMap /\ mapped = 0
  /\ block = [o \in DataOffsets |-> 0]
  /\ op = "none" /\ pc = "idle" /\ key = 0 /\ ret = "none" /\ kills = 0
  /\ pos = 0 /\ prev = 0 /\ cur = 0 /\ meta = NoMeta /\ step = 1
-----------------------------------------------------------------------------
(* What each group of stores does to the words of the index file.  The     *)
(* operators before the blank line, and those called mutants below, are    *)
(* wrong on purpose: variants with a plausible bug, used nowhere, that the *)
(* properties have to tell from the real ones.                             *)

LinkedOneOff(m, k, o) == [m EXCEPT ![SlotAddr(Slot(m, k) + 1)] = o]
NotPopped(m)          == m
GrownUnpadded(m)      == [m EXCEPT ![INDEX_FILE_SIZE] = @ + META_SIZE - 4]
NotCommitted(m)       == m

LinkedAtHead(m, k, o) == [m EXCEPT ![SlotAddr(Slot(m, k))] = o]
Popped(m)             == [m EXCEPT ![FREE_HEAD] = ReadMeta(m, m[FREE_HEAD]).next]
Pushed(m, o)          == [m EXCEPT ![FREE_HEAD] = o]
Grown(m)              == [m EXCEPT ![INDEX_FILE_SIZE] = @ + META_SIZE]
RolledBack(m)         == [m EXCEPT ![INDEX_FILE_SIZE] = @ - META_SIZE]
Committed(m)          == [m EXCEPT ![DATA_FILE_OFFSET] = @ + FileSize]

(* The MetaInfo hash_insert stores: it first sets the inner offset to 0.   *)
Inserted(v) == [v EXCEPT !.inner_offset = 0]

(* hash_insert links behind previous_offset by storing the previous node,  *)
(* its link changed, at current_offset.                                    *)
Relinked(m, p, o) == [ReadMeta(m, p) EXCEPT !.next = o]

(* The deleted node goes to the front of the free list.                    *)
FreedUnchained(m, v) == v  \* mutant of Freed
Freed(m, v) == [v EXCEPT !.next = m[FREE_HEAD]]

(* The node before the deleted one is linked to the one behind it.         *)
Bypassing(m, p, v) == [ReadMeta(m, p) EXCEPT !.next = v.next]

(* Mutants of BlockInfoUpdates: a counter forgotten, an id given back.     *)
UpdatesKeepFileCount(o, n) ==
  IF o = "write"
  THEN << <<VERSION, 1>>, <<FILE_COUNT, 1>>, <<SEQ_NO, 1>>, <<SIZE, n>> >>
  ELSE << <<VERSION, 1>>, <<SIZE, -n>>, <<DEL_FILE_COUNT, 1>>, <<DEL_SIZE, n>> >>
UpdatesKeepSeqNo(o, n) ==
  IF o = "write"
  THEN << <<VERSION, 1>>, <<FILE_COUNT, 1>>, <<SIZE, n>> >>
  ELSE << <<VERSION, 1>>, <<FILE_COUNT, -1>>, <<SIZE, -n>>,
          <<DEL_FILE_COUNT, 1>>, <<DEL_SIZE, n>> >>
UpdatesGiveBackId(o, n) ==
  IF o = "write"
  THEN << <<VERSION, 1>>, <<FILE_COUNT, 1>>, <<SEQ_NO, 1>>, <<SIZE, n>> >>
  ELSE << <<VERSION, 1>>, <<FILE_COUNT, -1>>, <<SEQ_NO, -1>>, <<SIZE, -n>>,
          <<DEL_FILE_COUNT, 1>>, <<DEL_SIZE, n>> >>
UpdatesForgetDelSize(o, n) ==
  IF o = "write"
  THEN << <<VERSION, 1>>, <<FILE_COUNT, 1>>, <<SEQ_NO, 1>>, <<SIZE, n>> >>
  ELSE << <<VERSION, 1>>, <<FILE_COUNT, -1>>, <<SIZE, -n>>, <<DEL_FILE_COUNT, 1>> >>

(* The counters update_block_info changes, in its order.                   *)
BlockInfoUpdates(o, n) ==
  IF o = "write"
  THEN << <<VERSION, 1>>, <<FILE_COUNT, 1>>, <<SEQ_NO, 1>>, <<SIZE, n>> >>
  ELSE << <<VERSION, 1>>, <<FILE_COUNT, -1>>, <<SIZE, -n>>,
          <<DEL_FILE_COUNT, 1>>, <<DEL_SIZE, n>> >>

Updated(m, u) == [m EXCEPT ![u[1]] = @ + u[2]]
-----------------------------------------------------------------------------
(* File access through MMapFileOperation.                                  *)

Larger(a, b)  == IF a > b THEN a ELSE b
Smaller(a, b) == IF a < b THEN a ELSE b

(* IndexHandle::load maps a file that fits entirely, else its first part.  *)
Loaded == IF fsize > FirstMap /\ fsize <= MaxMap THEN fsize ELSE FirstMap

Load ==
  /\ mapped' = Loaded
  /\ fsize' = Larger(fsize, Loaded)

RemappedUnclamped(o) ==  \* mutant of Remapped
  LET n    == mapped + PerMap
      stay == [mapped |-> mapped, fsize |-> fsize]
  IN  IF o + META_SIZE <= mapped \/ mapped = MaxMap \/ n > Capacity
      THEN {stay}
      ELSE {stay, [mapped |-> mapped, fsize |-> Larger(fsize, n)],
                  [mapped |-> n,      fsize |-> Larger(fsize, n)]}

(* Mapping and file size before a node at o is accessed.  remapFile is     *)
(* tried when o is not mapped: it extends the file, then the mapping, and  *)
(* either may fail.                                                        *)
Remapped(o) ==
  LET n    == Smaller(mapped + PerMap, MaxMap)
      stay == [mapped |-> mapped, fsize |-> fsize]
  IN  IF o + META_SIZE <= mapped \/ mapped = MaxMap \/ n > Capacity
      THEN {stay}
      ELSE {stay, [mapped |-> mapped, fsize |-> Larger(fsize, n)],
                  [mapped |-> n,      fsize |-> Larger(fsize, n)]}

(* pread_file and pwrite_file that succeed: on the mapping, or else by the *)
(* system call, which reads up to the end of the file and may extend it.   *)
Preads(o) ==
  \E r \in Remapped(o) :
    /\ o >= 0 /\ o + META_SIZE <= Larger(r.mapped, r.fsize)
    /\ mapped' = r.mapped /\ fsize' = r.fsize

Pwrites(o) ==
  \E r \in Remapped(o) :
    /\ o >= 0 /\ o + META_SIZE <= Capacity
    /\ mapped' = r.mapped
    /\ fsize' = Larger(r.fsize, o + META_SIZE)

(* The tool returns r and its process ends.                                *)
Exit(r) ==
  /\ pc' = "idle" /\ ret' = r /\ mapped' = 0
  /\ pos' = 0 /\ prev' = 0 /\ cur' = 0 /\ meta' = NoMeta /\ step' = 1

(* The access before the mapping that an overlapped slot may lead to: what *)
(* lies below the latest mapping of a process is not mapped.               *)
Faults(o) ==
  /\ o < 0
  /\ Exit("killed")
  /\ UNCHANGED <<fileVars, op, key, kills>>

(* An access that the mapping does not cover fails; m is what the code then*)
(* leaves in the index file.                                               *)
Fails(o, m) ==
  /\ o >= 0
  /\ \E r \in Remapped(o) : o + META_SIZE > r.mapped /\ fsize' = r.fsize
  /\ mem' = m
  /\ Exit("IO_ERROR")
  /\ UNCHANGED <<block, op, key, kills>>

(* The first n bytes of v reach the file at o, and no more.                *)
StoresPart(n, o, v, m, r) ==
  /\ n = 0 \/ o + n <= Capacity
  /\ fsize' = IF n = 0 THEN r.fsize ELSE Larger(r.fsize, o + n)
  /\ mem' = PartOfMeta(m, o, v, n)

(* Storing v at o fails, possibly after some of its bytes were written; m  *)
(* is the rest of what the code then leaves.                               *)
FailsStoring(o, v, m) ==
  /\ o >= 0
  /\ \E r \in Remapped(o), n \in TornBytes :
       o + META_SIZE > r.mapped /\ StoresPart(n, o, v, m, r)
  /\ Exit("IO_ERROR")
  /\ UNCHANGED <<block, op, key, kills>>

Goto(l) == pc' = l /\ UNCHANGED <<op, key, ret, kills>>
-----------------------------------------------------------------------------
(* Starting a tool.                                                        *)

(* Bounds: ids up to MaxId, and no write once failed writes took back more *)
(* nodes than were ever appended.                                          *)
MayWrite == mem[SEQ_NO] <= MaxId /\ mem[INDEX_FILE_SIZE] >= NodeBase

StartWrite ==
  /\ pc = "idle" /\ MayWrite
  /\ Load
  /\ pc' = "pwrite_block" /\ op' = "write" /\ key' = mem[SEQ_NO]
  /\ meta' = [NoMeta EXCEPT !.lo = mem[SEQ_NO], !.size = FileSize,
                            !.inner_offset = mem[DATA_FILE_OFFSET]]
  /\ ret' = "none"
  /\ UNCHANGED <<mem, block, pos, prev, cur, step, kills>>

StartLookup(tool, k) ==
  /\ pc = "idle" /\ (tool = "delete" => mem[DEL_FILE_COUNT] < MaxDeletes)
  /\ Load
  /\ pc' = "find" /\ op' = tool /\ key' = k /\ ret' = "none"
  /\ UNCHANGED <<mem, block, pos, prev, cur, meta, step, kills>>

(* block_write puts the contents into the main block first; a pwrite_file  *)
(* that fails may have written a part of them.  A negative offset fails.   *)
TORN == -1
Overwritten(old, k) == IF old = k THEN k ELSE TORN

WriteBlock ==
  /\ pc = "pwrite_block"
  /\ \/ /\ meta.inner_offset >= 0
        /\ block' = [block EXCEPT ![meta.inner_offset] = key]
        /\ Goto("find")
        /\ UNCHANGED <<mem, fsize, mapped, regVars>>
     \/ /\ \/ UNCHANGED block
           \/ /\ meta.inner_offset >= 0
              /\ block' = [block EXCEPT ![meta.inner_offset] = Overwritten(@, key)]
        /\ Exit("IO_ERROR")
        /\ UNCHANGED <<mem, fsize, op, key, kills>>
-----------------------------------------------------------------------------
(* hash_find.                                                              *)

HashFindSlot ==
  /\ pc = "find"
  /\ pos' = mem[SlotAddr(Slot(mem, key))] /\ prev' = 0 /\ cur' = 0
  /\ Goto("walk")
  /\ UNCHANGED <<fileVars, mapped, meta, step>>

(* The end of the chain: only a write goes on, with hash_insert.           *)
HashFindEnd ==
  /\ pc = "walk" /\ pos = 0
  /\ \/ /\ op = "write"
        /\ Goto("alloc")
        /\ UNCHANGED <<fileVars, mapped, regVars>>
     \/ /\ op # "write"
        /\ Exit("EXIT_MEFA_NOT_FOUND_ERROR")
        /\ UNCHANGED <<fileVars, op, key, kills>>

(* The walk goes on by what it read of the node; v is that.                *)
HitOn(v) ==
  /\ pc = "walk" /\ pos # 0 /\ Within(pos)
  /\ HasKey(v, key)
  /\ \/ /\ op = "write"
        /\ \E r \in Remapped(pos) : /\ pos + META_SIZE <= Larger(r.mapped, r.fsize)
                                    /\ fsize' = r.fsize
        /\ Exit("EXIT_META_UNEXPECT_FOUND_ERROR")
        /\ UNCHANGED <<mem, block, op, key, kills>>
     \/ /\ op # "write"
        /\ Preads(pos)
        /\ cur' = pos
        /\ Goto(IF op = "delete" THEN "unlink" ELSE "read_meta")
        /\ UNCHANGED <<mem, block, pos, prev, meta, step>>

PassOn(v) ==
  /\ pc = "walk" /\ pos # 0 /\ Within(pos)
  /\ ~ HasKey(v, key)
  /\ Preads(pos)
  /\ prev' = pos /\ pos' = v.next
  /\ Goto("walk")
  /\ UNCHANGED <<mem, block, cur, meta, step>>

HashFindHit  == HitOn(ReadMeta(mem, pos))
HashFindNext == PassOn(ReadMeta(mem, pos))

HashFindFails == pc = "walk" /\ pos # 0 /\ (Fails(pos, mem) \/ Faults(pos))
-----------------------------------------------------------------------------
(* hash_insert.                                                            *)

ReuseNode ==
  /\ pc = "alloc" /\ mem[FREE_HEAD] # 0
  /\ \/ /\ Preads(mem[FREE_HEAD])
        /\ cur' = mem[FREE_HEAD] /\ mem' = Popped(mem)
        /\ Goto("store")
        /\ UNCHANGED <<block, pos, prev, meta, step>>
     \/ Fails(mem[FREE_HEAD], mem)

AppendNode ==
  /\ pc = "alloc" /\ mem[FREE_HEAD] = 0
  /\ cur' = mem[INDEX_FILE_SIZE] /\ mem' = Grown(mem)
  /\ Goto("store")
  /\ UNCHANGED <<fsize, mapped, block, pos, prev, meta, step>>

StoreMeta ==
  /\ pc = "store"
  /\ \/ /\ Pwrites(cur)
        /\ meta' = Inserted(meta) /\ mem' = WriteMeta(mem, cur, meta')
        /\ Goto("link")
        /\ UNCHANGED <<block, pos, prev, cur, step>>
     \/ FailsStoring(cur, Inserted(meta), RolledBack(mem))

LinkNode ==
  /\ pc = "link"
  /\ \/ /\ prev = 0
        /\ mem' = LinkedAtHead(mem, key, cur)
        /\ Goto("commit")
        /\ UNCHANGED <<fsize, mapped, block, regVars>>
     \/ /\ prev # 0
        /\ Preads(prev)
        /\ Goto("relink")
        /\ UNCHANGED <<mem, block, regVars>>
     \/ prev # 0 /\ Fails(prev, RolledBack(mem))

RelinkNode ==
  /\ pc = "relink"
  /\ \/ /\ Pwrites(cur)
        /\ mem' = WriteMeta(mem, cur, Relinked(mem, prev, cur))
        /\ Goto("commit")
        /\ UNCHANGED <<block, regVars>>
     \/ FailsStoring(cur, Relinked(mem, prev, cur), RolledBack(mem))
-----------------------------------------------------------------------------
(* commit_block_data_offset, update_block_info and the final flush.        *)

CommitOffset ==
  /\ pc = "commit"
  /\ mem' = Committed(mem)
  /\ Goto("update")
  /\ UNCHANGED <<fsize, mapped, block, regVars>>

UpdateBlockInfo ==
  LET updates == BlockInfoUpdates(op, meta.size)
  IN  /\ pc = "update"
      /\ mem' = Updated(mem, updates[step])
      /\ step' = step + 1
      /\ Goto(IF step = Len(updates) THEN "flush" ELSE "update")
      /\ UNCHANGED <<fsize, mapped, block, pos, prev, cur, meta>>

Flush ==
  /\ pc = "flush"
  /\ \E r \in {"TFS_SUCCESS", "TFS_ERROR"} : Exit(r)
  /\ UNCHANGED <<fileVars, op, key, kills>>
-----------------------------------------------------------------------------
(* delete_segment_meta.                                                    *)

UnlinkNode ==
  /\ pc = "unlink"
  /\ \/ /\ Preads(cur)
        /\ meta' = ReadMeta(mem, cur)
        /\ mem' = IF prev = 0 THEN LinkedAtHead(mem, key, meta'.next) ELSE mem
        /\ Goto(IF prev = 0 THEN "free" ELSE "unlink_prev")
        /\ UNCHANGED <<block, pos, prev, cur, step>>
     \/ Fails(cur, mem)

UnlinkBehind ==
  /\ pc = "unlink_prev"
  /\ \/ /\ Preads(prev)
        /\ Goto("bypass")
        /\ UNCHANGED <<mem, block, regVars>>
     \/ Fails(prev, mem)

BypassUnchecked ==  \* mutant of BypassNode
  /\ pc = "bypass"
  /\ \/ Pwrites(prev) /\ mem' = WriteMeta(mem, prev, Bypassing(mem, prev, meta))
     \/ UNCHANGED <<mem, fsize, mapped>>
  /\ Goto("free")
  /\ UNCHANGED <<block, regVars>>

BypassNode ==
  /\ pc = "bypass"
  /\ \/ /\ Pwrites(prev)
        /\ mem' = WriteMeta(mem, prev, Bypassing(mem, prev, meta))
        /\ Goto("free")
        /\ UNCHANGED <<block, regVars>>
     \/ FailsStoring(prev, Bypassing(mem, prev, meta), mem)

FreeNode ==
  /\ pc = "free"
  /\ \/ /\ Pwrites(cur)
        /\ mem' = WriteMeta(mem, cur, Freed(mem, meta))
        /\ Goto("push")
        /\ UNCHANGED <<block, regVars>>
     \/ FailsStoring(cur, Freed(mem, meta), mem)

PushNode ==
  /\ pc = "push"
  /\ mem' = Pushed(mem, cur)
  /\ Goto("update")
  /\ UNCHANGED <<fsize, mapped, block, regVars>>
-----------------------------------------------------------------------------
(* block_read: the node once more, then the bytes it points at.            *)

TakesMeta(v) ==
  /\ pc = "read_meta"
  /\ \/ /\ Preads(cur)
        /\ meta' = v
        /\ Goto("pread_block")
        /\ UNCHANGED <<mem, block, pos, prev, cur, step>>
     \/ Fails(cur, mem)

ReadSegmentMeta == TakesMeta(ReadMeta(mem, cur))

ReadBlock ==
  /\ pc = "pread_block" /\ op = "read"
  /\ \E r \in {"TFS_SUCCESS", "IO_ERROR"} : Exit(r)
  /\ UNCHANGED <<fileVars, op, key, kills>>
-----------------------------------------------------------------------------
(* The process dies; the stores it made stay in the shared mapping.        *)
Kill ==
  /\ pc # "idle" /\ kills < MaxKills
  /\ kills' = kills + 1
  /\ Exit("killed")
  /\ UNCHANGED <<fileVars, op, key>>

(* It dies while a node is copied.                                         *)
Torn(o, v) ==
  /\ o >= 0
  /\ \E r \in Remapped(o), n \in TornBytes : StoresPart(n, o, v, mem, r)

KillStoring ==
  /\ kills < MaxKills
  /\ \/ pc = "store"  /\ Torn(cur, Inserted(meta))
     \/ pc = "relink" /\ Torn(cur, Relinked(mem, prev, cur))
     \/ pc = "bypass" /\ Torn(prev, Bypassing(mem, prev, meta))
     \/ pc = "free"   /\ Torn(cur, Freed(mem, meta))
  /\ kills' = kills + 1
  /\ Exit("killed")
  /\ UNCHANGED <<block, op, key>>

Start == StartWrite \/ \E t \in {"read", "delete"}, k \in FileIds : StartLookup(t, k)

ToolStep ==
  \/ WriteBlock
  \/ HashFindSlot \/ HashFindEnd \/ HashFindHit \/ HashFindNext \/ HashFindFails
  \/ ReuseNode \/ AppendNode \/ StoreMeta \/ LinkNode \/ RelinkNode
  \/ CommitOffset \/ UpdateBlockInfo \/ Flush
  \/ UnlinkNode \/ UnlinkBehind \/ BypassNode \/ FreeNode \/ PushNode
  \/ ReadSegmentMeta \/ ReadBlock

Next == Start \/ ToolStep \/ Kill \/ KillStoring

Spec == Init /\ [][Next]_vars

(* The tool that runs keeps running; nothing obliges a user to start one.  *)
FairSpec == Spec /\ WF_vars(ToolStep)
=============================================================================
