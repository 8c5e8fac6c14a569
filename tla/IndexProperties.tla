--------------------------- MODULE IndexProperties ---------------------------
(***************************************************************************)
(* What has to be true of a block while the tools work on it, and the      *)
(* abstract file table it implements.                                      *)
(***************************************************************************)
EXTENDS IndexHandle, Functions

AtRest == pc = "idle"

(* All ids in play hash to slots below the five the first node lies on,    *)
(* and no two of them to the same slot.                                    *)
EarlyBlock == MaxId + 5 < BucketSize

(* The index never outgrows what a tool may map of it.                     *)
FullyMapped == MaxMap >= Capacity

BucketHead(k)  == mem[SlotAddr(k % BucketSize)]
NextOf(o)      == ReadMeta(mem, o).next
AllocatedNodes == {o \in NodeOffsets : o < mem[INDEX_FILE_SIZE]}

(* The files found at the head of their bucket, and their nodes.           *)
Indexed   == {k \in FileIds : /\ BucketHead(k) \in NodeOffsets
                              /\ HasKey(ReadMeta(mem, BucketHead(k)), k)}
LiveNodes == {BucketHead(k) : k \in Indexed}
-----------------------------------------------------------------------------
(* Every variable keeps its type, whatever the layout of the index: in     *)
(* particular a mapping never outgrows max_mmap_size_ or the storage.      *)
TypeOK ==
  /\ mem \in [Addr -> Int]
  /\ fsize \in FirstMap .. Capacity /\ mapped \in 0 .. Smaller(MaxMap, Capacity)
  /\ block \in [DataOffsets -> Int]
  /\ op \in {"none", "write", "read", "delete", "recla"} /\ pc \in Steps
  /\ key \in Int /\ meta \in MetaInfo /\ step \in 1 .. 6
  /\ pos \in Int /\ prev \in Int /\ cur \in Int
  /\ ret \in Results /\ kills \in 0 .. MaxKills

(* A tool tells the truth: a write that reports success, or that only its  *)
(* flush failed, made its file findable, a delete that does made it        *)
(* unfindable, a read finds exactly what is there, and no tool denies a    *)
(* file that exists or meets one that does not.                            *)
ReportsTruth ==
  AtRest =>
    /\ op = "write"  /\ ret \in {"TFS_SUCCESS", "TFS_ERROR"} => key \in Indexed
    /\ op = "delete" /\ ret \in {"TFS_SUCCESS", "TFS_ERROR"} => key \notin Indexed
    /\ op = "read"   /\ ret = "TFS_SUCCESS"                  => key \in Indexed
    /\ ret = "EXIT_MEFA_NOT_FOUND_ERROR"                     => key \notin Indexed
    /\ ret = "EXIT_META_UNEXPECT_FOUND_ERROR"                => key \in Indexed

(* The counters of BlockInfo balance whenever no tool runs and none was    *)
(* killed: every id given out is a file that is counted or one counted as  *)
(* deleted, every byte of the main block that was committed is counted or  *)
(* counted as deleted.                                                     *)
CountersBalance ==
  AtRest /\ kills = 0 =>
    /\ mem[SEQ_NO] - 1 = mem[FILE_COUNT] + mem[DEL_FILE_COUNT]
    /\ mem[VERSION] = mem[FILE_COUNT] + 2 * mem[DEL_FILE_COUNT]
    /\ mem[DATA_FILE_OFFSET] = mem[SIZE] + mem[DEL_SIZE]

(* file_count_ and size_ are those of the files that can be found, as long *)
(* as no tool was killed between its stores.                               *)
CountersAgree ==
  AtRest /\ kills = 0 =>
    /\ mem[FILE_COUNT] = Cardinality(Indexed)
    /\ mem[SIZE] = FileSize * Cardinality(Indexed)

(* The id the next write will take is not in use, unless a tool was killed *)
(* after it had linked its node and before it counted the id.              *)
SeqNoFree == AtRest /\ kills = 0 => mem[SEQ_NO] \notin Indexed

(* Nodes are stored where nodes are kept: even when overlapped slots send  *)
(* hash_find through arbitrary words, nothing is stored at what it read.   *)
StoresHitNodes ==
  /\ pc \in {"store", "relink", "free", "push"} => cur \in NodeOffsets
  /\ pc = "bypass" => prev \in NodeOffsets

(* A delete frees a node only when what led to it, its slot or the node    *)
(* before it, leads to the node behind it instead: one that fails while it *)
(* reads or rewrites the node before leaves the node where it is, and the  *)
(* overlapped slots do not undo the unlinking.                             *)
FreedIsUnlinked ==
  pc = "free" =>
    meta.next = IF prev = 0 THEN mem[SlotAddr(Slot(mem, key))] ELSE NextOf(prev)

(* The free list is a proper list: some set S of allocated nodes, none of  *)
(* them in use and none of them the node the running tool holds, contains  *)
(* its head and is closed under next links; no two nodes of S have the     *)
(* same successor and none links back to the head.  Hence a node is never  *)
(* handed out twice, whenever a tool was killed.                           *)
ProperList(S, first, next) ==
  /\ first \in S \cup {0}
  /\ \A o \in S : next[o] \in S \cup {0}
  /\ \A o \in S : next[o] = first => next[o] = 0
  /\ \A o, p \in S : next[o] = next[p] /\ next[o] # 0 => o = p

FreeNodes(S) ==
  /\ S \cap LiveNodes = {}
  /\ ProperList(S, mem[FREE_HEAD], [o \in S |-> NextOf(o)])
  /\ pc \in {"store", "link", "free", "push"} => cur \notin S

FreeListSound ==
  /\ LiveNodes \subseteq AllocatedNodes
  /\ \E S \in SUBSET AllocatedNodes : FreeNodes(S)

(* No node is lost: as long as no tool was killed, every allocated node is *)
(* in use, or held by the running tool, or on the free list.  The list is  *)
(* a function that counts the spare nodes, from the last one to the head.  *)
Holding == IF pc \in {"store", "link", "free", "push"} THEN {cur} ELSE {}
Spare   == AllocatedNodes \ (LiveNodes \cup Holding)

FreeList(U) ==
  \E list \in Bijection(0 .. Cardinality(U), U \cup {0}) :
    /\ list[0] = 0 /\ list[Cardinality(U)] = mem[FREE_HEAD]
    /\ \A i \in 1 .. Cardinality(U) : NextOf(list[i]) = list[i - 1]

NoLeak == kills = 0 => FreeList(Spare)

(* The bytes of every file that can be found are in the part of the main   *)
(* block that no later write touches, up to the one being committed.       *)
BytesKept ==
  \A k \in Indexed : \E o \in DataOffsets :
    block[o] = k /\ o <= mem[DATA_FILE_OFFSET]

(* The block implements the file table: a file exists once it can be found *)
(* and its id is spent.                                                    *)
Table == INSTANCE FileTable WITH files <- {k \in Indexed : k < mem[SEQ_NO]},
                                 next  <- mem[SEQ_NO],
                                 asked <- IF op = "delete" THEN key ELSE 0
ImplementsFileTable == Table!Spec

(* Every tool run ends.                                                    *)
Terminates == ~AtRest ~> AtRest
-----------------------------------------------------------------------------
(* The inductive invariant behind FreeListSound and ReportsTruth, for      *)
(* EarlyBlock and FullyMapped.  The parts speak of the header, the mapping,*)
(* the buckets, the registers of the running tool and the free list.       *)

IsNodeOffset(o) == o >= NodeBase /\ (o - NodeBase) % META_SIZE = 0

(* As far as Reach the running tool can rely on the index: on what it      *)
(* mapped, and once it needs no node that it finds or reuses, on the file. *)
Mapping   == pc \in {"pwrite_block", "find", "walk", "alloc", "store", "unlink", "free"}
Reach     == IF Mapping THEN mapped ELSE fsize
Stored(o) == o \in AllocatedNodes /\ o + META_SIZE <= Reach

HeaderInv ==
  /\ mem[BUCKET_SIZE] = BucketSize
  /\ mem[SEQ_NO] >= 1
  /\ IsNodeOffset(mem[INDEX_FILE_SIZE])

(* Others may make the file longer than what the running tool maps of it.  *)
MappedInv == Mapping => mapped <= fsize

(* A bucket is empty or leads to one stored node, that of its file.        *)
BucketsInv ==
  \A k \in FileIds :
    \/ BucketHead(k) = 0
    \/ /\ Stored(BucketHead(k))
       /\ HasKey(ReadMeta(mem, BucketHead(k)), k)
       /\ NextOf(BucketHead(k)) = 0

RegistersInv ==
  /\ pc # "idle" => key \in FileIds
  /\ pc \in {"pwrite_block", "find", "walk", "alloc", "store"} /\ op = "write"
       => HasKey(meta, key) /\ meta.next = 0
  /\ pc \in {"walk", "alloc", "store", "link", "unlink"} => prev = 0
  /\ pc = "walk" => pos = BucketHead(key)
  /\ pc \in {"alloc", "store", "link", "free", "push"} => BucketHead(key) = 0
  /\ pc = "store" => /\ IsNodeOffset(cur) /\ cur < mem[INDEX_FILE_SIZE]
                     /\ \/ cur + META_SIZE <= Reach
                        \/ cur + META_SIZE = mem[INDEX_FILE_SIZE]
  /\ pc \in {"store", "link", "free", "push"} => cur \notin LiveNodes
  /\ pc \in {"link", "free", "push"} => Stored(cur)
  /\ pc = "link" => HasKey(ReadMeta(mem, cur), key) /\ NextOf(cur) = 0
  /\ pc = "unlink" => cur = BucketHead(key) /\ cur # 0
  /\ pc = "push" => NextOf(cur) = mem[FREE_HEAD]
  /\ pc \notin {"relink", "unlink_prev", "bypass"}

FreeInv ==
  \E S \in SUBSET AllocatedNodes :
    FreeNodes(S) /\ \A o \in S : o + META_SIZE <= Reach

(* The running tool has done what it will report.                          *)
TruthInv ==
  /\ pc \in {"commit", "update", "flush"} => IF op = "write" THEN key \in Indexed
                                                           ELSE key \notin Indexed
  /\ pc \in {"read_meta", "pread_block"} => key \in Indexed

IndexInv == /\ HeaderInv /\ MappedInv /\ BucketsInv
            /\ RegistersInv /\ FreeInv /\ TruthInv
-----------------------------------------------------------------------------
(* The inductive invariant behind CountersBalance, CountersAgree, SeqNoFree*)
(* and BytesKept.  A tool that has linked or unlinked a node still owes the*)
(* header the updates it has not made; Due(i, n) is what it owes by its    *)
(* i-th update, which adds n, and the Final values are those with the debt *)
(* paid.                                                                   *)

Owing     == pc \in {"commit", "free", "push", "update"}
Due(i, n) == IF Owing /\ step <= i THEN n ELSE 0
Writing   == op = "write"

FinalVersion == mem[VERSION] + Due(1, 1)
FinalFiles   == mem[FILE_COUNT] + Due(2, IF Writing THEN 1 ELSE -1)
FinalSeqNo   == mem[SEQ_NO] + (IF Writing THEN Due(3, 1) ELSE 0)
FinalSize    == mem[SIZE] + (IF Writing THEN Due(4, FileSize) ELSE Due(3, -FileSize))
FinalDeleted == mem[DEL_FILE_COUNT] + (IF Writing THEN 0 ELSE Due(4, 1))
FinalDelSize == mem[DEL_SIZE] + (IF Writing THEN 0 ELSE Due(5, FileSize))
FinalOffset  == mem[DATA_FILE_OFFSET] + (IF pc = "commit" THEN FileSize ELSE 0)

(* A write runs, and has not counted its id yet.                           *)
IdPending ==
  /\ Writing
  /\ \/ pc \in {"pwrite_block", "find", "walk", "alloc", "store", "link", "commit"}
     \/ pc = "update" /\ step <= 3

(* It may have taken bytes or a node already.                              *)
Taken(pcs) == IF IdPending /\ pc \in pcs \cup {"update"} THEN 1 ELSE 0

(* What a linked node says of its file, and so what a tool adds and takes  *)
(* off: the inner offset is the one that hash_insert cleared.              *)
Plain(v) == v.size = FileSize /\ v.inner_offset = 0

NodeSizesInv ==
  /\ \A k \in FileIds : BucketHead(k) # 0 => Plain(ReadMeta(mem, BucketHead(k)))
  /\ pc = "link" => Plain(ReadMeta(mem, cur))
  /\ pc # "idle" /\ Writing => meta.size = FileSize
  /\ pc \in {"free", "push", "update", "flush"} => meta.size = FileSize

IdsInv ==
  /\ IdPending => key = mem[SEQ_NO]
  /\ kills = 0 => \A k \in Indexed : k < FinalSeqNo

CountInv ==
  kills = 0 =>
    /\ FinalFiles = Cardinality(Indexed)
    /\ FinalSize = FileSize * FinalFiles

OffsetInv == kills = 0 => FinalOffset = FinalSize + FinalDelSize

(* What a compaction ends: it forgets which files were deleted.            *)
BalanceInv ==
  kills = 0 =>
    /\ FinalSeqNo - 1 = FinalFiles + FinalDeleted
    /\ FinalVersion = FinalFiles + 2 * FinalDeleted

(* What was committed is a number of files that the ids and the kills      *)
(* account for; the next slot is that of the running write, or of a killed *)
(* one with the same id.                                                   *)
BytesInv ==
  /\ \E c \in 0 .. mem[SEQ_NO] - 1 + kills + Taken({}) :
       mem[DATA_FILE_OFFSET] = FileSize * c
  /\ pc = "pwrite_block" => meta.inner_offset = mem[DATA_FILE_OFFSET]
  /\ Writing /\ pc \in {"find", "walk", "alloc", "store", "link"} =>
       block[mem[DATA_FILE_OFFSET]] = key
  /\ \A k \in Indexed : \E o \in DataOffsets :
       /\ block[o] = k
       /\ \/ o < mem[DATA_FILE_OFFSET]
          \/ /\ o = mem[DATA_FILE_OFFSET] /\ k = mem[SEQ_NO]
             /\ ~ (Writing /\ pc = "update")

(* So are the nodes that were appended.                                    *)
NodesInv ==
  \E n \in 0 .. mem[SEQ_NO] - 1 + kills + Taken({"store", "link", "commit"}) :
    mem[INDEX_FILE_SIZE] = NodeBase + META_SIZE * n

Books     == NodeSizesInv /\ IdsInv /\ CountInv /\ OffsetInv /\ BytesInv /\ NodesInv
LedgerInv == Books /\ BalanceInv
=============================================================================
