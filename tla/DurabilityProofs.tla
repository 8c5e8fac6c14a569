-------------------------- MODULE DurabilityProofs --------------------------
(***************************************************************************)
(* What a block_write reported and then synchronised survives a power      *)
(* failure: for a block whose ids hash below the overlapped slots and      *)
(* whose index fits into the largest mapping, with any sector size, any    *)
(* number of files and kills.                                              *)
(***************************************************************************)
EXTENDS Durability, IndexSafety

USE LayoutAssumption, IndexHandleAssumption, DurabilityAssumption

(* The slot and the node of a file stay what they are.                     *)
Keeps(k) == /\ BucketHead(k)' = BucketHead(k)
            /\ ReadMeta(mem', BucketHead(k)) = ReadMeta(mem, BucketHead(k))

(* A file that can be found has a node, and one that is in use.            *)
LEMMA FileNode ==
  ASSUME TypeInv, IndexInv, NEW k \in Indexed
  PROVE  /\ k \in FileIds /\ BucketHead(k) \in LiveNodes /\ BucketHead(k) \in NodeOffsets
         /\ HasKey(ReadMeta(mem, BucketHead(k)), k)
BY DEF Indexed, LiveNodes

(* The stores of hash_insert and delete_segment_meta to a node, whole or   *)
(* cut short, change no file: the node is in no bucket.                    *)
LEMMA NodeStoresKeep ==
  ASSUME Inductive, StoreMeta \/ FreeNode \/ KillStoring, NEW k \in Indexed
  PROVE  Keeps(k)
<1> USE DEF Inductive, TypeInv
<1>1. /\ BucketHead(k) \in LiveNodes /\ BucketHead(k) \in NodeOffsets /\ k \in FileIds
      /\ BucketHead(k) + META_SIZE <= Reach
  BY FileNode, LiveView DEF IndexInv, Stored
<1>2. CASE KillStoring
  <2>1. /\ cur \notin LiveNodes /\ SameBuckets
        /\ \A p \in NodeOffsets : p # cur => ReadMeta(mem', p) = ReadMeta(mem, p)
    BY <1>2, KilledStore
  <2> QED  BY <1>1, <2>1 DEF Keeps, SameBuckets
<1>3. ASSUME NEW v \in MetaInfo, pc \in {"store", "free"}, Pwrites(cur),
             mem' = WriteMeta(mem, cur, v)
      PROVE  Keeps(k)
  <2>1. cur \in Int /\ IsNodeOffset(cur) /\ cur \notin LiveNodes
    BY <1>3, NodeAddresses DEF TypeOK, IndexInv, RegistersInv, Stored, AllocatedNodes
  <2>2. cur \in NodeOffsets
    BY <1>3, <2>1, PwritesType, IsNode
  <2>3. /\ SameBuckets
        /\ \A p \in NodeOffsets : p # cur => ReadMeta(mem', p) = ReadMeta(mem, p)
    BY <1>3, <2>2, NodeStore
  <2> QED  BY <1>1, <2>1, <2>3 DEF Keeps, SameBuckets
<1>4. meta \in MetaInfo /\ cur \in Int
  BY DEF TypeOK
<1>5. CASE FailsStoring(cur, Inserted(meta), RolledBack(mem)) /\ pc = "store"
  <2>1. /\ IsNodeOffset(cur) /\ mem[INDEX_FILE_SIZE] = cur + META_SIZE
        /\ Reach < mem[INDEX_FILE_SIZE] /\ SameBuckets
        /\ \A o \in NodeOffsets : o < cur => ReadMeta(mem', o) = ReadMeta(mem, o)
    BY <1>5, FailedStore
  <2>2. BucketHead(k) < cur
    BY <1>1, <1>4, <2>1, NodeAddresses, ReachType, Sizes
  <2> QED  BY <1>1, <2>1, <2>2 DEF Keeps, SameBuckets
<1>6. CASE StoreMeta
  <2>1. Inserted(meta) \in MetaInfo
    BY <1>4, MetaTypes
  <2> QED  BY <1>3, <1>5, <1>6, <2>1 DEF StoreMeta
<1>7. CASE FreeNode
  <2>1. pc = "free" /\ Stored(cur) /\ Freed(mem, meta) \in MetaInfo
    BY <1>4, <1>7, StoreTypes DEF FreeNode, IndexInv, RegistersInv, TypeOK
  <2>2. ~ FailsStoring(cur, Freed(mem, meta), mem)
    BY <1>4, <2>1, FailsStoringSizes, Sizes DEF Stored, Reach, Mapping, TypeOK
  <2> QED  BY <1>3, <1>7, <2>1, <2>2 DEF FreeNode
<1> QED  BY <1>2, <1>6, <1>7

(* No step of any tool changes the slot or the node of a file, but that of *)
(* the delete that was asked to remove it.                                 *)
LEMMA FilesKeep ==
  ASSUME Inductive, Next, NEW k \in Indexed, ~ (op = "delete" /\ k = key)
  PROVE  Keeps(k)
<1> USE DEF Inductive, TypeInv
<1>1. /\ k \in FileIds /\ BucketHead(k) \in LiveNodes /\ BucketHead(k) \in NodeOffsets
      /\ BucketHead(k) # 0
  BY FileNode, LiveView DEF IndexInv
<1>2. ASSUME mem' = mem
      PROVE  Keeps(k)
  BY <1>2 DEF Keeps, BucketHead
<1>3. ASSUME NEW a \in Addr, a < HEADER_SIZE, NEW x, mem' = [mem EXCEPT ![a] = x]
      PROVE  Keeps(k)
  <2>1. SameBuckets /\ SameNodes
    BY <1>3, HeaderStore
  <2> QED  BY <1>1, <2>1 DEF Keeps, SameBuckets, SameNodes
<1>4. ASSUME k # key, key \in FileIds, NEW x, mem' = LinkedAtHead(mem, key, x)
      PROVE  Keeps(k)
  <2>1. /\ SameNodes
        /\ \A j \in FileIds : j # key => BucketHead(j)' = BucketHead(j)
    BY <1>4, SlotStore DEF IndexInv, HeaderInv
  <2> QED  BY <1>1, <1>4, <2>1 DEF Keeps, SameNodes
<1>5. CASE Start
  BY <1>2, <1>5 DEF Start, StartWrite, StartLookup
<1>6. CASE \/ WriteBlock \/ HashFindSlot \/ HashFindEnd \/ HashFindHit \/ HashFindNext
           \/ HashFindFails \/ Flush \/ ReadSegmentMeta \/ ReadBlock \/ Kill
  BY <1>2, <1>6
     DEF WriteBlock, HashFindSlot, HashFindEnd, HashFindHit, HitOn, HashFindNext, PassOn, HashFindFails,
         Flush, ReadSegmentMeta, TakesMeta, ReadBlock, Kill, Fails, Faults, fileVars
<1>7. CASE ReuseNode \/ AppendNode
  BY <1>2, <1>3, <1>7, HeaderAddresses DEF ReuseNode, AppendNode, Popped, Grown, Fails
<1>8. CASE StoreMeta \/ FreeNode \/ KillStoring
  BY <1>8, NodeStoresKeep
<1>9. CASE LinkNode
  <2>1. mem' = LinkedAtHead(mem, key, cur) /\ key \in FileIds /\ BucketHead(key) = 0
    BY <1>9 DEF LinkNode, IndexInv, RegistersInv
  <2> QED  BY <1>1, <1>4, <2>1
<1>10. CASE PushNode
  BY <1>3, <1>10, HeaderAddresses DEF PushNode, Pushed
<1>11. CASE CommitOffset \/ UpdateBlockInfo
  <2>1. \E a \in Addr : a < HEADER_SIZE /\ \E x : mem' = [mem EXCEPT ![a] = x]
    BY <1>11, CounterStored, HeaderAddresses
  <2> QED  BY <1>3, <2>1
<1>12. CASE UnlinkNode
  <2>1. pc = "unlink" /\ op = "delete" /\ prev = 0 /\ key \in FileIds
    BY <1>12 DEF UnlinkNode, StepOK, IndexInv, RegistersInv
  <2>2. mem' = mem \/ \E x : mem' = LinkedAtHead(mem, key, x)
    BY <1>12, <2>1 DEF UnlinkNode, Fails
  <2> QED  BY <1>2, <1>4, <2>1, <2>2
<1>13. CASE RelinkNode \/ UnlinkBehind \/ BypassNode
  BY <1>13 DEF RelinkNode, UnlinkBehind, BypassNode, IndexInv, RegistersInv
<1> QED
  BY <1>5, <1>6, <1>7, <1>8, <1>9, <1>10, <1>11, <1>12, <1>13 DEF Next, ToolStep
-----------------------------------------------------------------------------
(* A word that is the same on the disk and in the mapping is so whichever  *)
(* sectors are written.                                                    *)
LEMMA WrittenWords ==
  ASSUME NEW U, NEW m, NEW a \in Addr, disk[a] = m[a]
  PROVE  Written(U, m)[a] = m[a]
BY DEF Written

(* The units fill the storage.                                             *)
LEMMA UnitsFill ==
  ASSUME NEW x \in Nat, NEW w \in Nat \ {0}, x % w = 0
  PROVE  x \div w \in Nat /\ x = w * (x \div w)
OBVIOUS

(* msync puts every word that is mapped on the disk.                       *)
LEMMA SyncedWords ==
  ASSUME NEW n \in Nat, NEW m, NEW a \in Addr, a < n
  PROVE  Written(Synced(n), m)[a] = m[a]
<1> DEFINE u == a \div UnitSize
<1>1. UnitSize \in Nat \ {0} /\ a \in Nat
  BY AddrIsWord DEF UnitSize
<1>2. u \in Nat /\ UnitSize * u <= a
  BY <1>1
<1>3. u \in Units
  <2>1. PICK i \in 0 .. FileWords - 1 : a = 4 * i
    BY DEF Addr
  <2>2. u = i \div UnitWords
    BY <2>1 DEF UnitSize
  <2> DEFINE q == FileWords \div UnitWords
  <2>3. q \in Nat /\ FileWords = UnitWords * q
    BY UnitsFill
  <2> HIDE DEF q
  <2>4. u < q
    BY <2>1, <2>2, <2>3
  <2> QED  BY <1>2, <2>3, <2>4 DEF Units, q
<1>4. u \in Synced(n)
  <2>1. UnitSize * u < n
    BY <1>1, <1>2
  <2> QED  BY <1>3, <2>1 DEF Synced
<1> QED  BY <1>4 DEF Written

(* Two nodes are the same if their six words are, and only then.           *)
SixWords == {0, 4, 8, 12, 16, 20}

LEMMA SameNode ==
  ASSUME NEW e, NEW m, NEW o \in NodeOffsets, \A i \in SixWords : e[o + i] = m[o + i]
  PROVE  ReadMeta(e, o) = ReadMeta(m, o)
<1>1. o \in Nat
  BY NodeAddresses
<1>2. /\ e[o] = m[o] /\ e[o + 4] = m[o + 4] /\ e[o + 8] = m[o + 8]
      /\ e[o + 12] = m[o + 12] /\ e[o + 16] = m[o + 16] /\ e[o + 20] = m[o + 20]
  <2>1. e[o + 0] = m[o + 0] /\ o + 0 = o
    BY <1>1 DEF SixWords
  <2> QED  BY <2>1 DEF SixWords
<1> QED  BY <1>2, ReadMetaWords

LEMMA SameWords ==
  ASSUME NEW e, NEW m, NEW o \in NodeOffsets, ReadMeta(e, o) = ReadMeta(m, o)
  PROVE  \A i \in SixWords : e[o + i] = m[o + i]
<1>1. o \in Nat
  BY NodeAddresses
<1>2. /\ e[o] = m[o] /\ e[o + 4] = m[o + 4] /\ e[o + 8] = m[o + 8]
      /\ e[o + 12] = m[o + 12] /\ e[o + 16] = m[o + 16] /\ e[o + 20] = m[o + 20]
  BY ReadMetaWords
<1> QED  BY <1>1, <1>2 DEF SixWords

(* The six words are in the storage.                                       *)
LEMMA WordsOfNode ==
  ASSUME NEW o \in NodeOffsets, NEW i \in SixWords
  PROVE  o \in Nat /\ o + i \in Addr /\ o + i < o + 24
BY NodeAddresses DEF SixWords

(* So is a node.                                                           *)
LEMMA WrittenNode ==
  ASSUME NEW o \in NodeOffsets, NEW U, NEW m, ReadMeta(disk, o) = ReadMeta(m, o)
  PROVE  ReadMeta(Written(U, m), o) = ReadMeta(m, o)
<1> DEFINE w == Written(U, m)
<1>1. \A i \in SixWords : disk[o + i] = m[o + i]
  BY SameWords
<1>2. \A i \in SixWords : w[o + i] = m[o + i]
  BY <1>1, WordsOfNode, WrittenWords
<1> HIDE DEF w
<1>3. ReadMeta(w, o) = ReadMeta(m, o)
  BY <1>2, SameNode
<1> QED  BY <1>3 DEF w

(* A file whose node is mapped is on the disk once it was synchronised.    *)
LEMMA SyncedFile ==
  ASSUME EarlyBlock, TypeInv, IndexInv, NEW k \in Indexed,
         NEW n \in Nat, BucketHead(k) + META_SIZE <= n
  PROVE  /\ Written(Synced(n), mem)[SlotAddr(k)] = BucketHead(k)
         /\ ReadMeta(Written(Synced(n), mem), BucketHead(k)) = ReadMeta(mem, BucketHead(k))
<1> DEFINE o == BucketHead(k)
           w == Written(Synced(n), mem)
<1>1. /\ k \in FileIds /\ o \in NodeOffsets /\ o \in Nat /\ o >= NodeBase
      /\ o + 24 <= n
  BY FileNode, NodeAddresses, Sizes DEF IsNodeOffset, TypeInv, TypeOK, Smaller
<1>2. SlotAddr(k) \in Addr /\ SlotAddr(k) < n /\ mem[SlotAddr(k)] = o
  BY <1>1, SlotAddresses, Sizes, AddrIsWord DEF BucketHead
<1>3. w[SlotAddr(k)] = o
  BY <1>2, SyncedWords
<1>4. ASSUME NEW i \in SixWords
      PROVE  w[o + i] = mem[o + i]
  <2>1. o + i \in Addr /\ o + i < n
    <3>1. o + i \in Addr /\ o + i < o + 24 /\ o + i \in Int
      BY <1>1, WordsOfNode, AddrIsWord
    <3> QED  BY <1>1, <3>1
  <2> QED  BY <2>1, SyncedWords
<1> HIDE DEF w
<1>5. ReadMeta(w, o) = ReadMeta(mem, o)
  BY <1>1, <1>4, SameNode
<1> QED  BY <1>3, <1>5 DEF w
-----------------------------------------------------------------------------
(* Up to the first power failure, every step keeps the durable files in    *)
(* the index and on the disk.                                              *)
DurIInv == failures \in Nat /\ (failures = 0 => TypeInv /\ DiskInv)

(* Only at its flush a write reports success, and its file is linked then. *)
LEMMA SuccessAtFlush ==
  ASSUME TypeInv, IndexInv, Next, Ends, op' = "write", ret' = "TFS_SUCCESS"
  PROVE  mem' = mem /\ key' = key /\ key \in Indexed
<1>1. pc = "flush" /\ op = "write" /\ mem' = mem /\ key' = key
  BY DEF Ends, Next, Start, StartWrite, StartLookup, ToolStep, WriteBlock, HashFindSlot,
         HashFindEnd, HashFindHit, HitOn, HashFindNext, PassOn, HashFindFails, ReuseNode,
         AppendNode, StoreMeta, LinkNode, RelinkNode, CommitOffset, UpdateBlockInfo, Flush,
         UnlinkNode, UnlinkBehind, BypassNode, FreeNode, PushNode, ReadSegmentMeta, TakesMeta,
         ReadBlock, Kill, KillStoring, Goto, Exit, Fails, Faults, FailsStoring, fileVars,
         TypeInv, StepOK
<1> QED  BY <1>1 DEF IndexInv, TruthInv

(* A file keeps being on the disk while its slot and its node are kept.    *)
LEMMA KeptOnDisk ==
  ASSUME TypeInv, IndexInv, EarlyBlock, NEW k \in Indexed, OnDisk(k), Keeps(k),
         disk' = disk \/ \E U : disk' = Written(U, mem')
  PROVE  k \in Indexed' /\ OnDisk(k)'
<1>1. /\ k \in FileIds /\ BucketHead(k) \in NodeOffsets
      /\ HasKey(ReadMeta(mem, BucketHead(k)), k)
      /\ k % BucketSize = k /\ SlotAddr(k) \in Addr
  BY FileNode, SlotAddresses
<1>2. k \in Indexed'
  BY <1>1 DEF Keeps, Indexed
<1>3. /\ disk[SlotAddr(k)] = BucketHead(k) /\ mem'[SlotAddr(k)] = BucketHead(k)
      /\ ReadMeta(disk, BucketHead(k)) = ReadMeta(mem', BucketHead(k))
  BY <1>1 DEF OnDisk, Keeps, BucketHead
<1>4. /\ disk'[SlotAddr(k)] = BucketHead(k)
      /\ ReadMeta(disk', BucketHead(k)) = ReadMeta(mem', BucketHead(k))
  BY <1>1, <1>3, WrittenWords, WrittenNode
<1> QED  BY <1>1, <1>2, <1>4 DEF OnDisk, Keeps

LEMMA DurableToolStep ==
  ASSUME EarlyBlock, FullyMapped, DurIInv, failures = 0, DurableStep
  PROVE  DurIInv' /\ failures' = 0
<1>1. /\ TypeInv /\ DiskInv /\ IndexInv /\ Next /\ failures' = 0 /\ disk' = disk
      /\ closing' = IF Ends /\ Syncs(op, pc, ret') THEN mapped ELSE 0
      /\ durable' = IF op' = "delete" THEN durable \ {key'} ELSE durable
  BY DEF DurIInv, DiskInv, DurableStep
<1>2. TypeInv' /\ IndexInv'
  BY <1>1, IndexInvStep
<1>3. Inductive
  BY <1>1, <1>2 DEF Inductive
<1>4. ASSUME NEW k \in durable'
      PROVE  k \in Indexed' /\ OnDisk(k)'
  <2>1. k \in durable /\ ~ (op = "delete" /\ k = key)
    BY <1>1, <1>4 DEF DiskInv
  <2>2. k \in Indexed /\ OnDisk(k)
    BY <1>1, <2>1 DEF DiskInv
  <2>3. Keeps(k)
    BY <1>1, <1>3, <2>1, <2>2, FilesKeep
  <2> QED  BY <1>1, <2>2, <2>3, KeptOnDisk
<1>5. op' = "delete" => key' \notin durable'
  BY <1>1
<1>6. /\ closing' \in Nat
      /\ closing' # 0 => Ends
  <2>1. mapped \in Nat
    BY <1>1, Sizes DEF TypeInv, TypeOK, Smaller
  <2> QED  BY <1>1, <2>1
<1>7. closing' # 0 => pc' = "idle"
  BY <1>6 DEF Ends
<1>8. closing' # 0 /\ op' = "write" /\ ret' = "TFS_SUCCESS" => key' \in Indexed'
  <2>1. SUFFICES ASSUME Ends, op' = "write", ret' = "TFS_SUCCESS"
                 PROVE  key' \in Indexed'
    BY <1>6
  <2>2. mem' = mem /\ key' = key /\ key \in Indexed
    BY <1>1, <2>1, SuccessAtFlush
  <2> QED  BY <2>2 DEF Indexed, BucketHead
<1> QED  BY <1>1, <1>2, <1>4, <1>5, <1>6, <1>7, <1>8 DEF DurIInv, DiskInv

(* What does not change the index.                                         *)
LEMMA SameIndex ==
  ASSUME EarlyBlock, FullyMapped, TypeInv, IndexInv, UNCHANGED vars
  PROVE  TypeInv' /\ IndexInv' /\ Indexed' = Indexed /\ \A k : Keeps(k)
<1>1. TypeInv' /\ IndexInv'
  BY IndexInvStep
<1>2. \A k : Keeps(k)
  BY DEF vars, Keeps, BucketHead
<1>3. Indexed' = Indexed
  BY <1>2 DEF vars, Keeps, Indexed
<1> QED  BY <1>1, <1>2, <1>3

(* The mapping of the process that has reported is synchronised, or not.   *)
LEMMA DestroysStep ==
  ASSUME EarlyBlock, FullyMapped, DurIInv, failures = 0, Destroys
  PROVE  DurIInv' /\ failures' = 0
<1>1. /\ TypeInv /\ DiskInv /\ IndexInv /\ UNCHANGED vars /\ failures' = 0
      /\ closing' = 0 /\ closing # 0 /\ closing \in Nat
      /\ UNCHANGED <<mem, op, key>>
  BY DEF DurIInv, DiskInv, Destroys, vars
<1>2. TypeInv' /\ IndexInv' /\ Indexed' = Indexed /\ \A k : Keeps(k)
  BY <1>1, SameIndex
<1>3. ASSUME NEW k \in durable
      PROVE  k \in Indexed' /\ OnDisk(k)'
  <2>1. k \in Indexed /\ OnDisk(k)
    BY <1>1, <1>3 DEF DiskInv
  <2>2. disk' = disk \/ \E U : disk' = Written(U, mem')
    BY <1>1 DEF Destroys
  <2> QED  BY <1>1, <1>2, <2>1, <2>2, KeptOnDisk
<1>4. CASE durable' = durable
  BY <1>1, <1>2, <1>3, <1>4 DEF DurIInv, DiskInv
<1>5. CASE /\ disk' = Written(Synced(closing), mem)
           /\ durable' = durable \cup {key} /\ op = "write" /\ ret = "TFS_SUCCESS"
           /\ BucketHead(key) + META_SIZE <= closing
  <2>1. key \in Indexed
    BY <1>1, <1>5 DEF DiskInv
  <2>2. key \in FileIds /\ key % BucketSize = key
    BY <1>1, <2>1, FileNode, SlotAddresses
  <2>3. /\ disk'[SlotAddr(key)] = BucketHead(key)
        /\ ReadMeta(disk', BucketHead(key)) = ReadMeta(mem, BucketHead(key))
    BY <1>1, <1>5, <2>1, SyncedFile
  <2>4. OnDisk(key)'
    BY <1>1, <1>2, <2>2, <2>3 DEF OnDisk, Keeps
  <2>5. \A k \in durable' : k \in Indexed' /\ OnDisk(k)'
    BY <1>1, <1>2, <1>3, <1>5, <2>1, <2>4
  <2> QED  BY <1>1, <1>2, <1>5, <2>5 DEF DurIInv, DiskInv
<1> QED  BY <1>1, <1>4, <1>5 DEF Destroys

LEMMA WriteBackStep ==
  ASSUME EarlyBlock, FullyMapped, DurIInv, failures = 0, WriteBack
  PROVE  DurIInv' /\ failures' = 0
<1>1. /\ TypeInv /\ DiskInv /\ IndexInv /\ UNCHANGED vars
      /\ UNCHANGED <<mem, op, key, pc, ret, closing, failures, durable>>
  BY DEF DurIInv, DiskInv, WriteBack, vars
<1>2. TypeInv' /\ IndexInv' /\ Indexed' = Indexed /\ \A k : Keeps(k)
  BY <1>1, SameIndex
<1>3. ASSUME NEW k \in durable
      PROVE  OnDisk(k)'
  <2>1. k \in Indexed /\ OnDisk(k)
    BY <1>1, <1>3 DEF DiskInv
  <2>2. \E U : disk' = Written(U, mem')
    BY <1>1 DEF WriteBack
  <2> QED  BY <1>1, <1>2, <2>1, <2>2, KeptOnDisk
<1> QED  BY <1>1, <1>2, <1>3 DEF DurIInv, DiskInv
-----------------------------------------------------------------------------
(* The power fails: what the disk has of a durable file is what its slot   *)
(* and its node are then, so the file can still be found.                  *)
LEMMA FailureStep ==
  ASSUME EarlyBlock, DurIInv, failures = 0, PowerFailure
  PROVE  DurIInv' /\ Durable'
<1>1. /\ TypeInv /\ DiskInv /\ IndexInv /\ mem' = disk /\ durable' = durable
      /\ failures' = 1
  BY DEF DurIInv, DiskInv, PowerFailure
<1>2. ASSUME NEW k \in durable
      PROVE  k \in Indexed'
  <2>1. k \in Indexed /\ OnDisk(k)
    BY <1>1, <1>2 DEF DiskInv
  <2>2. /\ k \in FileIds /\ BucketHead(k) \in NodeOffsets
        /\ HasKey(ReadMeta(mem, BucketHead(k)), k)
    BY <1>1, <2>1, FileNode
  <2>3. BucketHead(k)' = BucketHead(k)
    BY <1>1, <2>1 DEF OnDisk, BucketHead
  <2>4. HasKey(ReadMeta(mem', BucketHead(k)), k)
    BY <1>1, <2>1, <2>2 DEF OnDisk
  <2> QED  BY <2>2, <2>3, <2>4 DEF Indexed
<1>3. Durable'
  BY <1>1, <1>2 DEF Durable
<1> QED  BY <1>1, <1>3 DEF DurIInv

(* A step from before the first failure ends in a state with all durable   *)
(* files; afterwards DurIInv says no more.                                 *)
LEMMA DurStep ==
  ASSUME EarlyBlock, FullyMapped, DurIInv, [DurNext]_allVars
  PROVE  DurIInv' /\ (failures = 0 => Durable')
<1>1. CASE failures = 0 /\ (DurableStep \/ Destroys \/ WriteBack)
  <2>1. DurIInv' /\ failures' = 0
    BY <1>1, DurableToolStep, DestroysStep, WriteBackStep
  <2> QED  BY <2>1 DEF DurIInv, DiskInv, Durable
<1>2. CASE failures = 0 /\ PowerFailure
  BY <1>2, FailureStep
<1>3. CASE failures # 0 /\ DurNext
  <2>1. failures \in Nat /\ failures' \in {failures, failures + 1}
    BY <1>3 DEF DurIInv, DurNext, DurableStep, Destroys, WriteBack, PowerFailure
  <2> QED  BY <1>3, <2>1 DEF DurIInv
<1>4. CASE UNCHANGED allVars
  <2>1. UNCHANGED <<vars, disk, closing, failures, durable>>
    BY <1>4 DEF allVars, durVars
  <2>2. Indexed' = Indexed /\ \A k : BucketHead(k)' = BucketHead(k)
    BY <2>1 DEF vars, Indexed, BucketHead
  <2>3. failures = 0 => TypeInv' /\ IndexInv'
    BY <2>1, IndexInvStep DEF DurIInv, DiskInv
  <2>4. failures = 0 => DiskInv' /\ Durable'
    BY <2>1, <2>2, <2>3 DEF DurIInv, DiskInv, OnDisk, Durable, vars
  <2> QED  BY <2>1, <2>3, <2>4 DEF DurIInv
<1> QED  BY <1>1, <1>2, <1>3, <1>4 DEF DurNext

LEMMA DurStarts ==
  ASSUME EarlyBlock, DurInit
  PROVE  DurIInv /\ Durable
<1>1. TypeInv /\ IndexInv /\ op = "none" /\ closing = 0 /\ failures = 0 /\ durable = {}
  BY TypeInvInit, IndexInvInit DEF DurInit, Init
<1> QED  BY <1>1 DEF DurIInv, DiskInv, Durable

(* A file whose write reported success, whose process came to destroying   *)
(* its mapping and had it synchronised, and whose deletion was not asked   *)
(* for since, can be found until the power fails and right after it did,   *)
(* however the sectors of the index were written back, whatever was stored *)
(* later and not synchronised, and however often a tool was killed.  Of a  *)
(* write that only reported success it says nothing.                       *)
THEOREM SurvivesPowerFailure ==
  ASSUME EarlyBlock, FullyMapped
  PROVE  DurSpec => Durable /\ [][failures = 0 => Durable']_allVars
<1>1. DurInit => DurIInv /\ Durable
  BY DurStarts
<1>2. DurIInv /\ [DurNext]_allVars => DurIInv' /\ (failures = 0 => Durable')
  BY DurStep
<1> QED  BY <1>1, <1>2, PTL DEF DurSpec
=============================================================================
