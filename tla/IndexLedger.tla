----------------------------- MODULE IndexLedger -----------------------------
(***************************************************************************)
(* The counters of the header, the bytes in the main block and the file    *)
(* table: LedgerInv is an invariant of a block whose ids hash below the    *)
(* overlapped slots and whose index fits into the largest mapping, and     *)
(* such a block implements FileTable.                                      *)
(***************************************************************************)
EXTENDS IndexSafety, FiniteSetTheorems

USE LayoutAssumption, IndexHandleAssumption

Booked == Inductive /\ IndexInv' /\ Books

(* What a step has to keep; the balance of the ids, as far as it held.     *)
CountsKept == CountInv' /\ OffsetInv' /\ (BalanceInv => BalanceInv')
BooksKept  == Books' /\ (BalanceInv => BalanceInv')

Counters == {VERSION, FILE_COUNT, SIZE, DEL_FILE_COUNT, DEL_SIZE, SEQ_NO, DATA_FILE_OFFSET}

SameCounters == \A a \in Counters : mem'[a] = mem[a]
SameFiles    == /\ SameBuckets
                /\ \A o \in LiveNodes : ReadMeta(mem', o) = ReadMeta(mem, o)

(* The files that can be found and the next id stay what they are.         *)
Stays == SameBuckets /\ Indexed' = Indexed /\ mem'[SEQ_NO] = mem[SEQ_NO]

(* The counters are integers.                                              *)
LEMMA CounterTypes ==
  ASSUME TypeOK
  PROVE  /\ mem[VERSION] \in Int /\ mem[FILE_COUNT] \in Int /\ mem[SIZE] \in Int
         /\ mem[DEL_FILE_COUNT] \in Int /\ mem[DEL_SIZE] \in Int /\ mem[SEQ_NO] \in Int
         /\ mem[DATA_FILE_OFFSET] \in Int /\ mem[INDEX_FILE_SIZE] \in Int
         /\ kills \in Nat /\ step \in Nat /\ key \in Int
BY HeaderAddresses DEF TypeOK

(* No more files are indexed than there are ids.                           *)
LEMMA FewFiles ==
  IsFiniteSet(Indexed) /\ Cardinality(Indexed) \in Nat /\ Cardinality(Indexed) <= MaxId
<1>1. IsFiniteSet(FileIds) /\ Cardinality(FileIds) = MaxId
  <2>1. PICK a, b \in Int : a = 1 /\ b = MaxId
    OBVIOUS
  <2>2. IsFiniteSet(a .. b) /\ Cardinality(a .. b) = IF a > b THEN 0 ELSE b - a + 1
    BY FS_Interval
  <2> QED  BY <2>1, <2>2 DEF FileIds
<1>2. Indexed \subseteq FileIds
  BY DEF Indexed
<1> QED  BY <1>1, <1>2, FS_Subset, FS_CardinalityType

(* A step that keeps the buckets and the nodes in use keeps the files and  *)
(* their sizes.                                                            *)
LEMMA FilesKept ==
  ASSUME Booked, SameFiles
  PROVE  /\ Indexed' = Indexed
         /\ \A k \in FileIds : BucketHead(k)' # 0
              => Plain(ReadMeta(mem', BucketHead(k)'))
<1> USE DEF Booked, Inductive, TypeInv
<1>1. \A k \in FileIds : k \in Indexed' <=> k \in Indexed
  BY LiveView, LiveViewNext DEF IndexInv, SameFiles, SameBuckets
<1>2. Indexed' = Indexed
  BY <1>1 DEF Indexed
<1>3. ASSUME NEW k \in FileIds, BucketHead(k)' # 0
      PROVE  Plain(ReadMeta(mem', BucketHead(k)'))
  <2>1. BucketHead(k)' = BucketHead(k) /\ BucketHead(k) \in LiveNodes
    BY <1>3, LiveView DEF IndexInv, SameFiles, SameBuckets
  <2>2. Plain(ReadMeta(mem, BucketHead(k)))
    BY <1>3, <2>1 DEF Books, NodeSizesInv
  <2> QED  BY <2>1, <2>2 DEF SameFiles
<1> QED  BY <1>2, <1>3

(* A step that changes no counter, and not what is still owed to them,     *)
(* keeps the counts; a kill ends their being exact.                        *)
SameDebt == /\ Owing' <=> Owing
            /\ pc' = "commit" <=> pc = "commit"
            /\ Owing => op' = op /\ step' = step

LEMMA SameCounts ==
  ASSUME Booked, SameCounters, Indexed' = Indexed,
         kills' \in {kills, kills + 1}, kills' = kills => SameDebt
  PROVE  CountsKept /\ (kills' = 0 => FinalSeqNo' = FinalSeqNo)
<1> SUFFICES ASSUME kills' = 0
             PROVE  CountsKept /\ FinalSeqNo' = FinalSeqNo
  BY DEF CountsKept, CountInv, OffsetInv, BalanceInv
<1>1. kills = 0 /\ SameDebt
  BY CounterTypes DEF Booked, Inductive, TypeInv
<1>2. \A i, n : Due(i, n)' = Due(i, n)
  BY <1>1 DEF SameDebt, Due
<1>3. /\ mem'[VERSION] = mem[VERSION] /\ mem'[FILE_COUNT] = mem[FILE_COUNT]
      /\ mem'[SIZE] = mem[SIZE] /\ mem'[DEL_FILE_COUNT] = mem[DEL_FILE_COUNT]
      /\ mem'[DEL_SIZE] = mem[DEL_SIZE] /\ mem'[SEQ_NO] = mem[SEQ_NO]
      /\ mem'[DATA_FILE_OFFSET] = mem[DATA_FILE_OFFSET]
  BY DEF SameCounters, Counters
<1>4. /\ FinalVersion' = FinalVersion /\ FinalFiles' = FinalFiles
      /\ FinalSeqNo' = FinalSeqNo /\ FinalSize' = FinalSize
      /\ FinalDeleted' = FinalDeleted /\ FinalDelSize' = FinalDelSize
      /\ FinalOffset' = FinalOffset
  BY <1>1, <1>3
     DEF SameDebt, Owing, Due, Writing, FinalVersion, FinalFiles, FinalSeqNo, FinalSize,
         FinalDeleted, FinalDelSize, FinalOffset
<1>5. CountInv /\ OffsetInv
  BY DEF Booked, Books
<1> QED  BY <1>1, <1>4, <1>5 DEF CountsKept, CountInv, OffsetInv, BalanceInv

(* A step keeps the ids in order when a write that is running then was     *)
(* running before.                                                         *)
LEMMA IdsKept ==
  ASSUME Booked, SameCounters, Indexed' = Indexed, IdPending' => IdPending /\ key' = key,
         kills' \in {kills, kills + 1}, kills' = 0 => FinalSeqNo' = FinalSeqNo
  PROVE  IdsInv'
<1>1. mem'[SEQ_NO] = mem[SEQ_NO]
  BY DEF SameCounters, Counters
<1>2. IdsInv
  BY DEF Booked, Books
<1>3. IdPending' => key' = mem'[SEQ_NO]
  BY <1>1, <1>2 DEF IdsInv
<1>4. kills' = 0 => kills = 0
  BY CounterTypes DEF Booked, Inductive, TypeInv
<1>5. ASSUME kills' = 0 PROVE \A k \in Indexed' : k < FinalSeqNo'
  BY <1>2, <1>4, <1>5 DEF IdsInv
<1> QED  BY <1>3, <1>5 DEF IdsInv

(* A step keeps the number of committed files within its bound, and the    *)
(* bytes of the files, unless it overwrites the next slot with another id. *)
LEMMA SlotsKept ==
  ASSUME Booked, SameCounters, kills' \in {kills, kills + 1},
         kills' + Taken({})' >= kills + Taken({}),
         pc' = "update" /\ Writing' => pc = "update" /\ Writing,
         \A o \in DataOffsets : block'[o] # block[o]
           => o = mem[DATA_FILE_OFFSET] /\ block[o] # mem[SEQ_NO]
  PROVE  /\ \E c \in 0 .. mem'[SEQ_NO] - 1 + kills' + Taken({})' :
              mem'[DATA_FILE_OFFSET] = FileSize * c
         /\ \A k \in Indexed : \E o \in DataOffsets :
              /\ block'[o] = k
              /\ \/ o < mem'[DATA_FILE_OFFSET]
                 \/ /\ o = mem'[DATA_FILE_OFFSET] /\ k = mem'[SEQ_NO]
                    /\ ~ (Writing /\ pc = "update")'
<1>1. mem'[SEQ_NO] = mem[SEQ_NO] /\ mem'[DATA_FILE_OFFSET] = mem[DATA_FILE_OFFSET]
  BY DEF SameCounters, Counters
<1>2. BytesInv
  BY DEF Booked, Books
<1>3. \E c \in 0 .. mem'[SEQ_NO] - 1 + kills' + Taken({})' :
        mem'[DATA_FILE_OFFSET] = FileSize * c
  <2>1. PICK c \in 0 .. mem[SEQ_NO] - 1 + kills + Taken({}) :
          mem[DATA_FILE_OFFSET] = FileSize * c
    BY <1>2 DEF BytesInv
  <2>2. /\ Taken({}) \in {0, 1} /\ Taken({})' \in {0, 1} /\ mem[SEQ_NO] \in Int
        /\ kills \in Nat /\ kills' \in Nat
    BY CounterTypes DEF Taken, Booked, Inductive, TypeInv
  <2>3. c \in 0 .. mem'[SEQ_NO] - 1 + kills' + Taken({})'
    BY <1>1, <2>2
  <2> QED  BY <1>1, <2>1, <2>3
<1>4. ASSUME NEW k \in Indexed
      PROVE  \E o \in DataOffsets :
               /\ block'[o] = k
               /\ \/ o < mem'[DATA_FILE_OFFSET]
                  \/ /\ o = mem'[DATA_FILE_OFFSET] /\ k = mem'[SEQ_NO]
                     /\ ~ (Writing /\ pc = "update")'
  <2>1. PICK o \in DataOffsets :
          /\ block[o] = k
          /\ \/ o < mem[DATA_FILE_OFFSET]
             \/ /\ o = mem[DATA_FILE_OFFSET] /\ k = mem[SEQ_NO]
                /\ ~ (Writing /\ pc = "update")
    BY <1>2 DEF BytesInv
  <2>2. o \in Int /\ mem[DATA_FILE_OFFSET] \in Int
    BY CounterTypes DEF DataOffsets, Booked, Inductive, TypeInv
  <2>3. block'[o] = k
    BY <2>1, <2>2
  <2> QED  BY <1>1, <2>1, <2>3
<1> QED  BY <1>3, <1>4

(* A step that keeps the length of the node area keeps its bound.          *)
LEMMA NodesKept ==
  ASSUME Booked, SameCounters, mem'[INDEX_FILE_SIZE] = mem[INDEX_FILE_SIZE],
         kills' \in {kills, kills + 1},
         kills' + Taken({"store", "link", "commit"})'
           >= kills + Taken({"store", "link", "commit"})
  PROVE  NodesInv'
<1> DEFINE t == Taken({"store", "link", "commit"})
<1>1. mem'[SEQ_NO] = mem[SEQ_NO]
  BY DEF SameCounters, Counters
<1>2. PICK n \in 0 .. mem[SEQ_NO] - 1 + kills + t :
        mem[INDEX_FILE_SIZE] = NodeBase + META_SIZE * n
  BY DEF Booked, Books, NodesInv
<1>3. /\ t \in {0, 1} /\ t' \in {0, 1} /\ mem[SEQ_NO] \in Int
      /\ kills \in Nat /\ kills' \in Nat
  BY CounterTypes DEF Taken, Booked, Inductive, TypeInv
<1> HIDE DEF t
<1>4. n \in 0 .. mem'[SEQ_NO] - 1 + kills' + t'
  BY <1>1, <1>3 DEF t
<1>5. \E i \in 0 .. mem'[SEQ_NO] - 1 + kills' + t' :
        mem'[INDEX_FILE_SIZE] = NodeBase + META_SIZE * i
  BY <1>2, <1>4
<1> QED  BY <1>5 DEF NodesInv, t
-----------------------------------------------------------------------------
(* The steps that change no counter and no file: a tool that goes on, and  *)
(* one that ends.                                                          *)

Moves ==
  \/ pc = "pwrite_block" /\ pc' = "find"
  \/ pc = "find" /\ pc' = "walk"
  \/ pc = "walk" /\ pc' \in {"alloc", "unlink", "read_meta"}
  \/ pc = "alloc" /\ pc' = "store"
  \/ pc = "store" /\ pc' = "link"
  \/ pc = "free" /\ pc' = "push"
  \/ pc = "push" /\ pc' = "update"
  \/ pc = "read_meta" /\ pc' = "pread_block"

(* A tool that goes on keeps the books, if the write that puts its contents *)
(* into the main block puts them into the next slot.                       *)
LEMMA ToolGoesOn ==
  ASSUME Booked, SameCounters, SameFiles, Moves, UNCHANGED <<op, key, step, kills>>,
         pc' # "pread_block" => meta'.size = meta.size,
         pc' = "link" => Plain(ReadMeta(mem', cur')),
         IF pc' = "find"
         THEN /\ block'[mem[DATA_FILE_OFFSET]] = key
              /\ \A o \in DataOffsets : block'[o] # block[o]
                   => o = mem[DATA_FILE_OFFSET] /\ block[o] # mem[SEQ_NO]
         ELSE block' = block
  PROVE  /\ NodeSizesInv' /\ IdsInv' /\ CountsKept /\ BytesInv' /\ Stays
         /\ mem'[INDEX_FILE_SIZE] = mem[INDEX_FILE_SIZE] => NodesInv'
<1> USE DEF Booked, Inductive, TypeInv
<1>0. /\ Indexed' = Indexed /\ kills \in Nat
      /\ \A k \in FileIds : BucketHead(k)' # 0
              => Plain(ReadMeta(mem', BucketHead(k)'))
  BY FilesKept, CounterTypes
<1>1. kills' \in {kills, kills + 1} /\ SameDebt
  BY <1>0 DEF Moves, SameDebt, Owing
<1>2. CountsKept /\ (kills' = 0 => FinalSeqNo' = FinalSeqNo)
  BY <1>0, <1>1, SameCounts
<1>3. IdPending' => IdPending /\ key' = key
  BY DEF Moves, IdPending, Writing, StepOK
<1>4. IdsInv'
  BY <1>0, <1>1, <1>2, <1>3, IdsKept
<1>5. ~ (pc' = "update" /\ Writing')
  BY DEF Moves, Writing, StepOK
<1>6. kills' + Taken({})' >= kills + Taken({})
  BY <1>0 DEF Moves, Taken, IdPending, Writing
<1>7. /\ \E c \in 0 .. mem'[SEQ_NO] - 1 + kills' + Taken({})' :
           mem'[DATA_FILE_OFFSET] = FileSize * c
      /\ \A k \in Indexed : \E o \in DataOffsets :
           /\ block'[o] = k
           /\ \/ o < mem'[DATA_FILE_OFFSET]
              \/ /\ o = mem'[DATA_FILE_OFFSET] /\ k = mem'[SEQ_NO]
                 /\ ~ (Writing /\ pc = "update")'
  BY <1>0, <1>1, <1>5, <1>6, SlotsKept
<1>8. mem'[DATA_FILE_OFFSET] = mem[DATA_FILE_OFFSET]
  BY DEF SameCounters, Counters
<1>9. Writing' /\ pc' \in {"find", "walk", "alloc", "store", "link"}
        => block'[mem'[DATA_FILE_OFFSET]] = key'
  BY <1>8 DEF Moves, Writing, Books, BytesInv
<1>10. BytesInv'
  BY <1>0, <1>7, <1>9 DEF Moves, BytesInv
<1>11. NodeSizesInv'
  BY <1>0 DEF Moves, Writing, StepOK, Books, NodeSizesInv
<1>12. kills' + Taken({"store", "link", "commit"})'
         >= kills + Taken({"store", "link", "commit"})
  BY <1>0 DEF Moves, Taken, IdPending, Writing
<1>13. mem'[INDEX_FILE_SIZE] = mem[INDEX_FILE_SIZE] => NodesInv'
  BY <1>1, <1>12, NodesKept
<1>14. Stays
  BY <1>0 DEF Stays, SameFiles, SameCounters, Counters
<1> QED  BY <1>2, <1>4, <1>10, <1>11, <1>13, <1>14

(* So does one that ends before it has linked or unlinked a node, and one  *)
(* that is killed.                                                         *)
LEMMA Ends ==
  ASSUME Booked, SameCounters, SameFiles, pc' = "idle",
         kills' = kills + 1 \/ (kills' = kills /\ ~ Owing),
         \A o \in DataOffsets : block'[o] # block[o]
           => o = mem[DATA_FILE_OFFSET] /\ block[o] # mem[SEQ_NO]
  PROVE  /\ NodeSizesInv' /\ IdsInv' /\ CountsKept /\ BytesInv' /\ Stays
         /\ /\ mem'[INDEX_FILE_SIZE] = mem[INDEX_FILE_SIZE]
            /\ kills' = kills => pc \notin {"store", "link"}
            => NodesInv'
<1> USE DEF Booked, Inductive, TypeInv
<1>0. /\ Indexed' = Indexed /\ kills \in Nat
      /\ \A k \in FileIds : BucketHead(k)' # 0
              => Plain(ReadMeta(mem', BucketHead(k)'))
  BY FilesKept, CounterTypes
<1>1. kills' \in {kills, kills + 1} /\ (kills' = kills => SameDebt)
  BY <1>0 DEF SameDebt, Owing
<1>2. CountsKept /\ (kills' = 0 => FinalSeqNo' = FinalSeqNo)
  BY <1>0, <1>1, SameCounts
<1>3. ~ IdPending'
  BY DEF IdPending
<1>4. IdsInv'
  BY <1>0, <1>1, <1>2, <1>3, IdsKept
<1>5. kills' + Taken({})' >= kills + Taken({})
  BY <1>0 DEF Taken, IdPending, Owing
<1>6. /\ \E c \in 0 .. mem'[SEQ_NO] - 1 + kills' + Taken({})' :
           mem'[DATA_FILE_OFFSET] = FileSize * c
      /\ \A k \in Indexed : \E o \in DataOffsets :
           /\ block'[o] = k
           /\ \/ o < mem'[DATA_FILE_OFFSET]
              \/ /\ o = mem'[DATA_FILE_OFFSET] /\ k = mem'[SEQ_NO]
                 /\ ~ (Writing /\ pc = "update")'
  BY <1>0, <1>1, <1>5, SlotsKept
<1>7. BytesInv'
  BY <1>0, <1>6 DEF BytesInv
<1>8. NodeSizesInv'
  BY <1>0 DEF NodeSizesInv
<1>9. ASSUME mem'[INDEX_FILE_SIZE] = mem[INDEX_FILE_SIZE],
             kills' = kills => pc \notin {"store", "link"}
      PROVE  NodesInv'
  <2>1. kills' + Taken({"store", "link", "commit"})'
          >= kills + Taken({"store", "link", "commit"})
    BY <1>0, <1>9 DEF Taken, IdPending, Owing
  <2> QED  BY <1>1, <1>9, <2>1, NodesKept
<1>10. Stays
  BY <1>0 DEF Stays, SameFiles, SameCounters, Counters
<1> QED  BY <1>2, <1>4, <1>7, <1>8, <1>9, <1>10

(* A step that leaves the index alone changes no counter and no file.      *)
LEMMA SameIndex ==
  ASSUME mem' = mem
  PROVE  SameCounters /\ SameFiles /\ mem'[INDEX_FILE_SIZE] = mem[INDEX_FILE_SIZE]
BY DEF SameCounters, SameFiles, SameBuckets, BucketHead

(* Nor does a store to another field of the header.                        *)
LEMMA LinkStore ==
  ASSUME Booked, NEW a \in {INDEX_FILE_SIZE, FREE_HEAD}, NEW x, mem' = [mem EXCEPT ![a] = x]
  PROVE  /\ SameCounters /\ SameFiles /\ mem'[a] = x
         /\ a = FREE_HEAD => mem'[INDEX_FILE_SIZE] = mem[INDEX_FILE_SIZE]
<1> USE DEF Booked, Inductive, TypeInv
<1>1. /\ SameBuckets /\ SameNodes
      /\ mem'[a] = x /\ \A b \in Addr : b # a => mem'[b] = mem[b]
  BY HeaderStore, HeaderAddresses
<1>2. SameCounters
  BY <1>1, HeaderAddresses DEF SameCounters, Counters
<1>3. SameFiles
  BY <1>1, LiveView DEF SameFiles, SameNodes, IndexInv, Stored, AllocatedNodes
<1> QED  BY <1>1, <1>2, <1>3, HeaderAddresses

(* A tool starts owing nothing; a write takes the next id and the next     *)
(* slot.                                                                   *)
LEMMA StartBooks ==
  ASSUME Booked, Start
  PROVE  BooksKept /\ Stays
<1> USE DEF Booked, BooksKept, CountsKept, Inductive, TypeInv
<1>1. /\ pc = "idle" /\ mem' = mem /\ block' = block /\ kills' = kills
      /\ \/ /\ pc' = "pwrite_block" /\ op' = "write" /\ key' = mem[SEQ_NO]
            /\ meta'.size = FileSize /\ meta'.inner_offset = mem[DATA_FILE_OFFSET]
         \/ pc' = "find" /\ op' # "write"
  BY DEF Start, StartWrite, StartLookup, NoMeta
<1>2. /\ SameCounters /\ SameFiles /\ Indexed' = Indexed
      /\ \A k \in FileIds : BucketHead(k)' # 0
              => Plain(ReadMeta(mem', BucketHead(k)'))
  BY <1>1, SameIndex, FilesKept
<1>3. kills' \in {kills, kills + 1} /\ SameDebt /\ kills \in Nat
  BY <1>1, CounterTypes DEF SameDebt, Owing
<1>4. CountsKept /\ (kills' = 0 => FinalSeqNo' = FinalSeqNo)
  BY <1>2, <1>3, SameCounts
<1>5. IdsInv'
  BY <1>1, <1>2, <1>4 DEF IdPending, Writing, IdsInv, Books
<1>6. Taken({}) = 0 /\ Taken({"store", "link", "commit"}) = 0
  BY <1>1 DEF Taken, IdPending
<1>7. Taken({})' = 0 /\ Taken({"store", "link", "commit"})' = 0
  BY <1>1 DEF Taken, IdPending
<1>8. /\ \E c \in 0 .. mem'[SEQ_NO] - 1 + kills' + Taken({})' :
           mem'[DATA_FILE_OFFSET] = FileSize * c
      /\ \A k \in Indexed : \E o \in DataOffsets :
           /\ block'[o] = k
           /\ \/ o < mem'[DATA_FILE_OFFSET]
              \/ /\ o = mem'[DATA_FILE_OFFSET] /\ k = mem'[SEQ_NO]
                 /\ ~ (Writing /\ pc = "update")'
  BY <1>1, <1>2, <1>3, <1>6, <1>7, SlotsKept
<1>9. BytesInv'
  BY <1>1, <1>2, <1>8 DEF BytesInv, Writing
<1>10. NodesInv'
  BY <1>1, <1>2, <1>3, <1>6, <1>7, SameIndex, NodesKept
<1>11. NodeSizesInv'
  BY <1>1, <1>2 DEF NodeSizesInv, Writing
<1> QED  BY <1>1, <1>2, <1>4, <1>5, <1>9, <1>10, <1>11 DEF Books, Stays, SameFiles

(* The next slot of a write that has not counted its id is in the block.   *)
LEMMA NextSlot ==
  ASSUME Booked, Writing, pc \in {"pwrite_block", "link"}
  PROVE  mem[DATA_FILE_OFFSET] \in DataOffsets /\ key = mem[SEQ_NO]
<1> USE DEF Booked, BooksKept, CountsKept, Inductive, TypeInv
<1>1. PICK c \in 0 .. mem[SEQ_NO] - 1 + kills + Taken({}) :
        mem[DATA_FILE_OFFSET] = FileSize * c
  BY DEF Books, BytesInv
<1>2. Taken({}) = 0 /\ key = mem[SEQ_NO] /\ mem[SEQ_NO] \in 1 .. MaxId
      /\ kills \in 0 .. MaxKills
  BY DEF Taken, IdPending, Writing, Books, IdsInv, IndexInv, RegistersInv, FileIds, TypeOK
<1>3. c \in 0 .. MaxId + MaxKills
  BY <1>1, <1>2
<1> QED  BY <1>1, <1>2, <1>3 DEF DataOffsets

(* A write puts its contents into the next slot, which no other file has.  *)
LEMMA WriteBlockBooks ==
  ASSUME Booked, WriteBlock
  PROVE  BooksKept /\ Stays
<1> USE DEF Booked, BooksKept, CountsKept, Inductive, TypeInv
<1>1. /\ pc = "pwrite_block" /\ op = "write" /\ meta.inner_offset = mem[DATA_FILE_OFFSET]
      /\ key = mem[SEQ_NO] /\ mem' = mem /\ kills' = kills
  BY DEF WriteBlock, Goto, Exit, Books, BytesInv, IdsInv, IdPending, Writing, StepOK
<1>2. SameCounters /\ SameFiles /\ mem'[INDEX_FILE_SIZE] = mem[INDEX_FILE_SIZE]
  BY <1>1, SameIndex
<1>3. mem[DATA_FILE_OFFSET] \in DataOffsets
  BY <1>1, NextSlot DEF Writing
<1>4. CASE pc' = "find"
  <2>1. /\ block' = [block EXCEPT ![mem[DATA_FILE_OFFSET]] = mem[SEQ_NO]]
        /\ UNCHANGED <<op, key, step, meta>>
    BY <1>1, <1>4 DEF WriteBlock, Goto, Exit, regVars
  <2>2. /\ block'[mem[DATA_FILE_OFFSET]] = key
        /\ \A o \in DataOffsets : block'[o] # block[o]
             => o = mem[DATA_FILE_OFFSET] /\ block[o] # mem[SEQ_NO]
    BY <1>1, <1>3, <2>1 DEF TypeOK
  <2> QED  BY <1>1, <1>2, <1>4, <2>1, <2>2, ToolGoesOn DEF Moves, Books
<1>5. CASE pc' # "find"
  <2>1. pc' = "idle" /\ ~ Owing
    BY <1>1, <1>5 DEF WriteBlock, Goto, Exit, Owing
  <2>2. \/ block' = block
        \/ block' = [block EXCEPT ![mem[DATA_FILE_OFFSET]] = Overwritten(@, mem[SEQ_NO])]
    BY <1>1, <1>5 DEF WriteBlock, Goto
  <2>3. \A o \in DataOffsets : block'[o] # block[o]
          => o = mem[DATA_FILE_OFFSET] /\ block[o] # mem[SEQ_NO]
    BY <1>3, <2>2 DEF TypeOK, Overwritten
  <2> QED  BY <1>1, <1>2, <2>1, <2>3, Ends DEF Books
<1> QED  BY <1>4, <1>5

(* The steps that only read, and those that end a tool before it stores.   *)
LEMMA ReadBooks ==
  ASSUME Booked,
         \/ HashFindSlot \/ HashFindEnd \/ HashFindHit \/ HashFindNext \/ HashFindFails
         \/ ReadSegmentMeta \/ ReadBlock \/ Flush \/ Kill
  PROVE  BooksKept /\ Stays
<1> USE DEF Booked, BooksKept, CountsKept, Inductive, TypeInv
<1> DEFINE goes == /\ Moves /\ pc' \notin {"link", "find"}
                   /\ UNCHANGED <<op, key, step, kills>>
                   /\ pc' # "pread_block" => meta' = meta
           ends == /\ pc' = "idle"
                   /\ \/ kills' = kills + 1
                      \/ kills' = kills /\ pc \notin {"store", "link"} /\ ~ Owing
<1>1. mem' = mem /\ block' = block /\ (goes \/ ends)
  <2>1. CASE HashFindSlot
    BY <2>1 DEF HashFindSlot, Goto, fileVars, Moves
  <2>2. CASE HashFindEnd
    BY <2>2 DEF HashFindEnd, Goto, Exit, fileVars, regVars, Moves, Owing
  <2>3. CASE HashFindHit
    BY <2>3 DEF HashFindHit, HitOn, Goto, Exit, Moves, Owing
  <2>4. CASE HashFindNext
    BY <2>4 DEF HashFindNext, PassOn, IndexInv, RegistersInv, BucketsInv
  <2>5. CASE HashFindFails
    BY <2>5 DEF HashFindFails, Fails, Faults, Exit, fileVars, Owing
  <2>6. CASE ReadSegmentMeta
    BY <2>6 DEF ReadSegmentMeta, TakesMeta, Fails, Goto, Exit, Moves, Owing
  <2>7. CASE ReadBlock \/ Flush \/ Kill
    BY <2>7 DEF ReadBlock, Flush, Kill, Exit, fileVars, Owing
  <2> QED  BY <2>1, <2>2, <2>3, <2>4, <2>5, <2>6, <2>7
<1>2. SameCounters /\ SameFiles /\ mem'[INDEX_FILE_SIZE] = mem[INDEX_FILE_SIZE]
  BY <1>1, SameIndex
<1>3. CASE goes
  <2>1. NodeSizesInv' /\ IdsInv' /\ CountsKept /\ BytesInv' /\ NodesInv' /\ Stays
    BY <1>1, <1>2, <1>3, ToolGoesOn
  <2> QED  BY <2>1 DEF Books
<1>4. CASE ends
  <2>1. NodeSizesInv' /\ IdsInv' /\ CountsKept /\ BytesInv' /\ NodesInv' /\ Stays
    BY <1>1, <1>2, <1>4, CounterTypes, Ends
  <2> QED  BY <2>1 DEF Books
<1> QED  BY <1>1, <1>3, <1>4

(* hash_insert takes a node, a freed one or one more.                      *)
LEMMA NodeBooks ==
  ASSUME Booked, ReuseNode \/ AppendNode
  PROVE  BooksKept /\ Stays
<1> USE DEF Booked, BooksKept, CountsKept, Inductive, TypeInv
<1>1. pc = "alloc" /\ op = "write" /\ Writing
  BY DEF ReuseNode, AppendNode, StepOK, Writing
<1>2. CASE Fails(mem[FREE_HEAD], mem)
  <2>1. mem' = mem /\ block' = block /\ pc' = "idle" /\ kills' = kills /\ ~ Owing
    BY <1>1, <1>2 DEF Fails, Exit, Owing
  <2>2. SameCounters /\ SameFiles /\ mem'[INDEX_FILE_SIZE] = mem[INDEX_FILE_SIZE]
    BY <2>1, SameIndex
  <2>3. NodeSizesInv' /\ IdsInv' /\ CountsKept /\ BytesInv' /\ NodesInv' /\ Stays
    BY <1>1, <2>1, <2>2, Ends
  <2> QED  BY <2>3 DEF Books
<1>3. CASE ReuseNode /\ ~ Fails(mem[FREE_HEAD], mem)
  <2>1. /\ mem' = [mem EXCEPT ![FREE_HEAD] = NextOf(mem[FREE_HEAD])]
        /\ pc' = "store" /\ Moves /\ UNCHANGED <<block, op, key, step, kills, meta>>
    BY <1>3 DEF ReuseNode, Goto, Popped, NextOf, Moves
  <2>2. SameCounters /\ SameFiles /\ mem'[INDEX_FILE_SIZE] = mem[INDEX_FILE_SIZE]
    BY <2>1, LinkStore
  <2>3. NodeSizesInv' /\ IdsInv' /\ CountsKept /\ BytesInv' /\ NodesInv' /\ Stays
    BY <2>1, <2>2, ToolGoesOn
  <2> QED  BY <2>3 DEF Books
<1>4. CASE AppendNode
  <2>1. /\ mem' = [mem EXCEPT ![INDEX_FILE_SIZE] = mem[INDEX_FILE_SIZE] + META_SIZE]
        /\ pc' = "store" /\ Moves /\ UNCHANGED <<block, op, key, step, kills, meta>>
    BY <1>4 DEF AppendNode, Goto, Grown, Moves
  <2>2. /\ SameCounters /\ SameFiles
        /\ mem'[INDEX_FILE_SIZE] = mem[INDEX_FILE_SIZE] + META_SIZE
    BY <2>1, LinkStore
  <2>3. NodeSizesInv' /\ IdsInv' /\ CountsKept /\ BytesInv' /\ Stays
    BY <2>1, <2>2, ToolGoesOn
  <2>4. NodesInv'
    <3>1. Taken({"store", "link", "commit"}) = 0 /\ Taken({"store", "link", "commit"})' = 1
      BY <1>1, <2>1 DEF Taken, IdPending, Writing
    <3>2. PICK n \in 0 .. mem[SEQ_NO] - 1 + kills : mem[INDEX_FILE_SIZE] = NodeBase + META_SIZE * n
      BY <3>1, CounterTypes DEF Books, NodesInv
    <3>3. mem'[SEQ_NO] = mem[SEQ_NO] /\ kills' = kills
      BY <2>1, <2>2 DEF SameCounters, Counters
    <3>4. /\ n + 1 \in 0 .. mem'[SEQ_NO] - 1 + kills' + 1
          /\ mem'[INDEX_FILE_SIZE] = NodeBase + META_SIZE * (n + 1)
      BY <2>2, <3>2, <3>3, CounterTypes, Sizes
    <3> QED  BY <3>1, <3>4 DEF NodesInv
  <2> QED  BY <2>3, <2>4 DEF Books
<1> QED  BY <1>2, <1>3, <1>4

(* It stores the node, of the size of the file, or takes a new one back.   *)
LEMMA StoreBooks ==
  ASSUME Booked, StoreMeta
  PROVE  BooksKept /\ Stays
<1> USE DEF Booked, BooksKept, CountsKept, Inductive, TypeInv
<1> DEFINE fails == FailsStoring(cur, Inserted(meta), RolledBack(mem))
<1>1. /\ pc = "store" /\ op = "write" /\ Writing /\ cur \in Int /\ meta \in MetaInfo
      /\ meta.size = FileSize /\ ~ Owing
  BY DEF StoreMeta, StepOK, Writing, TypeOK, Books, NodeSizesInv, Owing
<1>2. CASE fails
  <2>1. /\ pc' = "idle" /\ block' = block /\ kills' = kills
        /\ IsNodeOffset(cur) /\ mem[INDEX_FILE_SIZE] = cur + META_SIZE
        /\ mem'[INDEX_FILE_SIZE] = cur /\ Reach < mem[INDEX_FILE_SIZE]
        /\ \A a \in Addr : a < HEADER_SIZE /\ a # INDEX_FILE_SIZE => mem'[a] = mem[a]
        /\ SameBuckets
        /\ \A o \in NodeOffsets : o < cur => ReadMeta(mem', o) = ReadMeta(mem, o)
    BY <1>1, <1>2, FailedStore DEF FailsStoring
  <2>2. SameCounters
    BY <2>1, HeaderAddresses DEF SameCounters, Counters
  <2>3. SameFiles
    <3>1. ASSUME NEW o \in LiveNodes PROVE o \in NodeOffsets /\ o < cur
      <4>1. /\ o \in NodeOffsets /\ o + META_SIZE <= Reach /\ IsNodeOffset(o) /\ o \in Int
        BY LiveView, NodeAddresses DEF IndexInv, Stored, AllocatedNodes
      <4> QED  BY <1>1, <2>1, <4>1, ReachType, Sizes
    <3> QED  BY <2>1, <3>1 DEF SameFiles
  <2>4. NodeSizesInv' /\ IdsInv' /\ CountsKept /\ BytesInv' /\ Stays
    BY <1>1, <2>1, <2>2, <2>3, Ends
  <2>5. NodesInv'
    <3>1. Taken({"store", "link", "commit"}) = 1 /\ Taken({"store", "link", "commit"})' = 0
      BY <1>1, <2>1 DEF Taken, IdPending, Writing
    <3>2. PICK n \in 0 .. mem[SEQ_NO] + kills : mem[INDEX_FILE_SIZE] = NodeBase + META_SIZE * n
      BY <3>1, CounterTypes DEF Books, NodesInv
    <3>3. mem'[SEQ_NO] = mem[SEQ_NO]
      BY <2>2 DEF SameCounters, Counters
    <3>4. /\ n - 1 \in 0 .. mem'[SEQ_NO] - 1 + kills' + 0
          /\ mem'[INDEX_FILE_SIZE] = NodeBase + META_SIZE * (n - 1)
      BY <1>1, <2>1, <3>2, <3>3, CounterTypes, Sizes DEF IsNodeOffset
    <3> QED  BY <3>1, <3>4 DEF NodesInv
  <2> QED  BY <2>4, <2>5 DEF Books
<1>3. CASE ~ fails
  <2>1. /\ Pwrites(cur) /\ meta' = Inserted(meta) /\ mem' = WriteMeta(mem, cur, meta')
        /\ pc' = "link" /\ Moves /\ UNCHANGED <<block, op, key, step, kills, cur>>
    BY <1>3 DEF StoreMeta, Goto, Moves
  <2>2. meta' \in MetaInfo /\ meta'.size = FileSize /\ meta'.inner_offset = 0
    BY <1>1, <2>1, MetaTypes DEF Inserted, MetaInfo
  <2>3. cur \in NodeOffsets /\ cur \notin LiveNodes
    BY <1>1, <2>1, PwritesType, IsNode DEF IndexInv, RegistersInv
  <2>4. /\ SameHeader /\ SameBuckets /\ ReadMeta(mem', cur) = meta'
        /\ \A p \in NodeOffsets : p # cur => ReadMeta(mem', p) = ReadMeta(mem, p)
    BY <2>1, <2>2, <2>3, NodeStore
  <2>5. SameCounters /\ mem'[INDEX_FILE_SIZE] = mem[INDEX_FILE_SIZE]
    BY <2>4, HeaderAddresses DEF SameHeader, SameCounters, Counters
  <2>6. SameFiles
    BY <2>3, <2>4, LiveView DEF SameFiles, IndexInv, Stored, AllocatedNodes
  <2>7. NodeSizesInv' /\ IdsInv' /\ CountsKept /\ BytesInv' /\ NodesInv' /\ Stays
    BY <1>1, <2>1, <2>2, <2>4, <2>5, <2>6, ToolGoesOn DEF Plain
  <2> QED  BY <2>7 DEF Books
<1> QED  BY <1>2, <1>3

(* A kill in the middle of a store leaves the counters and the files.      *)
LEMMA KillBooks ==
  ASSUME Booked, KillStoring
  PROVE  BooksKept /\ Stays
<1> USE DEF Booked, BooksKept, CountsKept, Inductive, TypeInv
<1>1. /\ pc' = "idle" /\ cur \notin LiveNodes /\ SameHeader /\ SameBuckets
      /\ \A p \in NodeOffsets : p # cur => ReadMeta(mem', p) = ReadMeta(mem, p)
  BY KilledStore
<1>2. block' = block /\ kills' = kills + 1
  BY DEF KillStoring
<1>3. SameCounters /\ mem'[INDEX_FILE_SIZE] = mem[INDEX_FILE_SIZE]
  BY <1>1, HeaderAddresses DEF SameHeader, SameCounters, Counters
<1>4. SameFiles
  BY <1>1, LiveView DEF SameFiles, IndexInv, Stored, AllocatedNodes
<1>5. NodeSizesInv' /\ IdsInv' /\ CountsKept /\ BytesInv' /\ NodesInv' /\ Stays
  BY <1>1, <1>2, <1>3, <1>4, CounterTypes, Ends
<1> QED  BY <1>5 DEF Books

(* Putting a deleted node on the free list owes the counters the same.     *)
LEMMA FreeBooks ==
  ASSUME Booked, FreeNode \/ PushNode
  PROVE  BooksKept /\ Stays
<1> USE DEF Booked, BooksKept, CountsKept, Inductive, TypeInv
<1>1. CASE FreeNode
  <2>1. /\ pc = "free" /\ Stored(cur) /\ cur \notin LiveNodes /\ cur \in NodeOffsets
        /\ cur \in Int /\ meta \in MetaInfo
    BY <1>1, NodeAddresses
       DEF FreeNode, TypeOK, IndexInv, RegistersInv, Stored, AllocatedNodes
  <2>2. ~ FailsStoring(cur, Freed(mem, meta), mem)
    BY <2>1, FailsStoringSizes, Sizes DEF Stored, Reach, Mapping, TypeOK
  <2>3. /\ mem' = WriteMeta(mem, cur, Freed(mem, meta)) /\ pc' = "push" /\ Moves
        /\ UNCHANGED <<block, op, key, step, kills, meta>>
    BY <1>1, <2>2 DEF FreeNode, Goto, regVars, Moves
  <2>4. Freed(mem, meta) \in MetaInfo
    BY <2>1, StoreTypes DEF TypeOK
  <2>5. /\ SameHeader /\ SameBuckets
        /\ \A p \in NodeOffsets : p # cur => ReadMeta(mem', p) = ReadMeta(mem, p)
    BY <2>1, <2>3, <2>4, NodeStore
  <2>6. SameCounters /\ mem'[INDEX_FILE_SIZE] = mem[INDEX_FILE_SIZE]
    BY <2>5, HeaderAddresses DEF SameHeader, SameCounters, Counters
  <2>7. SameFiles
    BY <2>1, <2>5, LiveView DEF SameFiles, IndexInv, Stored, AllocatedNodes
  <2>8. NodeSizesInv' /\ IdsInv' /\ CountsKept /\ BytesInv' /\ NodesInv' /\ Stays
    BY <2>3, <2>6, <2>7, ToolGoesOn
  <2> QED  BY <2>8 DEF Books
<1>2. CASE PushNode
  <2>1. /\ mem' = [mem EXCEPT ![FREE_HEAD] = cur] /\ pc' = "update" /\ Moves
        /\ UNCHANGED <<block, op, key, step, kills, meta>>
    BY <1>2 DEF PushNode, Pushed, Goto, regVars, Moves
  <2>2. SameCounters /\ SameFiles /\ mem'[INDEX_FILE_SIZE] = mem[INDEX_FILE_SIZE]
    BY <2>1, LinkStore
  <2>3. NodeSizesInv' /\ IdsInv' /\ CountsKept /\ BytesInv' /\ NodesInv' /\ Stays
    BY <2>1, <2>2, ToolGoesOn
  <2> QED  BY <2>3 DEF Books
<1> QED  BY <1>1, <1>2
-----------------------------------------------------------------------------
(* The steps that change which files there are, and those that count them. *)

(* What a file costs is linear in the number of files.                     *)
LEMMA FileBytes ==
  ASSUME NEW n \in Int
  PROVE  /\ FileSize * n \in Int
         /\ FileSize * (n + 1) = FileSize * n + FileSize
         /\ FileSize * (n - 1) = FileSize * n - FileSize
OBVIOUS

(* A write links its node: the id is in use, and counting it is owed.      *)
LEMMA LinkBooks ==
  ASSUME Booked, LinkNode
  PROVE  /\ BooksKept /\ mem'[SEQ_NO] = mem[SEQ_NO]
         /\ Indexed' = Indexed \cup {key} /\ key \notin Indexed /\ key = mem[SEQ_NO]
         /\ pc' = "commit" /\ \A j \in FileIds : j # key => BucketHead(j)' = BucketHead(j)
<1> USE DEF Booked, BooksKept, CountsKept, Inductive, TypeInv
<1>1. /\ pc = "link" /\ op = "write" /\ Writing /\ prev = 0 /\ step = 1 /\ key \in FileIds
      /\ BucketHead(key) = 0 /\ Stored(cur) /\ cur \in NodeOffsets /\ cur # 0
      /\ Plain(ReadMeta(mem, cur))
  BY NodeAddresses, Sizes
     DEF LinkNode, StepOK, Writing, IndexInv, RegistersInv, Stored, AllocatedNodes,
         IsNodeOffset, Books, NodeSizesInv
<1>2. /\ mem' = LinkedAtHead(mem, key, cur) /\ pc' = "commit"
      /\ UNCHANGED <<block, op, key, cur, step, kills, meta>>
  BY <1>1 DEF LinkNode, Goto, regVars
<1>3. /\ SameHeader /\ SameNodes /\ BucketHead(key)' = cur
      /\ \A j \in FileIds : j # key => BucketHead(j)' = BucketHead(j)
  BY <1>1, <1>2, SlotStore DEF IndexInv, HeaderInv
<1>4. SameCounters /\ mem'[INDEX_FILE_SIZE] = mem[INDEX_FILE_SIZE]
  BY <1>3, HeaderAddresses DEF SameHeader, SameCounters, Counters
<1>5. Indexed' = Indexed \cup {key} /\ key \notin Indexed
  <2>1. \A k \in FileIds : k \in Indexed' <=> k \in Indexed \/ k = key
    BY <1>1, <1>2, <1>3, LiveView, LiveViewNext DEF IndexInv
  <2>2. Indexed \subseteq FileIds /\ Indexed' \subseteq FileIds
    BY DEF Indexed
  <2> QED  BY <1>1, <2>1, <2>2, LiveView DEF IndexInv
<1>6. NodeSizesInv'
  <2>1. ASSUME NEW k \in FileIds, BucketHead(k)' # 0
        PROVE  Plain(ReadMeta(mem', BucketHead(k)'))
    <3>1. CASE k = key
      BY <1>1, <1>2, <1>3, <3>1 DEF SameNodes
    <3>2. CASE k # key
      <4>1. BucketHead(k)' = BucketHead(k) /\ BucketHead(k) \in NodeOffsets
        BY <1>3, <2>1, <3>2 DEF IndexInv, BucketsInv, Stored, AllocatedNodes
      <4> QED  BY <1>3, <2>1, <4>1 DEF SameNodes, Books, NodeSizesInv
    <3> QED  BY <3>1, <3>2
  <2> QED  BY <1>1, <1>2, <2>1 DEF NodeSizesInv, Books, Writing
<1>7. /\ Cardinality(Indexed') = Cardinality(Indexed) + 1 /\ Cardinality(Indexed) \in Nat
  BY <1>5, FewFiles, FS_AddElement
<1>8. /\ mem'[VERSION] = mem[VERSION] /\ mem'[FILE_COUNT] = mem[FILE_COUNT]
      /\ mem'[SIZE] = mem[SIZE] /\ mem'[DEL_FILE_COUNT] = mem[DEL_FILE_COUNT]
      /\ mem'[DEL_SIZE] = mem[DEL_SIZE] /\ mem'[SEQ_NO] = mem[SEQ_NO]
      /\ mem'[DATA_FILE_OFFSET] = mem[DATA_FILE_OFFSET]
  BY <1>4 DEF SameCounters, Counters
<1>9. /\ FinalVersion' = FinalVersion + 1 /\ FinalFiles' = FinalFiles + 1
      /\ FinalSeqNo' = FinalSeqNo + 1 /\ FinalSize' = FinalSize + FileSize
      /\ FinalDeleted' = FinalDeleted /\ FinalDelSize' = FinalDelSize
      /\ FinalOffset' = FinalOffset + FileSize
      /\ FinalVersion \in Int /\ FinalFiles \in Int /\ FinalSeqNo = mem[SEQ_NO]
      /\ FinalSize \in Int /\ FinalDeleted \in Int /\ FinalDelSize \in Int
      /\ FinalOffset \in Int
  BY <1>1, <1>2, <1>8, CounterTypes
     DEF Owing, Due, Writing, FinalVersion, FinalFiles, FinalSeqNo, FinalSize,
         FinalDeleted, FinalDelSize, FinalOffset
<1>10. CountsKept
  BY <1>2, <1>7, <1>9, FileBytes, CounterTypes DEF CountInv, OffsetInv, BalanceInv, Books
<1>11. IdsInv'
  <2>1. IdPending /\ key = mem[SEQ_NO]
    BY <1>1 DEF IdPending, Books, IdsInv
  <2>2. kills = 0 => \A k \in Indexed' : k < FinalSeqNo'
    BY <1>5, <1>9, <2>1, CounterTypes DEF Books, IdsInv, Indexed, FileIds
  <2> QED  BY <1>2, <1>8, <2>1, <2>2 DEF IdsInv
<1>12. Taken({})' = Taken({}) /\ Taken({"store", "link", "commit"})' = Taken({"store", "link", "commit"})
  BY <1>1, <1>2 DEF Taken, IdPending, Writing
<1>13. BytesInv'
  <2>1. /\ \E c \in 0 .. mem'[SEQ_NO] - 1 + kills' + Taken({})' :
             mem'[DATA_FILE_OFFSET] = FileSize * c
        /\ \A k \in Indexed : \E o \in DataOffsets :
             /\ block'[o] = k
             /\ \/ o < mem'[DATA_FILE_OFFSET]
                \/ /\ o = mem'[DATA_FILE_OFFSET] /\ k = mem'[SEQ_NO]
                   /\ ~ (Writing /\ pc = "update")'
    BY <1>2, <1>4, <1>12, SlotsKept, CounterTypes DEF Taken
  <2>2. /\ mem[DATA_FILE_OFFSET] \in DataOffsets /\ block[mem[DATA_FILE_OFFSET]] = key
        /\ key = mem[SEQ_NO]
    BY <1>1, NextSlot DEF Books, BytesInv
  <2>3. \E o \in DataOffsets :
           /\ block'[o] = key
           /\ \/ o < mem'[DATA_FILE_OFFSET]
              \/ /\ o = mem'[DATA_FILE_OFFSET] /\ key = mem'[SEQ_NO]
                 /\ ~ (Writing /\ pc = "update")'
    BY <1>2, <1>8, <2>2
  <2> QED  BY <1>2, <1>5, <2>1, <2>3 DEF BytesInv
<1>14. NodesInv'
  BY <1>2, <1>4, <1>12, NodesKept, CounterTypes DEF Taken
<1> QED  BY <1>1, <1>2, <1>3, <1>5, <1>6, <1>8, <1>10, <1>11, <1>13, <1>14, NextSlot DEF Books

(* A delete unlinks its node: the file is gone, and discounting it is owed.*)
LEMMA UnlinkBooks ==
  ASSUME Booked, UnlinkNode
  PROVE  /\ BooksKept /\ mem'[SEQ_NO] = mem[SEQ_NO]
         /\ IF pc' = "free" THEN Indexed' = Indexed \ {key} /\ key \in Indexed ELSE Stays
         /\ \A j \in FileIds : j # key => BucketHead(j)' = BucketHead(j)
         /\ op = "delete"
<1> USE DEF Booked, BooksKept, CountsKept, Inductive, TypeInv
<1>1. /\ pc = "unlink" /\ op = "delete" /\ ~ Writing /\ ~ Owing /\ prev = 0 /\ step = 1
      /\ key \in FileIds /\ cur = BucketHead(key) /\ cur # 0
      /\ HasKey(ReadMeta(mem, cur), key) /\ NextOf(cur) = 0
      /\ Plain(ReadMeta(mem, cur))
  BY DEF UnlinkNode, StepOK, Writing, Owing, IndexInv, RegistersInv, BucketsInv,
         Books, NodeSizesInv
<1>2. CASE Fails(cur, mem)
  <2>1. mem' = mem /\ block' = block /\ pc' = "idle" /\ kills' = kills
    BY <1>2 DEF Fails, Exit
  <2>2. SameCounters /\ SameFiles /\ mem'[INDEX_FILE_SIZE] = mem[INDEX_FILE_SIZE]
    BY <2>1, SameIndex
  <2>3. NodeSizesInv' /\ IdsInv' /\ CountsKept /\ BytesInv' /\ NodesInv' /\ Stays
    BY <1>1, <2>1, <2>2, Ends
  <2> QED  BY <1>1, <2>1, <2>3 DEF Books, Stays, SameBuckets
<1>3. CASE ~ Fails(cur, mem)
  <2>1. /\ mem' = LinkedAtHead(mem, key, 0) /\ pc' = "free" /\ Plain(meta')
        /\ UNCHANGED <<block, op, key, cur, step, kills>>
    BY <1>1, <1>3 DEF UnlinkNode, Goto, NextOf
  <2>2. /\ SameHeader /\ SameNodes /\ BucketHead(key)' = 0
        /\ \A j \in FileIds : j # key => BucketHead(j)' = BucketHead(j)
    BY <1>1, <2>1, SlotStore DEF IndexInv, HeaderInv
  <2>3. SameCounters /\ mem'[INDEX_FILE_SIZE] = mem[INDEX_FILE_SIZE]
    BY <2>2, HeaderAddresses DEF SameHeader, SameCounters, Counters
  <2>4. Indexed' = Indexed \ {key} /\ key \in Indexed
    <3>1. \A k \in FileIds : k \in Indexed' <=> k \in Indexed /\ k # key
      BY <1>1, <2>1, <2>2, LiveView, LiveViewNext DEF IndexInv
    <3>2. Indexed \subseteq FileIds /\ Indexed' \subseteq FileIds
      BY DEF Indexed
    <3> QED  BY <1>1, <3>1, <3>2, LiveView DEF IndexInv
  <2>5. NodeSizesInv'
    <3>1. ASSUME NEW k \in FileIds, BucketHead(k)' # 0
          PROVE  Plain(ReadMeta(mem', BucketHead(k)'))
      <4>1. /\ BucketHead(k)' = BucketHead(k) /\ BucketHead(k) # 0
            /\ BucketHead(k) \in NodeOffsets
        BY <2>1, <2>2, <3>1 DEF IndexInv, BucketsInv, Stored, AllocatedNodes
      <4> QED  BY <2>2, <4>1 DEF SameNodes, Books, NodeSizesInv
    <3> QED  BY <1>1, <2>1, <3>1 DEF NodeSizesInv, Writing, Plain
  <2>6. Cardinality(Indexed') = Cardinality(Indexed) - 1 /\ Cardinality(Indexed) \in Nat
    BY <2>4, FewFiles, FS_RemoveElement
  <2>7. /\ mem'[VERSION] = mem[VERSION] /\ mem'[FILE_COUNT] = mem[FILE_COUNT]
        /\ mem'[SIZE] = mem[SIZE] /\ mem'[DEL_FILE_COUNT] = mem[DEL_FILE_COUNT]
        /\ mem'[DEL_SIZE] = mem[DEL_SIZE] /\ mem'[SEQ_NO] = mem[SEQ_NO]
        /\ mem'[DATA_FILE_OFFSET] = mem[DATA_FILE_OFFSET]
    BY <2>3 DEF SameCounters, Counters
  <2>8. /\ FinalVersion' = FinalVersion + 1 /\ FinalFiles' = FinalFiles - 1
        /\ FinalSeqNo' = FinalSeqNo /\ FinalSize' = FinalSize - FileSize
        /\ FinalDeleted' = FinalDeleted + 1 /\ FinalDelSize' = FinalDelSize + FileSize
        /\ FinalOffset' = FinalOffset
        /\ FinalVersion \in Int /\ FinalFiles \in Int /\ FinalSeqNo \in Int
        /\ FinalSize \in Int /\ FinalDeleted \in Int /\ FinalDelSize \in Int
        /\ FinalOffset \in Int
    BY <1>1, <2>1, <2>7, CounterTypes
       DEF Owing, Due, Writing, FinalVersion, FinalFiles, FinalSeqNo, FinalSize,
           FinalDeleted, FinalDelSize, FinalOffset
  <2>9. CountsKept
    BY <2>1, <2>6, <2>8, FileBytes, CounterTypes DEF CountInv, OffsetInv, BalanceInv, Books
  <2>10. ~ IdPending' /\ ~ IdPending
    BY <1>1, <2>1 DEF IdPending, Writing
  <2>11. IdsInv'
    BY <2>1, <2>4, <2>8, <2>10 DEF Books, IdsInv
  <2>12. BytesInv'
    <3>1. /\ \E c \in 0 .. mem'[SEQ_NO] - 1 + kills' + Taken({})' :
               mem'[DATA_FILE_OFFSET] = FileSize * c
          /\ \A k \in Indexed : \E o \in DataOffsets :
               /\ block'[o] = k
               /\ \/ o < mem'[DATA_FILE_OFFSET]
                  \/ /\ o = mem'[DATA_FILE_OFFSET] /\ k = mem'[SEQ_NO]
                     /\ ~ (Writing /\ pc = "update")'
      BY <2>1, <2>3, <2>10, SlotsKept, CounterTypes DEF Taken
    <3> QED  BY <1>1, <2>1, <2>4, <3>1 DEF BytesInv, Writing
  <2>13. NodesInv'
    BY <2>1, <2>3, <2>10, NodesKept, CounterTypes DEF Taken
  <2> QED  BY <1>1, <2>1, <2>2, <2>4, <2>5, <2>7, <2>9, <2>11, <2>12, <2>13 DEF Books
<1> QED  BY <1>2, <1>3

(* A step that adds n to one counter and changes nothing else that is kept.*)
Adds(a, n) == mem' = [mem EXCEPT ![a] = @ + n]

LEMMA AddsTo ==
  ASSUME Booked, NEW a \in Counters, NEW n \in Int, Adds(a, n)
  PROVE  /\ Indexed' = Indexed /\ SameBuckets
         /\ \A k \in FileIds : BucketHead(k)' # 0
              => Plain(ReadMeta(mem', BucketHead(k)'))
         /\ mem'[INDEX_FILE_SIZE] = mem[INDEX_FILE_SIZE]
         /\ mem'[a] = mem[a] + n
         /\ \A b \in Counters : b # a => mem'[b] = mem[b]
<1> USE DEF Booked, BooksKept, CountsKept, Inductive, TypeInv
<1>1. mem' = [mem EXCEPT ![a] = mem[a] + n]
  BY DEF Adds
<1>2. /\ SameBuckets /\ SameNodes
      /\ mem'[a] = mem[a] + n /\ \A b \in Addr : b # a => mem'[b] = mem[b]
  BY <1>1, HeaderStore, HeaderAddresses DEF Counters
<1>3. SameFiles
  BY <1>2, LiveView DEF SameFiles, SameNodes, IndexInv, Stored, AllocatedNodes
<1> QED  BY <1>2, <1>3, FilesKept, HeaderAddresses DEF Counters

(* A write commits its bytes: from now on its slot is behind the next one. *)
LEMMA CommitBooks ==
  ASSUME Booked, CommitOffset
  PROVE  BooksKept /\ Stays
<1> USE DEF Booked, BooksKept, CountsKept, Inductive, TypeInv
<1>1. /\ pc = "commit" /\ op = "write" /\ Writing /\ step = 1
      /\ Adds(DATA_FILE_OFFSET, FileSize) /\ pc' = "update"
      /\ UNCHANGED <<block, op, key, step, kills, meta>>
  BY DEF CommitOffset, Committed, Adds, Goto, regVars, StepOK, Writing
<1>2. /\ Indexed' = Indexed /\ SameBuckets
      /\ \A k \in FileIds : BucketHead(k)' # 0
           => Plain(ReadMeta(mem', BucketHead(k)'))
      /\ mem'[INDEX_FILE_SIZE] = mem[INDEX_FILE_SIZE]
      /\ mem'[DATA_FILE_OFFSET] = mem[DATA_FILE_OFFSET] + FileSize
      /\ \A b \in Counters : b # DATA_FILE_OFFSET => mem'[b] = mem[b]
  BY <1>1, AddsTo DEF Counters
<1>3. /\ mem'[VERSION] = mem[VERSION] /\ mem'[FILE_COUNT] = mem[FILE_COUNT]
      /\ mem'[SIZE] = mem[SIZE] /\ mem'[DEL_FILE_COUNT] = mem[DEL_FILE_COUNT]
      /\ mem'[DEL_SIZE] = mem[DEL_SIZE] /\ mem'[SEQ_NO] = mem[SEQ_NO]
  BY <1>2 DEF Counters, VERSION, FILE_COUNT, SIZE, DEL_FILE_COUNT, DEL_SIZE, SEQ_NO,
              DATA_FILE_OFFSET
<1>4. NodeSizesInv'
  BY <1>1, <1>2 DEF NodeSizesInv, Books, Writing
<1>5. /\ FinalVersion' = FinalVersion /\ FinalFiles' = FinalFiles
      /\ FinalSeqNo' = FinalSeqNo /\ FinalSize' = FinalSize
      /\ FinalDeleted' = FinalDeleted /\ FinalDelSize' = FinalDelSize
      /\ FinalOffset' = FinalOffset
  BY <1>1, <1>2, <1>3, CounterTypes
     DEF Owing, Due, Writing, FinalVersion, FinalFiles, FinalSeqNo, FinalSize,
         FinalDeleted, FinalDelSize, FinalOffset
<1>6. CountsKept
  BY <1>1, <1>2, <1>5 DEF CountInv, OffsetInv, BalanceInv, Books
<1>7. IdPending /\ IdPending'
  BY <1>1 DEF IdPending, Writing
<1>8. IdsInv'
  BY <1>1, <1>2, <1>3, <1>5, <1>7 DEF IdsInv, Books
<1>9. /\ Taken({}) = 0 /\ Taken({})' = 1
      /\ Taken({"store", "link", "commit"}) = 1 /\ Taken({"store", "link", "commit"})' = 1
  BY <1>1, <1>7 DEF Taken
<1>10. BytesInv'
  <2>1. PICK c \in 0 .. mem[SEQ_NO] - 1 + kills : mem[DATA_FILE_OFFSET] = FileSize * c
    BY <1>9, CounterTypes DEF Books, BytesInv
  <2>2. /\ c + 1 \in 0 .. mem'[SEQ_NO] - 1 + kills' + 1
        /\ mem'[DATA_FILE_OFFSET] = FileSize * (c + 1)
    BY <1>1, <1>2, <1>3, <2>1, CounterTypes, FileBytes
  <2>3. ASSUME NEW k \in Indexed'
        PROVE  \E o \in DataOffsets : block'[o] = k /\ o < mem'[DATA_FILE_OFFSET]
    <3>1. PICK o \in DataOffsets : block[o] = k /\ o <= mem[DATA_FILE_OFFSET]
      BY <1>2, CounterTypes DEF Books, BytesInv, DataOffsets
    <3>2. o \in Int
      BY DEF DataOffsets
    <3> QED  BY <1>1, <1>2, <3>1, <3>2, CounterTypes
  <2> QED  BY <1>1, <1>9, <2>2, <2>3 DEF BytesInv
<1>11. NodesInv'
  BY <1>1, <1>2, <1>3, <1>9 DEF NodesInv, Books
<1> QED  BY <1>2, <1>3, <1>4, <1>6, <1>8, <1>10, <1>11 DEF Books, Stays

(* What update_block_info pays, one counter per step.                      *)
Pays ==
  IF op = "write"
  THEN \/ step = 1 /\ Adds(VERSION, 1)
       \/ step = 2 /\ Adds(FILE_COUNT, 1)
       \/ step = 3 /\ Adds(SEQ_NO, 1)
       \/ step = 4 /\ Adds(SIZE, FileSize)
  ELSE \/ step = 1 /\ Adds(VERSION, 1)
       \/ step = 2 /\ Adds(FILE_COUNT, -1)
       \/ step = 3 /\ Adds(SIZE, -FileSize)
       \/ step = 4 /\ Adds(DEL_FILE_COUNT, 1)
       \/ step = 5 /\ Adds(DEL_SIZE, FileSize)

LEMMA UpdatePays ==
  ASSUME Booked, UpdateBlockInfo
  PROVE  /\ pc = "update" /\ op \in {"write", "delete"} /\ Pays /\ step' = step + 1
         /\ pc' = IF step = (IF op = "write" THEN 4 ELSE 5) THEN "flush" ELSE "update"
         /\ UNCHANGED <<block, op, key, kills, meta>> /\ meta.size = FileSize
<1> USE DEF Booked, BooksKept, CountsKept, Inductive, TypeInv
<1>1. /\ pc = "update" /\ op \in {"write", "delete"} /\ step' = step + 1
      /\ step \in 1 .. 6 /\ (op = "write" => step <= 4) /\ (op = "delete" => step <= 5)
      /\ UNCHANGED <<block, op, key, kills, meta>> /\ meta.size = FileSize
      /\ mem' = Updated(mem, BlockInfoUpdates(op, FileSize)[step])
      /\ pc' = IF step = Len(BlockInfoUpdates(op, FileSize)) THEN "flush" ELSE "update"
  BY DEF UpdateBlockInfo, Goto, StepOK, TypeOK, Books, NodeSizesInv
<1>a. \A b, i : BlockInfoUpdates(op, FileSize)[step] = <<b, i>> => Adds(b, i)
  BY <1>1 DEF Updated, Adds
<1>2. CASE op = "write"
  <2> DEFINE u == << <<VERSION, 1>>, <<FILE_COUNT, 1>>, <<SEQ_NO, 1>>, <<SIZE, FileSize>> >>
  <2>1. step \in {1, 2, 3, 4}
    BY <1>1, <1>2
  <2>2. BlockInfoUpdates(op, FileSize) = u
    BY <1>2 DEF BlockInfoUpdates
  <2>3. /\ Len(u) = 4 /\ u[1] = <<VERSION, 1>> /\ u[2] = <<FILE_COUNT, 1>>
        /\ u[3] = <<SEQ_NO, 1>> /\ u[4] = <<SIZE, FileSize>>
    OBVIOUS
  <2>4. Pays
    <3> HIDE DEF u
    <3> QED  BY <1>a, <1>2, <2>1, <2>2, <2>3 DEF Pays
  <2> QED  BY <1>1, <1>2, <2>2, <2>3, <2>4
<1>3. CASE op = "delete"
  <2> DEFINE u == << <<VERSION, 1>>, <<FILE_COUNT, -1>>, <<SIZE, -FileSize>>,
                     <<DEL_FILE_COUNT, 1>>, <<DEL_SIZE, FileSize>> >>
  <2>1. step \in {1, 2, 3, 4, 5}
    BY <1>1, <1>3
  <2>2. BlockInfoUpdates(op, FileSize) = u
    BY <1>3 DEF BlockInfoUpdates
  <2>3. /\ Len(u) = 5 /\ u[1] = <<VERSION, 1>> /\ u[2] = <<FILE_COUNT, -1>>
        /\ u[3] = <<SIZE, -FileSize>> /\ u[4] = <<DEL_FILE_COUNT, 1>>
        /\ u[5] = <<DEL_SIZE, FileSize>>
    OBVIOUS
  <2>4. Pays
    <3> HIDE DEF u
    <3> QED  BY <1>a, <1>3, <2>1, <2>2, <2>3 DEF Pays
  <2> QED  BY <1>1, <1>3, <2>2, <2>3, <2>4
<1> QED  BY <1>1, <1>2, <1>3

(* What a step pays is no longer owed.                                     *)
LEMMA UpdateBooks ==
  ASSUME Booked, UpdateBlockInfo
  PROVE  /\ BooksKept /\ Indexed' = Indexed /\ SameBuckets
         /\ \/ mem'[SEQ_NO] = mem[SEQ_NO]
            \/ /\ op = "write" /\ pc = "update" /\ key = mem[SEQ_NO]
               /\ mem'[SEQ_NO] = mem[SEQ_NO] + 1
<1> USE DEF Booked, BooksKept, CountsKept, Inductive, TypeInv
<1>1. /\ pc = "update" /\ op \in {"write", "delete"} /\ Pays /\ step' = step + 1
      /\ pc' = IF step = (IF op = "write" THEN 4 ELSE 5) THEN "flush" ELSE "update"
      /\ UNCHANGED <<block, op, key, kills, meta>> /\ meta.size = FileSize
  BY UpdatePays
<1>2. PICK a \in Counters, n \in Int : Adds(a, n)
  BY <1>1 DEF Pays, Counters
<1>3. /\ Indexed' = Indexed /\ SameBuckets
      /\ \A k \in FileIds : BucketHead(k)' # 0
           => Plain(ReadMeta(mem', BucketHead(k)'))
      /\ mem'[INDEX_FILE_SIZE] = mem[INDEX_FILE_SIZE]
  BY <1>2, AddsTo
<1>4. ASSUME NEW b \in Counters, NEW i \in Int, Adds(b, i)
      PROVE  /\ mem'[VERSION] = mem[VERSION] + (IF b = VERSION THEN i ELSE 0)
             /\ mem'[FILE_COUNT] = mem[FILE_COUNT] + (IF b = FILE_COUNT THEN i ELSE 0)
             /\ mem'[SIZE] = mem[SIZE] + (IF b = SIZE THEN i ELSE 0)
             /\ mem'[DEL_FILE_COUNT]
                  = mem[DEL_FILE_COUNT] + (IF b = DEL_FILE_COUNT THEN i ELSE 0)
             /\ mem'[DEL_SIZE] = mem[DEL_SIZE] + (IF b = DEL_SIZE THEN i ELSE 0)
             /\ mem'[SEQ_NO] = mem[SEQ_NO] + (IF b = SEQ_NO THEN i ELSE 0)
             /\ mem'[DATA_FILE_OFFSET]
                  = mem[DATA_FILE_OFFSET] + (IF b = DATA_FILE_OFFSET THEN i ELSE 0)
  BY <1>4, AddsTo, CounterTypes DEF Counters
<1>5. /\ FinalVersion' = FinalVersion /\ FinalFiles' = FinalFiles
      /\ FinalSeqNo' = FinalSeqNo /\ FinalSize' = FinalSize
      /\ FinalDeleted' = FinalDeleted /\ FinalDelSize' = FinalDelSize
      /\ FinalOffset' = FinalOffset
      /\ mem'[DATA_FILE_OFFSET] = mem[DATA_FILE_OFFSET]
      /\ mem'[SEQ_NO] = IF op = "write" /\ step = 3 THEN mem[SEQ_NO] + 1 ELSE mem[SEQ_NO]
  <2> USE <1>1, CounterTypes
      DEF Counters, VERSION, FILE_COUNT, SIZE, DEL_FILE_COUNT, DEL_SIZE, SEQ_NO,
          DATA_FILE_OFFSET, Owing, Due, Writing, FinalVersion, FinalFiles, FinalSeqNo,
          FinalSize, FinalDeleted, FinalDelSize, FinalOffset
  <2>1. CASE op = "write" /\ step = 1 /\ Adds(VERSION, 1)
    BY <2>1, <1>4
  <2>2. CASE op = "write" /\ step = 2 /\ Adds(FILE_COUNT, 1)
    BY <2>2, <1>4
  <2>3. CASE op = "write" /\ step = 3 /\ Adds(SEQ_NO, 1)
    BY <2>3, <1>4
  <2>4. CASE op = "write" /\ step = 4 /\ Adds(SIZE, FileSize)
    BY <2>4, <1>4
  <2>5. CASE op # "write" /\ step = 1 /\ Adds(VERSION, 1)
    BY <2>5, <1>4
  <2>6. CASE op # "write" /\ step = 2 /\ Adds(FILE_COUNT, -1)
    BY <2>6, <1>4
  <2>7. CASE op # "write" /\ step = 3 /\ Adds(SIZE, -FileSize)
    BY <2>7, <1>4
  <2>8. CASE op # "write" /\ step = 4 /\ Adds(DEL_FILE_COUNT, 1)
    BY <2>8, <1>4
  <2>9. CASE op # "write" /\ step = 5 /\ Adds(DEL_SIZE, FileSize)
    BY <2>9, <1>4
  <2> QED  BY <2>1, <2>2, <2>3, <2>4, <2>5, <2>6, <2>7, <2>8, <2>9 DEF Pays
<1>6. NodeSizesInv'
  BY <1>1, <1>3 DEF NodeSizesInv, Books
<1>7. CountsKept
  BY <1>1, <1>3, <1>5 DEF CountInv, OffsetInv, BalanceInv, Books
<1>8. /\ IdPending <=> op = "write" /\ step <= 3
      /\ IdPending' <=> op = "write" /\ step < 3
  BY <1>1, CounterTypes DEF IdPending, Writing
<1>9. IdsInv'
  BY <1>1, <1>3, <1>5, <1>8, CounterTypes DEF IdsInv, Books
<1>10. /\ mem'[SEQ_NO] - 1 + kills' + Taken({})' = mem[SEQ_NO] - 1 + kills + Taken({})
       /\ mem'[SEQ_NO] - 1 + kills' + Taken({"store", "link", "commit"})'
            = mem[SEQ_NO] - 1 + kills + Taken({"store", "link", "commit"})
  BY <1>1, <1>5, <1>8, CounterTypes DEF Taken
<1>11. BytesInv'
  <2>1. ASSUME NEW k \in Indexed'
        PROVE  \E o \in DataOffsets :
                 /\ block'[o] = k
                 /\ \/ o < mem'[DATA_FILE_OFFSET]
                    \/ /\ o = mem'[DATA_FILE_OFFSET] /\ k = mem'[SEQ_NO]
                       /\ ~ (Writing /\ pc = "update")'
    BY <1>1, <1>3, <1>5 DEF Books, BytesInv, Writing
  <2> QED  BY <1>1, <1>5, <1>10, <2>1 DEF Books, BytesInv
<1>12. NodesInv'
  BY <1>3, <1>10 DEF Books, NodesInv
<1>13. step = 3 /\ op = "write" => key = mem[SEQ_NO]
  BY <1>8 DEF Books, IdsInv
<1> QED  BY <1>1, <1>3, <1>5, <1>6, <1>7, <1>9, <1>11, <1>12, <1>13 DEF Books
-----------------------------------------------------------------------------
(* Only linking and unlinking a node, and counting one, is seen outside.   *)
LEMMA StaysStep ==
  ASSUME EarlyBlock, FullyMapped, TypeInv, IndexInv, Books,
         \/ Start \/ Kill \/ KillStoring
         \/ ToolStep /\ ~ (LinkNode \/ UnlinkNode \/ UpdateBlockInfo)
  PROVE  Stays
<1>1. Booked
  BY IndexInvStep DEF Booked, Inductive, Next
<1>2. CASE Start
  BY <1>1, <1>2, StartBooks
<1>3. CASE WriteBlock
  BY <1>1, <1>3, WriteBlockBooks
<1>4. CASE \/ HashFindSlot \/ HashFindEnd \/ HashFindHit \/ HashFindNext \/ HashFindFails
           \/ ReadSegmentMeta \/ ReadBlock \/ Flush \/ Kill
  BY <1>1, <1>4, ReadBooks
<1>5. CASE ReuseNode \/ AppendNode
  BY <1>1, <1>5, NodeBooks
<1>6. CASE StoreMeta
  BY <1>1, <1>6, StoreBooks
<1>7. CASE CommitOffset
  BY <1>1, <1>7, CommitBooks
<1>8. CASE FreeNode \/ PushNode
  BY <1>1, <1>8, FreeBooks
<1>9. CASE KillStoring
  BY <1>1, <1>9, KillBooks
<1>10. CASE RelinkNode \/ UnlinkBehind \/ BypassNode
  BY <1>10 DEF RelinkNode, UnlinkBehind, BypassNode, IndexInv, RegistersInv
<1> QED
  BY <1>2, <1>3, <1>4, <1>5, <1>6, <1>7, <1>8, <1>9, <1>10 DEF ToolStep

(* Every step of every tool keeps the books.                               *)
LEMMA BooksStep ==
  ASSUME EarlyBlock, FullyMapped, TypeInv, IndexInv, Books, [Next]_vars
  PROVE  BooksKept
<1>1. TypeInv' /\ IndexInv'
  BY IndexInvStep
<1>2. Booked
  BY <1>1 DEF Booked, Inductive
<1>3. CASE Start
  BY <1>2, <1>3, StartBooks
<1>4. CASE WriteBlock
  BY <1>2, <1>4, WriteBlockBooks
<1>5. CASE \/ HashFindSlot \/ HashFindEnd \/ HashFindHit \/ HashFindNext \/ HashFindFails
           \/ ReadSegmentMeta \/ ReadBlock \/ Flush \/ Kill
  BY <1>2, <1>5, ReadBooks
<1>6. CASE ReuseNode \/ AppendNode
  BY <1>2, <1>6, NodeBooks
<1>7. CASE StoreMeta
  BY <1>2, <1>7, StoreBooks
<1>8. CASE LinkNode
  BY <1>2, <1>8, LinkBooks
<1>9. CASE CommitOffset
  BY <1>2, <1>9, CommitBooks
<1>10. CASE UpdateBlockInfo
  BY <1>2, <1>10, UpdateBooks
<1>11. CASE UnlinkNode
  BY <1>2, <1>11, UnlinkBooks
<1>12. CASE FreeNode \/ PushNode
  BY <1>2, <1>12, FreeBooks
<1>13. CASE KillStoring
  BY <1>2, <1>13, KillBooks
<1>14. CASE RelinkNode \/ UnlinkBehind \/ BypassNode
  BY <1>14 DEF RelinkNode, UnlinkBehind, BypassNode, IndexInv, RegistersInv
<1>15. CASE UNCHANGED vars
  <2>1. /\ Indexed' = Indexed /\ (IdPending' <=> IdPending)
        /\ \A k : BucketHead(k)' = BucketHead(k)
    BY <1>15 DEF vars, Indexed, BucketHead, IdPending, Writing
  <2>2. \A pcs : Taken(pcs)' = Taken(pcs)
    BY <1>15, <2>1 DEF vars, Taken
  <2>3. NodeSizesInv' /\ IdsInv' /\ CountInv' /\ OffsetInv' /\ (BalanceInv => BalanceInv')
    BY <1>15, <2>1
       DEF vars, Books, NodeSizesInv, OffsetInv, BalanceInv, IdsInv, CountInv, Owing, Due, Writing, FinalVersion,
           FinalFiles, FinalSeqNo, FinalSize, FinalDeleted, FinalDelSize, FinalOffset
  <2>4. BytesInv' /\ NodesInv'
    BY <1>15, <2>1, <2>2 DEF vars, Books, BytesInv, NodesInv, Writing
  <2> QED  BY <2>3, <2>4 DEF Books, BooksKept
<1> QED
  BY <1>3, <1>4, <1>5, <1>6, <1>7, <1>8, <1>9, <1>10, <1>11, <1>12, <1>13, <1>14, <1>15
     DEF Next, ToolStep

LEMMA LedgerStep ==
  ASSUME EarlyBlock, FullyMapped, TypeInv, IndexInv, LedgerInv, [Next]_vars
  PROVE  LedgerInv'
BY BooksStep DEF LedgerInv, BooksKept

(* A block fresh from block_init has no files, and its counters say so.    *)
LEMMA LedgerInit ==
  ASSUME EarlyBlock, Init
  PROVE  LedgerInv /\ Indexed = {}
<1>1. /\ mem[VERSION] = 0 /\ mem[FILE_COUNT] = 0 /\ mem[SIZE] = 0 /\ mem[DEL_FILE_COUNT] = 0
      /\ mem[DEL_SIZE] = 0 /\ mem[SEQ_NO] = 1 /\ mem[DATA_FILE_OFFSET] = 0
      /\ mem[INDEX_FILE_SIZE] = NodeBase
  BY HeaderAddresses
     DEF Init, FreshIndex, BLOCK_ID, VERSION, FILE_COUNT, SIZE, DEL_FILE_COUNT, DEL_SIZE,
         SEQ_NO, BUCKET_SIZE, DATA_FILE_OFFSET, INDEX_FILE_SIZE
<1>2. pc = "idle" /\ kills = 0 /\ TypeOK /\ IndexInv
  BY TypeInvInit, IndexInvInit DEF Init, TypeInv
<1>3. \A k \in FileIds : BucketHead(k) = 0
  <2> SUFFICES ASSUME NEW k \in FileIds PROVE BucketHead(k) = 0
    OBVIOUS
  <2>1. SlotAddr(k) \in Addr /\ SlotAddr(k) >= 44 /\ SlotAddr(k) \in Nat /\ k % BucketSize = k
    BY SlotAddresses, Sizes, AddrIsWord
  <2>2. mem[SlotAddr(k)] = 0
    BY <2>1 DEF Init, FreshIndex, BLOCK_ID, SEQ_NO, BUCKET_SIZE, INDEX_FILE_SIZE
  <2> QED  BY <2>1, <2>2 DEF BucketHead
<1>4. Indexed = {}
  BY <1>2, <1>3, LiveView DEF IndexInv, Indexed
<1>5. Cardinality(Indexed) = 0
  BY <1>4, FS_EmptySet
<1>6. \A i, n : Due(i, n) = 0
  BY <1>2 DEF Due, Owing
<1>7. /\ FinalVersion = 0 /\ FinalFiles = 0 /\ FinalSeqNo = 1 /\ FinalSize = 0
      /\ FinalDeleted = 0 /\ FinalDelSize = 0 /\ FinalOffset = 0
  BY <1>1, <1>2, <1>6
     DEF FinalVersion, FinalFiles, FinalSeqNo, FinalSize, FinalDeleted, FinalDelSize, FinalOffset
<1>8. FileSize * 0 = 0 /\ META_SIZE * 0 = 0
  BY Sizes
<1>9. CountInv /\ OffsetInv /\ BalanceInv
  BY <1>5, <1>7, <1>8 DEF CountInv, OffsetInv, BalanceInv
<1>10. Taken({}) = 0 /\ Taken({"store", "link", "commit"}) = 0
  BY <1>2 DEF Taken, IdPending
<1>11. BytesInv /\ NodesInv
  <2>1. \E c \in 0 .. mem[SEQ_NO] - 1 + kills + Taken({}) : mem[DATA_FILE_OFFSET] = FileSize * c
    BY <1>1, <1>2, <1>8, <1>10
  <2>2. \E n \in 0 .. mem[SEQ_NO] - 1 + kills + Taken({"store", "link", "commit"}) :
          mem[INDEX_FILE_SIZE] = NodeBase + META_SIZE * n
    BY <1>1, <1>2, <1>8, <1>10, Sizes
  <2> QED  BY <1>2, <1>4, <2>1, <2>2 DEF BytesInv, NodesInv
<1>12. NodeSizesInv /\ IdsInv
  BY <1>2, <1>3, <1>4 DEF NodeSizesInv, IdsInv, IdPending
<1> QED  BY <1>4, <1>9, <1>11, <1>12 DEF LedgerInv, Books

(* The counters, the bytes and the nodes of a block are accounted for in   *)
(* every reachable state: what the running tool has not stored yet is what *)
(* it owes.                                                                *)
THEOREM LedgerSound ==
  ASSUME EarlyBlock, FullyMapped
  PROVE  Spec => []LedgerInv
<1>1. Init => LedgerInv
  BY LedgerInit
<1>2. TypeInv /\ IndexInv /\ LedgerInv /\ [Next]_vars => LedgerInv'
  BY LedgerStep
<1> QED  BY <1>1, <1>2, IndexSound, PTL DEF Spec

(* What LedgerInv says between two tools, when nothing is owed.            *)
LEMMA NothingOwed ==
  ASSUME TypeInv, AtRest
  PROVE  /\ FinalVersion = mem[VERSION] /\ FinalFiles = mem[FILE_COUNT]
         /\ FinalSeqNo = mem[SEQ_NO] /\ FinalSize = mem[SIZE]
         /\ FinalDeleted = mem[DEL_FILE_COUNT] /\ FinalDelSize = mem[DEL_SIZE]
         /\ FinalOffset = mem[DATA_FILE_OFFSET] /\ mem[SEQ_NO] \in Int
<1>1. \A i, n : Due(i, n) = 0
  BY DEF AtRest, Due, Owing
<1> QED
  BY <1>1, CounterTypes
     DEF TypeInv, AtRest, FinalVersion, FinalFiles, FinalSeqNo, FinalSize, FinalDeleted,
         FinalDelSize, FinalOffset

LEMMA BalanceView ==
  ASSUME TypeInv, LedgerInv
  PROVE  CountersBalance
BY NothingOwed DEF CountersBalance, LedgerInv, Books, CountInv, OffsetInv, BalanceInv

LEMMA AgreeView ==
  ASSUME TypeInv, CountInv, IdsInv
  PROVE  CountersAgree /\ SeqNoFree
BY NothingOwed DEF CountersAgree, SeqNoFree, CountInv, IdsInv

LEMMA BytesView ==
  ASSUME TypeInv, BytesInv
  PROVE  BytesKept
<1> SUFFICES ASSUME NEW k \in Indexed
             PROVE  \E o \in DataOffsets : block[o] = k /\ o <= mem[DATA_FILE_OFFSET]
  BY DEF BytesKept
<1>1. PICK o \in DataOffsets :
        block[o] = k /\ (o < mem[DATA_FILE_OFFSET] \/ o = mem[DATA_FILE_OFFSET])
  BY DEF BytesInv
<1>2. o \in Int /\ mem[DATA_FILE_OFFSET] \in Int
  BY CounterTypes DEF TypeInv, DataOffsets
<1> QED  BY <1>1, <1>2

(* Between tools, none of them killed, nothing is owed: the counters of    *)
(* BlockInfo balance.                                                      *)
THEOREM CountersBalanced ==
  ASSUME EarlyBlock, FullyMapped
  PROVE  Spec => []CountersBalance
<1>1. TypeInv /\ LedgerInv => CountersBalance
  BY BalanceView
<1> QED  BY <1>1, IndexSound, LedgerSound, PTL

(* So do file_count_ and size_ count the files that can be found.          *)
THEOREM CountersExact ==
  ASSUME EarlyBlock, FullyMapped
  PROVE  Spec => []CountersAgree
<1>1. TypeInv /\ LedgerInv => CountersAgree
  BY AgreeView DEF LedgerInv, Books
<1> QED  BY <1>1, IndexSound, LedgerSound, PTL

(* The next id is not in use.                                              *)
THEOREM NextIdFree ==
  ASSUME EarlyBlock, FullyMapped
  PROVE  Spec => []SeqNoFree
<1>1. TypeInv /\ LedgerInv => SeqNoFree
  BY AgreeView DEF LedgerInv, Books
<1> QED  BY <1>1, IndexSound, LedgerSound, PTL

(* The bytes of a file that can be found stay in the main block, in front  *)
(* of where the next write puts its own or where the running one is about  *)
(* to commit them, whenever other tools are killed: no write overwrites    *)
(* them.  It is not said that the file's node leads there; its offset does *)
(* so only for the first file, see InnerOffsetsTrue in MCIndex.            *)
THEOREM BytesNeverLost ==
  ASSUME EarlyBlock, FullyMapped
  PROVE  Spec => []BytesKept
<1>1. TypeInv /\ LedgerInv => BytesKept
  BY BytesView DEF LedgerInv, Books
<1> QED  BY <1>1, IndexSound, LedgerSound, PTL

-----------------------------------------------------------------------------
(* No node is lost.                                                        *)

LEMMA FewNodes ==
  IsFiniteSet(Spare) /\ Cardinality(Spare) \in Nat /\ Spare \subseteq NodeOffsets /\ 0 \notin Spare
<1>1. IsFiniteSet(0 .. Capacity)
  BY Sizes, FS_Interval
<1>2. Spare \subseteq 0 .. Capacity /\ Spare \subseteq NodeOffsets /\ 0 \notin Spare
  BY NodeAddresses, Sizes DEF Spare, AllocatedNodes, Within, IsNodeOffset
<1> QED  BY <1>1, <1>2, FS_Subset, FS_CardinalityType

(* The list as a function: what FreeList says, spelled out.                *)
Lists(list, n, U, first) ==
  /\ list \in [0 .. n -> U \cup {0}] /\ list[0] = 0 /\ list[n] = first
  /\ \A i, j \in 0 .. n : list[i] = list[j] => i = j
  /\ \A o \in U : \E i \in 0 .. n : list[i] = o

LEMMA ListIs ==
  ASSUME NEW U, NEW n \in Nat, NEW list, list[0] = 0
  PROVE  list \in Bijection(0 .. n, U \cup {0}) <=> Lists(list, n, U, list[n])
<1>1. list \in Bijection(0 .. n, U \cup {0}) <=>
        /\ list \in [0 .. n -> U \cup {0}]
        /\ \A i, j \in 0 .. n : list[i] = list[j] => i = j
        /\ \A o \in U \cup {0} : \E i \in 0 .. n : list[i] = o
  BY DEF Bijection, Injection, Surjection, IsInjective
<1>2. \E i \in 0 .. n : list[i] = 0
  OBVIOUS
<1> QED  BY <1>1, <1>2 DEF Lists

LEMMA FreeListIs ==
  ASSUME NEW U, Cardinality(U) \in Nat, FreeList(U)
  PROVE  \E list : /\ Lists(list, Cardinality(U), U, mem[FREE_HEAD])
                   /\ \A i \in 1 .. Cardinality(U) : NextOf(list[i]) = list[i - 1]
<1>1. PICK list \in Bijection(0 .. Cardinality(U), U \cup {0}) :
        /\ list[0] = 0 /\ list[Cardinality(U)] = mem[FREE_HEAD]
        /\ \A i \in 1 .. Cardinality(U) : NextOf(list[i]) = list[i - 1]
  BY DEF FreeList
<1>2. Lists(list, Cardinality(U), U, mem[FREE_HEAD])
  BY <1>1, ListIs
<1> QED  BY <1>1, <1>2

LEMMA IsFreeList ==
  ASSUME NEW U, Cardinality(U) \in Nat, NEW list,
         Lists(list, Cardinality(U), U, mem'[FREE_HEAD]),
         \A i \in 1 .. Cardinality(U) : NextOf(list[i])' = list[i - 1]
  PROVE  FreeList(U)'
<1>1. list[0] = 0 /\ list[Cardinality(U)] = mem'[FREE_HEAD]
  BY DEF Lists
<1>2. list \in Bijection(0 .. Cardinality(U), U \cup {0})
  BY <1>1, ListIs
<1> QED  BY <1>1, <1>2 DEF FreeList

(* Storing neither its head nor its nodes keeps the list.                  *)
LEMMA ListKept ==
  ASSUME NEW U, FreeList(U), mem'[FREE_HEAD] = mem[FREE_HEAD],
         Cardinality(U) \in Nat, \A o \in U : NextOf(o)' = NextOf(o)
  PROVE  FreeList(U)'
<1> HIDE LayoutAssumption, IndexHandleAssumption
<1>1. PICK list : /\ Lists(list, Cardinality(U), U, mem[FREE_HEAD])
                  /\ \A i \in 1 .. Cardinality(U) : NextOf(list[i]) = list[i - 1]
  BY FreeListIs
<1>2. \A i \in 1 .. Cardinality(U) : list[i] \in U
  BY <1>1 DEF Lists
<1>3. \A i \in 1 .. Cardinality(U) : NextOf(list[i])' = list[i - 1]
  BY <1>1, <1>2
<1> QED  BY <1>1, <1>3, IsFreeList

(* A node that points at the head is put in front of it.                   *)
LEMMA ListPushed ==
  ASSUME NEW U, IsFiniteSet(U), FreeList(U), NEW o, o \notin U, o # 0, NEW T, T = U \cup {o},
         mem'[FREE_HEAD] = o, NextOf(o)' = mem[FREE_HEAD],
         \A p \in U : NextOf(p)' = NextOf(p)
  PROVE  FreeList(T)'
<1> HIDE LayoutAssumption, IndexHandleAssumption
<1>1. PICK n \in Nat : n = Cardinality(U) /\ Cardinality(T) = n + 1
  <2>1. Cardinality(U) \in Nat /\ Cardinality(U \cup {o}) = Cardinality(U) + 1
    BY FS_CardinalityType, FS_AddElement
  <2> QED  BY <2>1
<1>2. PICK list : /\ Lists(list, n, U, mem[FREE_HEAD])
                  /\ \A i \in 1 .. n : NextOf(list[i]) = list[i - 1]
  BY <1>1, FreeListIs
<1>3. PICK longer : longer = [i \in 0 .. n + 1 |-> IF i = n + 1 THEN o ELSE list[i]]
  OBVIOUS
<1>4. /\ \A i \in 0 .. n : longer[i] = list[i] /\ list[i] \in U \cup {0} /\ list[i] # o
      /\ longer[n + 1] = o /\ \A i \in 0 .. n + 1 : i \in 0 .. n \/ i = n + 1
  BY <1>2, <1>3 DEF Lists
<1>5. Lists(longer, n + 1, T, o)
  <2>1. longer \in [0 .. n + 1 -> T \cup {0}]
    BY <1>3, <1>4
  <2>2. longer[0] = 0
    BY <1>2, <1>4 DEF Lists
  <2>3. \A i, j \in 0 .. n + 1 : longer[i] = longer[j] => i = j
    BY <1>2, <1>4 DEF Lists
  <2>4. \A p \in T : \E i \in 0 .. n + 1 : longer[i] = p
    BY <1>2, <1>4 DEF Lists
  <2> QED  BY <1>4, <2>1, <2>2, <2>3, <2>4 DEF Lists
<1>6. \A i \in 1 .. n + 1 : NextOf(longer[i])' = longer[i - 1]
  <2> SUFFICES ASSUME NEW i \in 1 .. n + 1 PROVE NextOf(longer[i])' = longer[i - 1]
    OBVIOUS
  <2>1. CASE i = n + 1
    BY <1>2, <1>4, <2>1 DEF Lists
  <2>2. CASE i \in 1 .. n
    <3>1. list[i] \in U /\ NextOf(list[i]) = list[i - 1]
      BY <1>2, <2>2 DEF Lists
    <3> QED  BY <1>4, <2>2, <3>1
  <2> QED  BY <2>1, <2>2
<1>7. /\ Cardinality(T) \in Nat /\ Lists(longer, Cardinality(T), T, mem'[FREE_HEAD])
      /\ \A i \in 1 .. Cardinality(T) : NextOf(longer[i])' = longer[i - 1]
  <2>1. Cardinality(T) \in Nat
    BY <1>1
  <2>2. Lists(longer, Cardinality(T), T, mem'[FREE_HEAD])
    BY <1>1, <1>5, Zenon
  <2>3. \A i \in 1 .. Cardinality(T) : NextOf(longer[i])' = longer[i - 1]
    BY <1>1, <1>6, Zenon
  <2> QED  BY <2>1, <2>2, <2>3
<1> QED  BY <1>7, IsFreeList

(* The head is taken off.                                                  *)
LEMMA ListPopped ==
  ASSUME NEW U, IsFiniteSet(U), 0 \notin U, FreeList(U),
         NEW o, o = mem[FREE_HEAD], o # 0, NEW T, T = U \ {o},
         mem'[FREE_HEAD] = NextOf(o), \A p \in U : NextOf(p)' = NextOf(p)
  PROVE  FreeList(T)'
<1> HIDE LayoutAssumption, IndexHandleAssumption
<1>0. PICK n \in Nat : n = Cardinality(U)
  BY FS_CardinalityType
<1>2. PICK list : /\ Lists(list, n, U, mem[FREE_HEAD])
                  /\ \A i \in 1 .. n : NextOf(list[i]) = list[i - 1]
  BY <1>0, FreeListIs
<1>1. o \in U /\ n >= 1 /\ list[n] = o /\ Cardinality(T) = n - 1
  <2>1. n \in 0 .. n /\ n # 0 /\ list[n] = o /\ o \in U
    <3>1. list[n] = o /\ list[0] = 0 /\ list \in [0 .. n -> U \cup {0}]
      BY <1>2 DEF Lists
    <3> QED  BY <3>1
  <2>2. Cardinality(U \ {o}) = n - 1
    BY <1>0, <2>1, FS_RemoveElement
  <2> QED  BY <2>1, <2>2
<1>3. PICK shorter : shorter = [i \in 0 .. n - 1 |-> list[i]]
  OBVIOUS
<1>4. /\ \A i \in 0 .. n - 1 : shorter[i] = list[i] /\ list[i] \in T \cup {0}
      /\ \A i \in 0 .. n : i \in 0 .. n - 1 \/ i = n
  <2>1. ASSUME NEW i \in 0 .. n - 1 PROVE list[i] \in T \cup {0}
    <3>1. list[i] # list[n] /\ list[i] \in U \cup {0}
      BY <1>1, <1>2 DEF Lists
    <3> QED  BY <1>1, <3>1
  <2> QED  BY <1>1, <1>3, <2>1
<1>5. Lists(shorter, n - 1, T, list[n - 1])
  <2>1. shorter \in [0 .. n - 1 -> T \cup {0}]
    BY <1>3, <1>4
  <2>2. shorter[0] = 0 /\ shorter[n - 1] = list[n - 1]
    BY <1>1, <1>2, <1>4 DEF Lists
  <2>3. \A i, j \in 0 .. n - 1 : shorter[i] = shorter[j] => i = j
    BY <1>2, <1>4 DEF Lists
  <2>4. \A p \in T : \E i \in 0 .. n - 1 : shorter[i] = p
    BY <1>1, <1>2, <1>4 DEF Lists
  <2> QED  BY <2>1, <2>2, <2>3, <2>4 DEF Lists
<1>6. mem'[FREE_HEAD] = list[n - 1]
  BY <1>1, <1>2
<1>7. \A i \in 1 .. n - 1 : NextOf(shorter[i])' = shorter[i - 1]
  <2> SUFFICES ASSUME NEW i \in 1 .. n - 1 PROVE NextOf(shorter[i])' = shorter[i - 1]
    OBVIOUS
  <2>1. list[i] \in U /\ NextOf(list[i]) = list[i - 1]
    BY <1>1, <1>2 DEF Lists
  <2> QED  BY <1>1, <1>4, <2>1
<1>8. /\ Cardinality(T) \in Nat /\ Lists(shorter, Cardinality(T), T, mem'[FREE_HEAD])
      /\ \A i \in 1 .. Cardinality(T) : NextOf(shorter[i])' = shorter[i - 1]
  <2>1. Cardinality(T) \in Nat
    BY <1>1
  <2>2. Lists(shorter, Cardinality(T), T, mem'[FREE_HEAD])
    BY <1>1, <1>5, <1>6, Zenon
  <2>3. \A i \in 1 .. Cardinality(T) : NextOf(shorter[i])' = shorter[i - 1]
    BY <1>1, <1>7, Zenon
  <2> QED  BY <2>1, <2>2, <2>3
<1> QED  BY <1>8, IsFreeList

(* The nodes in use are the heads of the buckets: a step that changes no   *)
(* bucket changes none of them.                                            *)
LEMMA SameLive ==
  ASSUME Inductive, IndexInv', SameBuckets
  PROVE  LiveNodes' = LiveNodes
<1>1. \A o : o \in LiveNodes' <=> o \in LiveNodes
  BY LiveView, LiveViewNext DEF Inductive, TypeInv, IndexInv, SameBuckets
<1> QED  BY <1>1

(* A step that stores to no spare node.                                    *)
Loses == Inductive /\ IndexInv' /\ NoLeak /\ kills = 0 /\ kills' = 0

LEMMA SpareKept ==
  ASSUME Loses, Spare' = Spare, mem'[FREE_HEAD] = mem[FREE_HEAD],
         \A o \in Spare : ReadMeta(mem', o) = ReadMeta(mem, o)
  PROVE  NoLeak'
<1>1. PICK U : U = Spare
  OBVIOUS
<1>2. FreeList(U) /\ Cardinality(U) \in Nat
  BY <1>1, FewNodes DEF Loses, NoLeak
<1>3. \A o \in U : NextOf(o)' = NextOf(o)
  BY <1>1 DEF NextOf
<1>4. FreeList(U)'
  BY <1>2, <1>3, ListKept
<1>5. Spare' = U
  BY <1>1
<1> QED  BY <1>4, <1>5 DEF NoLeak

(* One that stores nothing, and neither takes nor gives up a node.         *)
LEMMA SpareQuiet ==
  ASSUME Loses, mem' = mem, Holding' = Holding
  PROVE  NoLeak'
<1>1. AllocatedNodes' = AllocatedNodes /\ LiveNodes' = LiveNodes
  BY DEF AllocatedNodes, LiveNodes, Indexed, BucketHead
<1> QED  BY <1>1, SpareKept DEF Spare

(* The steps that take a node, from the free list or the end of the index. *)
LEMMA TakeStep ==
  ASSUME Loses, ReuseNode \/ AppendNode
  PROVE  NoLeak'
<1> USE DEF Loses
<1>0. EarlyBlock /\ TypeOK /\ TypeOK' /\ pc = "alloc" /\ Holding = {}
  BY DEF Inductive, TypeInv, ReuseNode, AppendNode, Holding
<1>1. CASE ReuseNode
  <2> DEFINE head == mem[FREE_HEAD]
  <2>1. CASE Fails(head, mem)
    BY <2>1, <1>0, SpareQuiet DEF Fails, Exit, Holding
  <2>2. CASE ~ Fails(head, mem)
    <3>1. cur' = head /\ mem' = [mem EXCEPT ![FREE_HEAD] = NextOf(head)] /\ pc' = "store"
      BY <1>1, <2>2 DEF ReuseNode, Goto, Popped, NextOf
    <3>2. /\ SameBuckets /\ SameNodes /\ mem'[FREE_HEAD] = NextOf(head)
          /\ mem'[INDEX_FILE_SIZE] = mem[INDEX_FILE_SIZE]
      BY <1>0, <3>1, HeaderStore, HeaderAddresses
    <3>3. AllocatedNodes' = AllocatedNodes /\ LiveNodes' = LiveNodes /\ Holding' = {head}
      BY <3>1, <3>2, SameLive DEF AllocatedNodes, Holding
    <3>4. PICK U, T, o : U = Spare /\ T = U \ {o} /\ o = head
      OBVIOUS
    <3>5. \A p \in U : NextOf(p)' = NextOf(p)
      BY <3>2, <3>4, FewNodes DEF NextOf, SameNodes
    <3>6. IsFiniteSet(U) /\ 0 \notin U /\ FreeList(U) /\ o # 0
      BY <1>1, <3>4, FewNodes DEF NoLeak, ReuseNode
    <3>7. FreeList(T)'
      BY <3>2, <3>4, <3>5, <3>6, ListPopped
    <3>8. Spare' = T
      BY <1>0, <3>3, <3>4 DEF Spare
    <3> QED  BY <3>7, <3>8 DEF NoLeak
  <2> QED  BY <2>1, <2>2
<1>2. CASE AppendNode
  <2> DEFINE end == mem[INDEX_FILE_SIZE]
  <2>1. cur' = end /\ mem' = Grown(mem) /\ pc' = "store"
    BY <1>2 DEF AppendNode, Goto
  <2>2. /\ SameBuckets /\ SameNodes /\ mem'[INDEX_FILE_SIZE] = end + META_SIZE
        /\ mem'[FREE_HEAD] = mem[FREE_HEAD]
    BY <1>0, <2>1, HeaderStore, HeaderAddresses DEF Grown
  <2>3. LiveNodes' = LiveNodes /\ Holding' = {end} /\ end \in Int /\ IsNodeOffset(end)
    BY <1>0, <2>1, <2>2, SameLive, HeaderAddresses
       DEF Holding, TypeOK, Inductive, IndexInv, HeaderInv
  <2>4. ASSUME NEW o \in NodeOffsets
        PROVE  o < end + META_SIZE <=> o < end \/ o = end
    <3>1. o \in Int /\ IsNodeOffset(o)
      BY NodeAddresses
    <3>2. ~ (end < o /\ o < end + META_SIZE)
      <4> HIDE DEF end
      <4> QED  BY <2>3, <3>1, NodesApart, Sizes
    <3> QED  BY <2>3, <3>1, <3>2, Sizes
  <2>5. AllocatedNodes' \ {end} = AllocatedNodes \ {end}
    BY <2>2, <2>4 DEF AllocatedNodes
  <2>6. end \notin AllocatedNodes
    BY <2>3 DEF AllocatedNodes
  <2>7. Spare' = Spare
    BY <1>0, <2>3, <2>5, <2>6 DEF Spare
  <2> QED  BY <2>2, <2>7, FewNodes, SpareKept DEF SameNodes
<1> QED  BY <1>1, <1>2

(* Storing the node that the tool holds, or taking a new one back.         *)
LEMMA HoldStep ==
  ASSUME Loses, StoreMeta \/ FreeNode
  PROVE  NoLeak'
<1> USE DEF Loses
<1>0. /\ EarlyBlock /\ TypeOK /\ TypeOK' /\ pc \in {"store", "free"} /\ Holding = {cur}
      /\ cur \in Int /\ IsNodeOffset(cur) /\ meta \in MetaInfo /\ cur \notin Spare
  BY NodeAddresses
     DEF Inductive, TypeInv, TypeOK, StoreMeta, FreeNode, Holding, Spare, IndexInv,
         RegistersInv, Stored, AllocatedNodes
<1>1. ASSUME NEW v \in MetaInfo, Pwrites(cur), mem' = WriteMeta(mem, cur, v),
             pc' \in {"link", "push"}, cur' = cur
      PROVE  NoLeak'
  <2>1. cur \in NodeOffsets
    BY <1>0, <1>1, PwritesType, IsNode
  <2>2. /\ SameHeader /\ SameBuckets
        /\ \A p \in NodeOffsets : p # cur => ReadMeta(mem', p) = ReadMeta(mem, p)
    BY <1>0, <1>1, <2>1, NodeStore
  <2>3. AllocatedNodes' = AllocatedNodes /\ mem'[FREE_HEAD] = mem[FREE_HEAD]
    BY <2>2, HeaderAddresses DEF SameHeader, AllocatedNodes
  <2>4. Spare' = Spare
    BY <1>0, <1>1, <2>2, <2>3, SameLive DEF Spare, Holding
  <2> QED  BY <1>0, <2>2, <2>3, <2>4, FewNodes, SpareKept
<1>2. CASE StoreMeta
  <2>1. CASE FailsStoring(cur, Inserted(meta), RolledBack(mem))
    <3>0. pc = "store"
      BY <1>2 DEF StoreMeta
    <3>1. /\ pc' = "idle" /\ mem[INDEX_FILE_SIZE] = cur + META_SIZE
          /\ mem'[INDEX_FILE_SIZE] = cur
          /\ \A a \in Addr : a < HEADER_SIZE /\ a # INDEX_FILE_SIZE => mem'[a] = mem[a]
          /\ SameBuckets
          /\ \A o \in NodeOffsets : o < cur => ReadMeta(mem', o) = ReadMeta(mem, o)
      BY <2>1, <3>0, FailedStore
    <3>2. mem'[FREE_HEAD] = mem[FREE_HEAD] /\ LiveNodes' = LiveNodes /\ Holding' = {}
      BY <3>1, SameLive, HeaderAddresses DEF Holding
    <3>3. \A o \in NodeOffsets : o < cur + META_SIZE <=> o < cur \/ o = cur
      <4> SUFFICES ASSUME NEW o \in NodeOffsets
                   PROVE  o < cur + META_SIZE <=> o < cur \/ o = cur
        OBVIOUS
      <4>1. o \in Int /\ IsNodeOffset(o)
        BY NodeAddresses
      <4>2. ~ (cur < o /\ o < cur + META_SIZE)
        BY <1>0, <4>1, NodesApart, Sizes
      <4> QED  BY <1>0, <4>1, <4>2, Sizes
    <3>4. /\ \A o : o \in AllocatedNodes' <=> o \in AllocatedNodes /\ o # cur
          /\ \A o \in AllocatedNodes' : o \in NodeOffsets /\ o < cur
      BY <1>0, <3>1, <3>3, NodeAddresses DEF AllocatedNodes
    <3>5. Spare' = Spare
      BY <1>0, <3>2, <3>4 DEF Spare
    <3>6. \A o \in Spare : o \in NodeOffsets /\ o < cur
      BY <3>4, <3>5 DEF Spare
    <3> QED  BY <3>1, <3>2, <3>5, <3>6, SpareKept
  <2>2. CASE ~ FailsStoring(cur, Inserted(meta), RolledBack(mem))
    <3>1. /\ Pwrites(cur) /\ mem' = WriteMeta(mem, cur, Inserted(meta))
          /\ pc' = "link" /\ cur' = cur
      BY <1>2, <2>2 DEF StoreMeta, Goto
    <3>2. Inserted(meta) \in MetaInfo
      BY <1>0, MetaTypes, StoreTypes
    <3> QED  BY <1>1, <3>1, <3>2
  <2> QED  BY <2>1, <2>2
<1>3. CASE FreeNode
  <2>1. ~ FailsStoring(cur, Freed(mem, meta), mem)
    <3>1. pc = "free" /\ Stored(cur)
      BY <1>3 DEF FreeNode, Inductive, IndexInv, RegistersInv
    <3> QED  BY <1>0, <3>1, FailsStoringSizes, Sizes DEF Stored, Reach, Mapping, TypeOK
  <2>2. /\ Pwrites(cur) /\ mem' = WriteMeta(mem, cur, Freed(mem, meta))
        /\ pc' = "push" /\ cur' = cur
    BY <1>3, <2>1 DEF FreeNode, Goto, regVars
  <2>3. Freed(mem, meta) \in MetaInfo
    BY <1>0, MetaTypes, StoreTypes DEF TypeOK
  <2> QED  BY <1>1, <2>2, <2>3
<1> QED  BY <1>2, <1>3

(* Into its bucket, out of it, and onto the free list.                     *)
LEMMA GiveStep ==
  ASSUME Loses, LinkNode \/ UnlinkNode \/ PushNode
  PROVE  NoLeak'
<1> USE DEF Loses
<1>0. /\ EarlyBlock /\ TypeOK /\ TypeOK' /\ BucketsInv /\ BucketsInv' /\ cur \in Int
      /\ mem[BUCKET_SIZE] = BucketSize /\ key \in FileIds
  BY DEF Inductive, TypeInv, TypeOK, IndexInv, HeaderInv, RegistersInv, LinkNode, UnlinkNode,
         PushNode
<1>1. ASSUME NEW x, mem' = LinkedAtHead(mem, key, x),
             LiveNodes' \cup Holding' = LiveNodes \cup Holding
      PROVE  NoLeak'
  <2>1. SameHeader /\ SameNodes
    BY <1>0, <1>1, SlotStore
  <2>2. AllocatedNodes' = AllocatedNodes /\ mem'[FREE_HEAD] = mem[FREE_HEAD]
    BY <2>1, HeaderAddresses DEF SameHeader, AllocatedNodes
  <2> QED  BY <1>1, <2>1, <2>2, FewNodes, SpareKept DEF Spare, SameNodes
<1>2. CASE LinkNode
  <2>1. /\ pc = "link" /\ prev = 0 /\ BucketHead(key) = 0 /\ cur # 0
    BY <1>2, NodeAddresses, Sizes
       DEF LinkNode, Inductive, IndexInv, RegistersInv, Stored, AllocatedNodes, IsNodeOffset
  <2>2. mem' = LinkedAtHead(mem, key, cur) /\ pc' = "commit" /\ key' = key
    BY <1>2, <2>1 DEF LinkNode, Goto, regVars
  <2>3. /\ BucketHead(key)' = cur
        /\ \A j \in FileIds : j # key => BucketHead(j)' = BucketHead(j)
    BY <1>0, <2>2, SlotStore
  <2>4. \A o : o \in LiveNodes' <=> o \in LiveNodes \/ o = cur
    BY <1>0, <2>1, <2>2, <2>3, LiveView, LiveViewNext
  <2> QED  BY <1>1, <2>1, <2>2, <2>4 DEF Holding
<1>3. CASE UnlinkNode
  <2>1. /\ pc = "unlink" /\ prev = 0 /\ cur = BucketHead(key) /\ cur # 0 /\ NextOf(cur) = 0
    BY <1>0, <1>3 DEF UnlinkNode, Inductive, IndexInv, RegistersInv, BucketsInv
  <2>2. CASE Fails(cur, mem)
    BY <2>1, <2>2, SpareQuiet DEF Fails, Exit, Holding
  <2>3. CASE ~ Fails(cur, mem)
    <3>1. mem' = LinkedAtHead(mem, key, 0) /\ pc' = "free" /\ cur' = cur /\ key' = key
      BY <1>3, <2>1, <2>3 DEF UnlinkNode, Goto, NextOf
    <3>2. /\ BucketHead(key)' = 0
          /\ \A j \in FileIds : j # key => BucketHead(j)' = BucketHead(j)
      BY <1>0, <3>1, SlotStore
    <3>3. \A o : o \in LiveNodes' \/ o = cur <=> o \in LiveNodes
      <4>1. \A j \in FileIds : BucketHead(j) = cur => j = key
        BY <2>1 DEF Inductive, IndexInv, RegistersInv, BucketsInv, HasKey
      <4> QED  BY <1>0, <2>1, <3>1, <3>2, <4>1, LiveView, LiveViewNext
    <3> QED  BY <1>1, <2>1, <3>1, <3>3 DEF Holding
  <2> QED  BY <2>2, <2>3
<1>4. CASE PushNode
  <2>1. /\ pc = "push" /\ Stored(cur) /\ cur \notin LiveNodes /\ NextOf(cur) = mem[FREE_HEAD]
    BY <1>4 DEF PushNode, Inductive, IndexInv, RegistersInv
  <2>2. mem' = [mem EXCEPT ![FREE_HEAD] = cur] /\ pc' = "update"
    BY <1>4 DEF PushNode, Pushed, Goto
  <2>3. /\ SameBuckets /\ SameNodes /\ mem'[FREE_HEAD] = cur
        /\ mem'[INDEX_FILE_SIZE] = mem[INDEX_FILE_SIZE]
    BY <1>0, <2>2, HeaderStore, HeaderAddresses
  <2>4. AllocatedNodes' = AllocatedNodes /\ LiveNodes' = LiveNodes
    BY <2>3, SameLive DEF AllocatedNodes
  <2>5. PICK U, T, o : U = Spare /\ T = U \cup {o} /\ o = cur
    OBVIOUS
  <2>6. /\ o \notin U /\ o # 0 /\ NextOf(o)' = mem[FREE_HEAD] /\ o \in AllocatedNodes
        /\ \A p \in U : NextOf(p)' = NextOf(p)
    BY <2>1, <2>3, <2>5, FewNodes, NodeAddresses, Sizes
       DEF Spare, Holding, Stored, AllocatedNodes, IsNodeOffset, NextOf, SameNodes
  <2>7. IsFiniteSet(U) /\ FreeList(U)
    BY <2>5, FewNodes DEF NoLeak
  <2>8. FreeList(T)'
    BY <2>3, <2>5, <2>6, <2>7, ListPushed
  <2>9. Spare' = T
    BY <2>1, <2>2, <2>4, <2>5, <2>6 DEF Spare, Holding
  <2> QED  BY <2>8, <2>9 DEF NoLeak
<1> QED  BY <1>2, <1>3, <1>4

(* One that stores a counter of the header.                                *)
LEMMA SpareCounted ==
  ASSUME Loses, NEW a \in Counters, NEW x \in Int, mem' = [mem EXCEPT ![a] = x],
         Holding' = Holding
  PROVE  NoLeak'
<1>1. /\ SameBuckets /\ SameNodes /\ mem'[FREE_HEAD] = mem[FREE_HEAD]
      /\ mem'[INDEX_FILE_SIZE] = mem[INDEX_FILE_SIZE]
  BY HeaderStore, HeaderAddresses DEF Counters, Loses, Inductive, TypeInv
<1>2. Spare' = Spare
  BY <1>1, SameLive DEF Spare, AllocatedNodes, Loses
<1> QED  BY <1>1, <1>2, FewNodes, SpareKept DEF SameNodes

LEMMA LeakStep ==
  ASSUME EarlyBlock, FullyMapped, TypeInv, IndexInv, NoLeak, [Next]_vars
  PROVE  NoLeak'
<1>1. Inductive /\ IndexInv'
  BY IndexInvStep DEF Inductive
<1> SUFFICES ASSUME kills' = 0 PROVE NoLeak'
  BY DEF NoLeak
<1>2. kills \in Nat /\ EarlyBlock /\ TypeOK /\ TypeOK'
  BY <1>1 DEF Inductive, TypeInv, TypeOK
<1>3. ASSUME kills = 0, mem' = mem, pc \notin {"store", "link", "free", "push"},
             pc' \notin {"store", "link", "free", "push"}
      PROVE  NoLeak'
  BY <1>1, <1>3, SpareQuiet DEF Loses, Holding
<1>4. CASE Start
  BY <1>3, <1>4 DEF Start, StartWrite, StartLookup
<1>5. CASE Kill \/ KillStoring
  BY <1>2, <1>5 DEF Kill, KillStoring
<1>6. CASE \/ WriteBlock \/ HashFindSlot \/ HashFindEnd \/ HashFindHit \/ HashFindNext
           \/ HashFindFails \/ ReadSegmentMeta \/ Flush \/ ReadBlock
  BY <1>3, <1>6
     DEF WriteBlock, HashFindSlot, HashFindEnd, HashFindHit, HitOn, HashFindNext, PassOn, HashFindFails,
         ReadSegmentMeta, TakesMeta, Flush, ReadBlock, Fails, Faults, Exit, Goto, fileVars
<1>7. CASE CommitOffset \/ UpdateBlockInfo
  <2>1. Loses /\ pc \in {"commit", "update"} /\ pc' \in {"update", "flush"}
    BY <1>1, <1>7 DEF CommitOffset, UpdateBlockInfo, Goto, Loses
  <2>2. PICK a \in Counters, x \in Int : mem' = [mem EXCEPT ![a] = x]
    BY <1>1, <1>7, CounterStored DEF Counters
  <2>3. Holding' = Holding
    BY <2>1 DEF Holding
  <2> QED  BY <2>1, <2>2, <2>3, SpareCounted
<1>8. CASE ReuseNode \/ AppendNode \/ StoreMeta \/ FreeNode \/ LinkNode \/ UnlinkNode \/ PushNode
  <2>1. Loses
    BY <1>1, <1>8
       DEF Loses, ReuseNode, AppendNode, StoreMeta, FreeNode, LinkNode, UnlinkNode, PushNode,
           Fails, FailsStoring, Goto
  <2> QED  BY <1>8, <2>1, TakeStep, HoldStep, GiveStep
<1>9. CASE RelinkNode \/ UnlinkBehind \/ BypassNode
  BY <1>9 DEF RelinkNode, UnlinkBehind, BypassNode, IndexInv, RegistersInv
<1>10. CASE UNCHANGED vars
  <2>1. Loses /\ mem' = mem /\ Holding' = Holding
    BY <1>1, <1>10 DEF vars, Loses, Holding
  <2> QED  BY <2>1, SpareQuiet
<1> QED
  BY <1>4, <1>5, <1>6, <1>7, <1>8, <1>9, <1>10 DEF Next, ToolStep

LEMMA NothingLostYet ==
  ASSUME EarlyBlock, Init
  PROVE  NoLeak
<1>1. mem[INDEX_FILE_SIZE] = NodeBase /\ mem[FREE_HEAD] = 0
  BY HeaderAddresses
     DEF Init, FreshIndex, BLOCK_ID, SEQ_NO, BUCKET_SIZE, INDEX_FILE_SIZE, FREE_HEAD
<1>2. Spare = {}
  BY <1>1, NodeAddresses, Sizes DEF Spare, AllocatedNodes, IsNodeOffset
<1>3. PICK none : none = [i \in 0 .. 0 |-> 0]
  OBVIOUS
<1>4. /\ none \in Bijection(0 .. 0, {} \cup {0}) /\ none[0] = 0
      /\ Cardinality({}) = 0
  <2>1. PICK U : U = {}
    OBVIOUS
  <2>2. Lists(none, 0, U, none[0]) /\ none[0] = 0
    BY <1>3, <2>1 DEF Lists
  <2>3. none \in Bijection(0 .. 0, U \cup {0})
    BY <2>2, ListIs
  <2> QED  BY <2>1, <2>2, <2>3, FS_EmptySet
<1>5. FreeList({})
  <2>1. /\ none \in Bijection(0 .. Cardinality({}), {} \cup {0})
        /\ none[0] = 0 /\ none[Cardinality({})] = mem[FREE_HEAD]
    BY <1>1, <1>4
  <2>2. \A i \in 1 .. Cardinality({}) : NextOf(none[i]) = none[i - 1]
    BY <1>4
  <2> QED  BY <2>1, <2>2 DEF FreeList
<1> QED  BY <1>2, <1>5 DEF NoLeak

(* As long as no tool is killed, every allocated node is in use, held by   *)
(* the running tool or on the free list, at every step of every tool: what *)
(* a deletion gives up, a write takes again.                               *)
THEOREM NoNodeLost ==
  ASSUME EarlyBlock, FullyMapped
  PROVE  Spec => []NoLeak
<1>1. Init => NoLeak
  BY NothingLostYet
<1>2. TypeInv /\ IndexInv /\ NoLeak /\ [Next]_vars => NoLeak'
  BY LeakStep
<1> QED  BY <1>1, <1>2, IndexSound, PTL DEF Spec
-----------------------------------------------------------------------------
(* The storage has room for a node of every write, finished or killed.     *)
RoomForAll == NodeBase + META_SIZE * (MaxId + MaxKills) <= Capacity

(* Nothing is stored as a node where no node is kept.                      *)
THEOREM StoresOnlyNodes ==
  ASSUME EarlyBlock, FullyMapped, RoomForAll
  PROVE  Spec => []StoresHitNodes
<1>1. TypeInv /\ IndexInv /\ LedgerInv => StoresHitNodes
  <2> SUFFICES ASSUME TypeInv, IndexInv, LedgerInv PROVE StoresHitNodes
    OBVIOUS
  <2>1. pc \notin {"relink", "bypass"} /\ (pc \in {"free", "push"} => cur \in NodeOffsets)
    BY DEF IndexInv, RegistersInv, Stored, AllocatedNodes
  <2>2. CASE pc = "store"
    <3>1. /\ cur \in Int /\ IsNodeOffset(cur) /\ cur < mem[INDEX_FILE_SIZE]
          /\ IsNodeOffset(mem[INDEX_FILE_SIZE]) /\ mem[INDEX_FILE_SIZE] \in Int
          /\ key \in FileIds /\ kills \in 0 .. MaxKills /\ op = "write"
      BY <2>2, CounterTypes
         DEF TypeInv, TypeOK, StepOK, IndexInv, HeaderInv, RegistersInv
    <3>2. key = mem[SEQ_NO] /\ Taken({"store", "link", "commit"}) = 1
      BY <2>2, <3>1 DEF LedgerInv, Books, IdsInv, IdPending, Writing, Taken
    <3>3. PICK n \in 0 .. MaxId + MaxKills : mem[INDEX_FILE_SIZE] = NodeBase + META_SIZE * n
      BY <3>1, <3>2 DEF LedgerInv, Books, NodesInv, FileIds
    <3>4. mem[INDEX_FILE_SIZE] <= Capacity
      BY <3>3, Sizes DEF RoomForAll
    <3>5. Within(cur)
      BY <3>1, <3>4, NodesApart, Sizes DEF Within, IsNodeOffset
    <3> QED  BY <2>1, <2>2, <3>1, <3>5, IsNode DEF StoresHitNodes
  <2> QED  BY <2>1, <2>2 DEF StoresHitNodes
<1> QED  BY <1>1, IndexSound, LedgerSound, PTL
-----------------------------------------------------------------------------
(* The block implements the file table: starting a tool is Ask, counting   *)
(* the id of a write is Put, unlinking a counted file is Remove.           *)

Files == {k \in Indexed : k < mem[SEQ_NO]}
Asked == IF op = "delete" THEN key ELSE 0

(* A tool works on one id.                                                 *)
LEMMA SameTool ==
  ASSUME ToolStep \/ Kill \/ KillStoring
  PROVE  UNCHANGED <<op, key>>
BY DEF ToolStep, WriteBlock, HashFindSlot, HashFindEnd, HashFindHit, HitOn, HashFindNext, PassOn,
       HashFindFails, ReuseNode, AppendNode, StoreMeta, LinkNode, RelinkNode, CommitOffset,
       UpdateBlockInfo, Flush, UnlinkNode, UnlinkBehind, BypassNode, FreeNode, PushNode,
       ReadSegmentMeta, TakesMeta, ReadBlock, Kill, KillStoring, Fails, FailsStoring, Faults, Goto,
       fileVars, regVars

(* A step of a tool changes the table as FileTable allows, or not at all.  *)
LEMMA TableStep ==
  ASSUME EarlyBlock, FullyMapped, TypeInv, IndexInv, LedgerInv, [Next]_vars
  PROVE  Table!Next \/ UNCHANGED <<Files, mem[SEQ_NO], Asked>>
<1>1. TypeInv' /\ IndexInv'
  BY IndexInvStep
<1>2. Booked
  BY <1>1 DEF Booked, Inductive, LedgerInv
<1>3. mem[SEQ_NO] \in Int /\ Indexed \subseteq Int
  BY CounterTypes DEF TypeInv, Indexed, FileIds
<1>4. ASSUME Stays, UNCHANGED <<op, key>>
      PROVE  UNCHANGED <<Files, mem[SEQ_NO], Asked>>
  BY <1>4 DEF Stays, Files, Asked
<1>5. CASE Start
  <2>1. Stays
    BY <1>2, <1>5, StartBooks
  <2>2. Files' = Files /\ mem'[SEQ_NO] = mem[SEQ_NO]
    BY <2>1 DEF Stays, Files
  <2>3. Asked' \in Nat
    BY <1>5 DEF Start, StartWrite, StartLookup, Asked, FileIds
  <2> QED  BY <2>2, <2>3 DEF Table!Next, Table!Ask, Files, Asked
<1>6. CASE LinkNode
  <2>1. Indexed' = Indexed \cup {key} /\ key = mem[SEQ_NO] /\ mem'[SEQ_NO] = mem[SEQ_NO]
    BY <1>2, <1>6, LinkBooks
  <2>2. Files' = Files
    BY <1>3, <2>1 DEF Files
  <2> QED  BY <1>6, <2>1, <2>2, SameTool DEF ToolStep, Asked
<1>7. CASE UnlinkNode
  <2>1. /\ mem'[SEQ_NO] = mem[SEQ_NO] /\ op = "delete"
        /\ Indexed' = Indexed \/ (Indexed' = Indexed \ {key} /\ key \in Indexed)
    BY <1>2, <1>7, UnlinkBooks DEF Stays
  <2>2. UNCHANGED <<op, key>> /\ Asked' = Asked /\ Asked = key
    BY <1>7, <2>1, SameTool DEF ToolStep, Asked
  <2>3. CASE Files' = Files
    BY <2>1, <2>2, <2>3
  <2>4. CASE Files' # Files
    <3>1. Files' = Files \ {key} /\ key \in Files
      BY <2>1, <2>4 DEF Files
    <3> QED  BY <2>1, <2>2, <3>1 DEF Table!Next, Table!Remove, Files, Asked
  <2> QED  BY <2>3, <2>4
<1>8. CASE UpdateBlockInfo
  <2>1. UNCHANGED <<op, key>> /\ Asked' = Asked
    BY <1>8, SameTool DEF ToolStep, Asked
  <2>2. /\ Indexed' = Indexed /\ SameBuckets
        /\ \/ mem'[SEQ_NO] = mem[SEQ_NO]
           \/ /\ op = "write" /\ pc = "update" /\ key = mem[SEQ_NO]
              /\ mem'[SEQ_NO] = mem[SEQ_NO] + 1
    BY <1>2, <1>8, UpdateBooks
  <2>3. CASE mem'[SEQ_NO] = mem[SEQ_NO]
    BY <1>4, <2>1, <2>2, <2>3 DEF Stays
  <2>4. CASE mem'[SEQ_NO] # mem[SEQ_NO]
    <3>1. key = mem[SEQ_NO] /\ key \in Indexed /\ mem'[SEQ_NO] = mem[SEQ_NO] + 1
      BY <2>2, <2>4 DEF IndexInv, TruthInv
    <3>2. Files' = Files \cup {mem[SEQ_NO]}
      <4>1. ASSUME NEW k \in Indexed
            PROVE  k < mem'[SEQ_NO] <=> k < mem[SEQ_NO] \/ k = mem[SEQ_NO]
        <5>1. k \in Int
          BY <1>3
        <5> QED  BY <1>3, <3>1, <5>1
      <4>2. Files' = {k \in Indexed : k < mem'[SEQ_NO]}
        BY <2>2 DEF Files
      <4> QED  BY <3>1, <4>1, <4>2 DEF Files
    <3> QED  BY <2>1, <3>1, <3>2 DEF Table!Next, Table!Put, Files, Asked
  <2> QED  BY <2>3, <2>4
<1>9. CASE \/ ToolStep /\ ~ (LinkNode \/ UnlinkNode \/ UpdateBlockInfo)
           \/ Kill \/ KillStoring
  <2>1. Stays
    BY <1>9, StaysStep DEF LedgerInv
  <2> QED  BY <1>4, <1>9, <2>1, SameTool
<1>10. CASE UNCHANGED vars
  BY <1>4, <1>10 DEF vars, Stays, SameBuckets, Indexed, BucketHead
<1> QED  BY <1>5, <1>6, <1>7, <1>8, <1>9, <1>10 DEF Next

(* A block keeps what FileTable promises, in every order of tools and      *)
(* whenever they are killed: ids are given once, and a file goes only when *)
(* its own deletion was asked for.                                         *)
THEOREM TableImplemented ==
  ASSUME EarlyBlock, FullyMapped
  PROVE  Spec => ImplementsFileTable
<1>1. Init => Table!Init
  <2> SUFFICES ASSUME Init PROVE Table!Init
    OBVIOUS
  <2>1. Indexed = {}
    BY LedgerInit
  <2>2. mem[SEQ_NO] = 1 /\ op = "none"
    BY HeaderAddresses DEF Init, FreshIndex, BLOCK_ID, SEQ_NO
  <2> QED  BY <2>1, <2>2 DEF Table!Init
<1>2. TypeInv /\ IndexInv /\ LedgerInv /\ [Next]_vars => [Table!Next]_(Table!vars)
  BY TableStep DEF Table!vars, Files, Asked
<1> QED
  BY <1>1, <1>2, IndexSound, LedgerSound, PTL DEF Spec, ImplementsFileTable, Table!Spec
=============================================================================
