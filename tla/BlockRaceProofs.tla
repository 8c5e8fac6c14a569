--------------------------- MODULE BlockRaceProofs ---------------------------
(***************************************************************************)
(* Reads are linearizable whatever writes and deletions run at the same    *)
(* time, and a reader disturbs none of them as long as the file is not cut *)
(* off, which happens only once an access has failed: for every number of  *)
(* buckets, files and nodes.                                               *)
(***************************************************************************)
EXTENDS BlockRace, IndexLedger

USE LayoutAssumption, IndexHandleAssumption

(* The reader sees the same layout.                                        *)
LEMMA SameLayout ==
  /\ Reader!META_SIZE = META_SIZE /\ Reader!Capacity = Capacity
  /\ \A a, b \in Int : /\ Reader!Larger(a, b) = Larger(a, b)
                       /\ Reader!Smaller(a, b) = Smaller(a, b)
  /\ \A m, k : Reader!SlotAddr(Reader!Slot(m, k)) = SlotAddr(Slot(m, k))
  /\ \A v, k : Reader!HasKey(v, k) <=> HasKey(v, k)
  BY DEF Reader!META_SIZE, META_SIZE, Reader!Capacity, Capacity, Reader!Larger, Larger,
         Reader!Smaller, Smaller, Reader!SlotAddr, SlotAddr, Reader!Slot, Slot,
         Reader!HEADER_SIZE, HEADER_SIZE, Reader!BUCKET_SIZE, BUCKET_SIZE,
         Reader!HasKey, HasKey

(* Its accesses never make the file shorter but by ReaderTruncates.        *)
Lengthens == fsize' \in FirstMap .. Capacity /\ fsize' >= fsize

LEMMA ReaderSizes ==
  ASSUME TypeOK, rmapped \in Int
  PROVE  /\ \A o : \A r \in Reader!Remapped(o) :
              /\ r.mapped \in Int /\ r.fsize \in FirstMap .. Capacity /\ r.fsize >= fsize
         /\ \A o : Reader!Preads(o) => Lengthens /\ rmapped' \in Int
         /\ \A o, m : Reader!Fails(o, m) => Lengthens /\ rmapped' \in Int
         /\ Reader!Load => Lengthens /\ rmapped' \in Int
<1>1. /\ fsize \in FirstMap .. Capacity /\ Capacity \in Int /\ MaxMap \in Int /\ PerMap \in Int
  BY Sizes DEF TypeOK
<1>2. ASSUME NEW o, NEW r \in Reader!Remapped(o)
      PROVE  r.mapped \in Int /\ r.fsize \in FirstMap .. Capacity /\ r.fsize >= fsize
  <2> DEFINE n == Reader!Smaller(rmapped + PerMap, MaxMap)
  <2>1. n \in Int
    BY <1>1 DEF Reader!Smaller
  <2>2. \/ r = [mapped |-> rmapped, fsize |-> fsize]
        \/ /\ ~ (n > Capacity)
           /\ r \in {[mapped |-> rmapped, fsize |-> Reader!Larger(fsize, n)],
                     [mapped |-> n,      fsize |-> Reader!Larger(fsize, n)]}
    BY <1>2, SameLayout DEF Reader!Remapped
  <2> HIDE DEF n
  <2> QED  BY <1>1, <2>1, <2>2 DEF Reader!Larger
<1>3. ASSUME NEW o, Reader!Preads(o) PROVE Lengthens /\ rmapped' \in Int
  BY <1>2, <1>3 DEF Reader!Preads, Lengthens
<1>4. ASSUME NEW o, NEW m, Reader!Fails(o, m) PROVE Lengthens /\ rmapped' \in Int
  BY <1>2, <1>4 DEF Reader!Fails, Reader!Exit, Lengthens
<1>5. ASSUME Reader!Load PROVE Lengthens /\ rmapped' \in Int
  BY <1>1, <1>5, Sizes DEF Reader!Load, Reader!Loaded, Reader!Larger, Lengthens
<1> QED  BY <1>2, <1>3, <1>4, <1>5

(* Where a step takes the reader.                                          *)
Reads ==
  \/ rpc = "find" /\ rpc' = "walk" /\ rpos' = BucketHead(rkey)
  \/ rpc = "walk" /\ rpos = 0 /\ rpc' = "idle"
  \/ /\ rpc = "walk" /\ rpos # 0 /\ rpc' = "walk"
     /\ ~ HasKey(NodeRead, rkey)
  \/ rpc = "walk" /\ rpos # 0 /\ rpc' = "read_meta"
  \/ rpc = "read_meta" /\ rpc' = "pread_block"
  \/ rpc = "pread_block" /\ rpc' = "idle" /\ rret' # "EXIT_MEFA_NOT_FOUND_ERROR"
  \/ rpc' = "idle" /\ rret' \in {"IO_ERROR", "killed"}

(* A reader that found its bucket empty reports that its file is not there.*)
LEMMA ReaderStep ==
  ASSUME EarlyBlock, TypeOK, HeaderInv, ReaderInv, ReaderMoves
  PROVE  /\ UNCHANGED <<mem, block, kills, rkey>> /\ Lengthens /\ ReaderInv' /\ Reads
         /\ rpc # "idle" /\ (rpc = "walk" /\ rpos = 0 => rret' # "TFS_SUCCESS")
         /\ rcopy' = NoWords
<1> USE DEF ReaderInv
<1>0. rtodo' = 0 /\ 0 <= Capacity /\ rcopy' = NoWords
  BY Sizes DEF ReaderMoves, TypeOK
<1>a. TypeOK /\ rmapped \in Int /\ fsize \in Int /\ fsize >= fsize /\ fsize \in FirstMap .. Capacity
  BY Sizes DEF TypeOK
<1>b. rpc # "idle" /\ rop = "read"
  BY DEF ReaderMoves, Reader!HashFindSlot, Reader!HashFindEnd, Reader!HitOn, Reader!PassOn,
         Reader!HashFindFails, Reader!TakesMeta, Reader!ReadBlock
<1>c. rpc' = "idle" /\ rmapped' = 0 /\ UNCHANGED <<rop, rkey>> => ReaderInv'
  BY <1>0
<1>1. CASE Reader!HashFindSlot
  <2>1. /\ rpc = "find" /\ rpc' = "walk"
        /\ rpos' = mem[Reader!SlotAddr(Reader!Slot(mem, rkey))]
        /\ UNCHANGED <<mem, fsize, block, kills, rmapped, rop, rkey>>
    BY <1>1 DEF Reader!HashFindSlot, Reader!Goto, Reader!fileVars
  <2>2. rpos' = BucketHead(rkey)
    BY <2>1, SameLayout DEF BucketHead, Slot, HeaderInv
  <2> QED  BY <1>0, <1>a, <1>b, <2>1, <2>2 DEF Reads, Lengthens
<1>2. CASE Reader!HashFindEnd
  <2>1. /\ rpc = "walk" /\ rpos = 0 /\ rpc' = "idle" /\ rmapped' = 0
        /\ rret' = "EXIT_MEFA_NOT_FOUND_ERROR"
        /\ UNCHANGED <<mem, fsize, block, kills, rop, rkey>>
    BY <1>2, <1>b DEF Reader!HashFindEnd, Reader!Exit, Reader!fileVars
  <2> QED  BY <1>0, <1>a, <1>b, <1>c, <2>1 DEF Reads, Lengthens
<1>3. CASE Reader!HitOn(NodeRead)
  <2>1. /\ rpc = "walk" /\ rpos # 0 /\ rpc' = "read_meta" /\ Reader!Preads(rpos)
        /\ UNCHANGED <<mem, block, kills, rop, rkey>>
    BY <1>3, <1>b DEF Reader!HitOn, Reader!Goto
  <2> QED  BY <1>0, <1>a, <1>b, <2>1, ReaderSizes DEF Reads
<1>4. CASE Reader!PassOn(NodeRead)
  <2>1. /\ rpc = "walk" /\ rpos # 0 /\ rpc' = "walk" /\ Reader!Preads(rpos)
        /\ ~ Reader!HasKey(NodeRead, rkey)
        /\ UNCHANGED <<mem, block, kills, rop, rkey>>
    BY <1>4 DEF Reader!PassOn, Reader!Goto
  <2>2. ~ HasKey(NodeRead, rkey)
    BY <2>1, SameLayout
  <2> QED  BY <1>0, <1>a, <1>b, <2>1, <2>2, ReaderSizes DEF Reads
<1>5. CASE Reader!HashFindFails
  <2>1. /\ rpc = "walk" /\ rpos # 0 /\ rpc' = "idle" /\ rmapped' = 0
        /\ rret' \in {"IO_ERROR", "killed"}
        /\ UNCHANGED <<mem, block, kills, rop, rkey>>
        /\ fsize' = fsize \/ Reader!Fails(rpos, mem)
    BY <1>5 DEF Reader!HashFindFails, Reader!Fails, Reader!Faults, Reader!Exit, Reader!fileVars
  <2> QED  BY <1>0, <1>a, <1>b, <1>c, <2>1, ReaderSizes DEF Reads, Lengthens
<1>6. CASE Reader!TakesMeta(NodeRead)
  <2>1. CASE Reader!Fails(rcur, mem)
    <3>1. /\ rpc = "read_meta" /\ rpc' = "idle" /\ rmapped' = 0 /\ rret' = "IO_ERROR"
          /\ UNCHANGED <<mem, block, kills, rop, rkey>>
      BY <1>6, <2>1 DEF Reader!TakesMeta, Reader!Fails, Reader!Exit
    <3> QED  BY <1>0, <1>a, <1>b, <1>c, <2>1, <3>1, ReaderSizes DEF Reads
  <2>2. CASE ~ Reader!Fails(rcur, mem)
    <3>1. /\ rpc = "read_meta" /\ rpc' = "pread_block" /\ Reader!Preads(rcur)
          /\ UNCHANGED <<mem, block, kills, rop, rkey>>
      BY <1>6, <2>2 DEF Reader!TakesMeta, Reader!Goto
    <3> QED  BY <1>0, <1>a, <1>b, <3>1, ReaderSizes DEF Reads
  <2> QED  BY <2>1, <2>2
<1>7. CASE Reader!ReadBlock
  <2>1. /\ rpc = "pread_block" /\ rpc' = "idle" /\ rmapped' = 0
        /\ rret' # "EXIT_MEFA_NOT_FOUND_ERROR"
        /\ UNCHANGED <<mem, fsize, block, kills, rop, rkey>>
    BY <1>7 DEF Reader!ReadBlock, Reader!Exit, Reader!fileVars
  <2> QED  BY <1>0, <1>a, <1>b, <1>c, <2>1 DEF Reads, Lengthens
<1> QED
  BY <1>1, <1>2, <1>3, <1>4, <1>5, <1>6, <1>7 DEF ReaderMoves

(* Starting one makes at most the file longer.                             *)
LEMMA ReaderStart ==
  ASSUME TypeOK, ReaderInv, NEW k \in FileIds, Reader!StartLookup("read", k), rtodo' = rtodo
  PROVE  /\ UNCHANGED <<mem, block, kills>> /\ Lengthens /\ ReaderInv'
         /\ rpc = "idle" /\ rpc' = "find"
<1>1. /\ rpc = "idle" /\ rpc' = "find" /\ rop' = "read" /\ rkey' = k /\ Reader!Load
      /\ UNCHANGED <<mem, block, kills>>
  BY DEF Reader!StartLookup
<1>2. Lengthens /\ rmapped' \in Int
  BY <1>1, ReaderSizes DEF ReaderInv
<1> QED  BY <1>1, <1>2 DEF ReaderInv
-----------------------------------------------------------------------------
(* What the other processes see of a reader is a longer file.              *)
LEMMA OthersKept ==
  ASSUME TypeInv, IndexInv, LedgerInv, Lengthens, UNCHANGED <<mem, block, kills, toolVars>>
  PROVE  /\ TypeInv' /\ IndexInv' /\ LedgerInv' /\ Indexed' = Indexed
         /\ \A k \in FileIds : BucketHead(k)' = BucketHead(k)
<1>1. UNCHANGED <<mapped, op, pc, key, pos, prev, cur, meta, step, ret>>
  BY DEF toolVars
<1>2. TypeInv'
  BY <1>1 DEF TypeInv, TypeOK, StepOK, Lengthens
<1>3. IndexInv'
  BY <1>1, <1>2, StretchStep DEF Lengthens
<1>4. Indexed' = Indexed /\ \A k : BucketHead(k)' = BucketHead(k)
  BY DEF Indexed, BucketHead
<1>5. IdPending' <=> IdPending
  BY <1>1 DEF IdPending, Writing
<1>6. \A pcs : Taken(pcs)' = Taken(pcs)
  BY <1>1, <1>5 DEF Taken
<1>7. NodeSizesInv' /\ IdsInv' /\ CountInv' /\ OffsetInv' /\ BalanceInv'
  BY <1>1, <1>4, <1>5
     DEF LedgerInv, Books, NodeSizesInv, IdsInv, CountInv, OffsetInv, BalanceInv, Owing, Due,
         Writing, FinalVersion, FinalFiles, FinalSeqNo, FinalSize, FinalDeleted,
         FinalDelSize, FinalOffset
<1>8. BytesInv' /\ NodesInv'
  BY <1>1, <1>4, <1>6 DEF LedgerInv, Books, BytesInv, NodesInv, Writing
<1> QED  BY <1>2, <1>3, <1>4, <1>7, <1>8 DEF LedgerInv, Books

(* A step of a tool that changes the block keeps its invariants; a file    *)
(* appears and goes when its node is linked and unlinked, and keeps it in  *)
(* between.                                                                *)
LEMMA WriterFiles ==
  ASSUME EarlyBlock, FullyMapped, TypeInv, IndexInv, LedgerInv, Next
  PROVE  /\ TypeInv' /\ IndexInv' /\ LedgerInv'
         /\ Indexed' = IF Links THEN Indexed \cup {key}
                       ELSE IF Unlinks THEN Indexed \ {key} ELSE Indexed
         /\ \A k \in FileIds : k \in Indexed' /\ k \in Indexed => BucketHead(k)' = BucketHead(k)
<1>1. TypeInv' /\ IndexInv' /\ LedgerInv'
  BY IndexInvStep, LedgerStep
<1>2. Booked
  BY <1>1 DEF Booked, Inductive, LedgerInv
<1>3. CASE LinkNode
  <2>1. /\ pc = "link" /\ pc' = "commit" /\ Indexed' = Indexed \cup {key} /\ key \notin Indexed
        /\ \A j \in FileIds : j # key => BucketHead(j)' = BucketHead(j)
    BY <1>2, <1>3, LinkBooks DEF LinkNode
  <2> QED  BY <1>1, <2>1 DEF Links
<1>4. CASE UnlinkNode
  <2>1. /\ pc = "unlink" /\ \A j \in FileIds : j # key => BucketHead(j)' = BucketHead(j)
        /\ IF pc' = "free" THEN Indexed' = Indexed \ {key} /\ key \in Indexed ELSE Stays
    BY <1>2, <1>4, UnlinkBooks DEF UnlinkNode
  <2> QED  BY <1>1, <2>1 DEF Links, Unlinks, Stays, SameBuckets
<1>5. CASE UpdateBlockInfo
  <2>1. pc = "update" /\ Indexed' = Indexed /\ SameBuckets
    BY <1>2, <1>5, UpdateBooks DEF UpdateBlockInfo
  <2> QED  BY <1>1, <2>1 DEF Links, Unlinks, SameBuckets
<1>6. CASE \/ Start \/ Kill \/ KillStoring
           \/ ToolStep /\ ~ (LinkNode \/ UnlinkNode \/ UpdateBlockInfo)
  <2>1. Stays
    BY <1>6, StaysStep DEF LedgerInv
  <2>2. ~ Links /\ ~ Unlinks
    <3>1. CASE Start
      BY <3>1 DEF Start, StartWrite, StartLookup, Links, Unlinks
    <3>2. CASE Kill \/ KillStoring
      BY <3>2 DEF Kill, KillStoring, Exit, Links, Unlinks
    <3>3. CASE ToolStep /\ ~ (LinkNode \/ UnlinkNode \/ UpdateBlockInfo)
      BY <3>3
         DEF ToolStep, WriteBlock, HashFindSlot, HashFindEnd, HashFindHit, HitOn, HashFindNext, PassOn,
             HashFindFails, ReuseNode, AppendNode, StoreMeta, RelinkNode, CommitOffset, Flush,
             UnlinkBehind, BypassNode, FreeNode, PushNode, ReadSegmentMeta, TakesMeta, ReadBlock,
             Links, Unlinks
    <3> QED  BY <1>6, <3>1, <3>2, <3>3
  <2> QED  BY <1>1, <2>1, <2>2 DEF Stays, SameBuckets
<1> QED  BY <1>3, <1>4, <1>5, <1>6 DEF Next

(* A node of which a part is copied is a node, of no file and not free.    *)
LEMMA CopyFiles ==
  ASSUME EarlyBlock, FullyMapped, TypeInv, IndexInv, LedgerInv, CopyPart
  PROVE  /\ TypeInv' /\ IndexInv' /\ LedgerInv' /\ Indexed' = Indexed
         /\ \A k \in FileIds : BucketHead(k)' = BucketHead(k)
         /\ ~ Links /\ ~ Unlinks
<1> USE DEF TypeInv
<1>1. /\ pc \in {"store", "free"} /\ cur \in Int /\ meta \in MetaInfo
      /\ cur + META_SIZE <= fsize
      /\ UNCHANGED <<fsize, block, mapped, op, pc, key, pos, prev, cur, meta, step, ret, kills>>
  BY DEF CopyPart, Copying, writerVars, toolVars, TypeOK
<1>2. cur \in NodeOffsets /\ Within(cur)
  <2>1. IsNodeOffset(cur)
    BY <1>1, NodeAddresses DEF IndexInv, RegistersInv, Stored, AllocatedNodes
  <2>2. Within(cur)
    BY <1>1, <2>1, Sizes DEF Within, IsNodeOffset, TypeOK
  <2> QED  BY <1>1, <2>1, <2>2, IsNode
<1>3. PICK v \in MetaInfo : mem' = WriteMeta(mem, cur, v)
  <2>1. ASSUME NEW w \in MetaInfo, Copying(cur, w)
        PROVE  \E v \in MetaInfo : mem' = WriteMeta(mem, cur, v)
    <3>1. PICK W \in SUBSET Words : mem' = WriteMeta(mem, cur, Mix(W, w, ReadMeta(mem, cur)))
      BY <2>1 DEF Copying
    <3>2. ReadMeta(mem, cur) \in MetaInfo
      BY <1>1, <1>2, ReadMetaType DEF TypeOK
    <3>3. \A u \in MetaInfo : Mix(W, w, u) \in MetaInfo
      BY DEF Mix, Words, MetaInfo
    <3> QED  BY <3>1, <3>2, <3>3
  <2>2. Inserted(meta) \in MetaInfo /\ Freed(mem, meta) \in MetaInfo
    BY <1>1, MetaTypes, StoreTypes DEF TypeOK
  <2> QED  BY <2>1, <2>2 DEF CopyPart
<1>4. TypeInv'
  BY <1>1, <1>3, WriteMetaType DEF TypeOK, StepOK
<1>5. Inductive /\ KeepsReach
  BY <1>1, <1>4 DEF Inductive, KeepsReach, Mapping, TypeOK
<1>6. /\ HeaderInv' /\ MappedInv' /\ BucketsInv' /\ FreeInv' /\ Reach' = Reach
      /\ LiveNodes' = LiveNodes /\ Indexed' = Indexed /\ AllocatedNodes' = AllocatedNodes
      /\ SameBuckets
  BY <1>1, <1>2, <1>3, <1>5, HeldNodeStep DEF Reach, Mapping
<1>7. /\ SameHeader
      /\ \A p \in NodeOffsets : p # cur => ReadMeta(mem', p) = ReadMeta(mem, p)
  BY <1>2, <1>3, NodeStore
<1>8. SameCounters /\ mem'[INDEX_FILE_SIZE] = mem[INDEX_FILE_SIZE]
  BY <1>7, HeaderAddresses DEF SameHeader, SameCounters, Counters
<1>9. IndexInv'
  BY <1>1, <1>6, <1>8 DEF IndexInv, RegistersInv, TruthInv, SameBuckets, Stored
<1>10. SameFiles /\ cur \notin LiveNodes
  BY <1>1, <1>6, <1>7, LiveView
     DEF SameFiles, IndexInv, RegistersInv, Stored, AllocatedNodes
<1>11. Booked
  BY <1>5, <1>9 DEF Booked, LedgerInv
<1>12. BooksKept
  <2>1. kills' \in {kills, kills + 1} /\ SameDebt
    BY <1>1, CounterTypes DEF SameDebt, Owing
  <2>2. CountsKept /\ (kills' = 0 => FinalSeqNo' = FinalSeqNo)
    BY <1>6, <1>8, <1>11, <2>1, SameCounts
  <2>3. (IdPending' <=> IdPending) /\ \A pcs : Taken(pcs)' = Taken(pcs)
    BY <1>1 DEF IdPending, Writing, Taken
  <2>4. IdsInv'
    BY <1>1, <1>6, <1>8, <1>11, <2>1, <2>2, <2>3, IdsKept
  <2>5. BytesInv'
    <3>1. /\ \E c \in 0 .. mem'[SEQ_NO] - 1 + kills' + Taken({})' :
               mem'[DATA_FILE_OFFSET] = FileSize * c
          /\ \A k \in Indexed : \E o \in DataOffsets :
               /\ block'[o] = k
               /\ \/ o < mem'[DATA_FILE_OFFSET]
                  \/ /\ o = mem'[DATA_FILE_OFFSET] /\ k = mem'[SEQ_NO]
                     /\ ~ (Writing /\ pc = "update")'
      BY <1>1, <1>8, <1>11, <2>1, <2>3, SlotsKept, CounterTypes DEF Taken
    <3> QED
      BY <1>1, <1>6, <1>8, <3>1
         DEF BytesInv, LedgerInv, Books, Writing, SameCounters, Counters
  <2>6. NodesInv'
    BY <1>1, <1>8, <1>11, <2>1, <2>3, NodesKept, CounterTypes DEF Taken
  <2>7. NodeSizesInv'
    BY <1>1, <1>10, <1>11, FilesKept DEF NodeSizesInv, LedgerInv, Books, Writing
  <2> QED  BY <2>2, <2>4, <2>5, <2>6, <2>7 DEF BooksKept, CountsKept, Books
<1> QED
  BY <1>1, <1>4, <1>6, <1>9, <1>12
     DEF LedgerInv, BooksKept, SameBuckets, Links, Unlinks
-----------------------------------------------------------------------------
(* Setting the length is lengthening it, unless the file is cut off.       *)
LEMMA TruncateStep ==
  ASSUME TypeInv, NEW n \in Int, n <= Capacity, Truncates(n), ~ cut'
  PROVE  Lengthens /\ UNCHANGED <<mem, block, kills>>
<1>1. fsize \in FirstMap .. Capacity /\ FirstMap \in Int /\ Capacity \in Int
  BY Sizes DEF TypeInv, TypeOK
<1>2. fsize' = n /\ n >= fsize
  <2>1. fsize' = n /\ ~ (n < fsize)
    BY Zenon DEF Truncates
  <2> QED  BY <1>1, <2>1
<1>3. mem' = mem
  <2>1. mem \in [Addr -> Int] /\ Addr \subseteq Int
    BY DEF TypeInv, TypeOK, Addr
  <2>2. mem' = [a \in Addr |-> mem[a]]
    BY <1>1, <1>2, <2>1 DEF Truncates
  <2> QED  BY <2>1, <2>2
<1> QED  BY <1>1, <1>2, <1>3 DEF Truncates, Lengthens

(* The reader goes on where it is, and the index is what it was to it.     *)
LEMMA SeenStays ==
  ASSUME ReaderInv, SeenInv, History, files' = Indexed',
         UNCHANGED <<rpc, rkey, rpos, rret, rcopy>>,
         \A k \in FileIds : k \in Indexed' /\ k \in Indexed => BucketHead(k)' = BucketHead(k)
  PROVE  SeenInv'
<1>1. rpc # "idle" => seen \subseteq seen' /\ (rkey' \in files') \in seen'
  BY DEF History
<1>2. rpc = "idle" => seen' = seen
  BY DEF History
<1>3. rpc # "idle" => IF rkey' \in files' THEN TRUE \in seen' ELSE FALSE \in seen'
  <2>1. CASE rkey' \in files'
    <3>1. (rkey' \in files') = TRUE
      BY <2>1
    <3> QED  BY <1>1, <2>1, <3>1
  <2>2. CASE rkey' \notin files'
    <3>1. (rkey' \in files') = FALSE
      BY <2>2
    <3> QED  BY <1>1, <2>2, <3>1
  <2> QED  BY <2>1, <2>2
<1>4. \A w, v : Differs(w, v)' <=> Differs(w, v)
  BY DEF Differs
<1> QED  BY <1>1, <1>2, <1>3, <1>4 DEF SeenInv, ReaderInv
-----------------------------------------------------------------------------
(* Every step, whosever it is, keeps the invariant: until the file is cut  *)
(* off, the reader has seen what it will report.                           *)
RaceIInv == (~ cut => TypeInv) /\ RaceInv

LEMMA RaceStep ==
  ASSUME EarlyBlock, FullyMapped, RaceIInv, ReadLinearizable, [RaceNext]_raceVars
  PROVE  RaceIInv' /\ ReadLinearizable'
<1>1. CASE UNCHANGED raceVars
  <2>1. UNCHANGED <<mem, fsize, block, kills, toolVars, runVars, rtodo, rcopy, wtodo, cut, files, seen>>
    BY <1>1 DEF raceVars, writerVars, readerVars, historyVars
  <2>2. ReadLinearizable'
    BY <2>1 DEF ReadLinearizable, runVars
  <2>3. ASSUME ~ cut PROVE RaceIInv'
    <3>1. Lengthens
      BY <2>1, <2>3, Sizes DEF Lengthens, RaceIInv, TypeInv, TypeOK
    <3>2. /\ TypeInv' /\ IndexInv' /\ LedgerInv' /\ Indexed' = Indexed
          /\ \A k \in FileIds : BucketHead(k)' = BucketHead(k)
      BY <2>1, <2>3, <3>1, OthersKept DEF RaceIInv, RaceInv
    <3>3. UNCHANGED <<rmapped, rop, rpc, rkey, rpos, rret>>
      BY <2>1 DEF runVars
    <3>4. ReaderInv' /\ SeenInv'
      BY <2>1, <2>3, <3>2, <3>3 DEF RaceIInv, RaceInv, ReaderInv, SeenInv, Differs
    <3> QED  BY <2>1, <2>3, <3>2, <3>4 DEF RaceIInv, RaceInv
  <2> QED  BY <2>1, <2>2, <2>3 DEF RaceIInv, RaceInv
<1>2. CASE ~ UNCHANGED raceVars
  <2>1. ~ cut /\ (ReaderRuns \/ OthersRun)
    BY <1>2 DEF RaceNext, Stopped, ReaderRuns, OthersRun
  <2>2. /\ TypeInv /\ IndexInv /\ LedgerInv /\ ReaderInv /\ SeenInv /\ History
        /\ wtodo \in Int /\ wtodo <= Capacity /\ PerMap \in Int /\ MaxMap \in Int
    BY <2>1, Sizes DEF RaceIInv, RaceInv, ReaderRuns, OthersRun, TypeInv, TypeOK
  <2> USE <2>1, <2>2
  <2>3. CASE WriterMoves
    <3>1. Next /\ UNCHANGED readerVars /\ wtodo' = 0 /\ cut' = cut /\ 0 <= Capacity
      BY <2>3, Sizes DEF WriterMoves, GoesOn, Next, Start, TypeInv, TypeOK
    <3>2. /\ TypeInv' /\ IndexInv' /\ LedgerInv' /\ files' = Indexed'
          /\ \A k \in FileIds : k \in Indexed' /\ k \in Indexed => BucketHead(k)' = BucketHead(k)
      BY <3>1, WriterFiles DEF History, SeenInv
    <3>3. UNCHANGED <<rmapped, rop, rpc, rkey, rpos, rcur, rret, rtodo, rcopy>>
      BY <3>1 DEF readerVars, runVars
    <3>4. SeenInv'
      BY <3>2, <3>3, SeenStays
    <3>5. ReaderInv' /\ ReadLinearizable'
      BY <3>3 DEF ReaderInv, ReadLinearizable, History
    <3> QED  BY <3>1, <3>2, <3>4, <3>5 DEF RaceIInv, RaceInv
  <2>4. CASE CopyPart
    <3>1. /\ TypeInv' /\ IndexInv' /\ LedgerInv' /\ files' = Indexed' /\ Indexed' = Indexed
          /\ \A k \in FileIds : BucketHead(k)' = BucketHead(k)
      BY <2>4, CopyFiles DEF History, SeenInv
    <3>2. UNCHANGED <<rmapped, rop, rpc, rkey, rpos, rcur, rret, rtodo, rcopy, wtodo, cut>>
      BY <2>4 DEF CopyPart, readerVars, runVars, writerVars
    <3>3. SeenInv'
      BY <3>1, <3>2, SeenStays
    <3> QED
      BY <3>1, <3>2, <3>3 DEF RaceIInv, RaceInv, ReaderInv, ReadLinearizable, History
  <2>5. ASSUME Lengthens, UNCHANGED <<mem, block, kills, toolVars>>
        PROVE  /\ TypeInv' /\ IndexInv' /\ LedgerInv' /\ files' = Indexed' /\ Indexed' = Indexed
               /\ files' = files /\ \A k \in FileIds : BucketHead(k)' = BucketHead(k)
    <3>1. /\ TypeInv' /\ IndexInv' /\ LedgerInv' /\ Indexed' = Indexed
          /\ \A k \in FileIds : BucketHead(k)' = BucketHead(k)
      BY <2>5, OthersKept
    <3>2. files' = files
      BY <2>5 DEF History, Links, Unlinks, toolVars
    <3> QED  BY <3>1, <3>2 DEF SeenInv
  <2>6. CASE ReaderCompares \/ WriterCompares
    <3>1. /\ UNCHANGED <<mem, block, kills, fsize, toolVars, runVars, rcopy, cut>>
          /\ \/ rtodo' = rtodo
             \/ rtodo' = Wanted(rmapped) /\ Wanted(rmapped) <= Capacity
          /\ \/ wtodo' = wtodo
             \/ wtodo' = Wanted(mapped) /\ Wanted(mapped) <= Capacity
      BY <2>6
         DEF ReaderCompares, WriterCompares, ReaderShort, WriterShort, Short, readerVars, writerVars
    <3>2. Wanted(rmapped) \in Int /\ Wanted(mapped) \in Int /\ Lengthens
      BY <3>1 DEF Wanted, Smaller, ReaderInv, TypeInv, TypeOK, Lengthens
    <3>3. UNCHANGED <<rmapped, rop, rpc, rkey, rpos, rcur, rret, rcopy>>
      BY <3>1 DEF runVars
    <3>4. SeenInv'
      BY <2>5, <3>1, <3>2, <3>3, SeenStays
    <3>5. ReaderInv' /\ wtodo' \in Int /\ wtodo' <= Capacity
      BY <3>1, <3>2, <3>3 DEF ReaderInv
    <3> QED
      BY <2>5, <3>1, <3>2, <3>3, <3>4, <3>5 DEF RaceIInv, RaceInv, ReadLinearizable, History
  <2>7. CASE ReaderTruncates \/ WriterTruncates
    <3>1. /\ UNCHANGED <<toolVars, runVars, rcopy>>
          /\ Truncates(rtodo) \/ Truncates(wtodo)
          /\ rtodo' \in {0, rtodo} /\ wtodo' \in {0, wtodo} /\ 0 <= Capacity
      BY <2>7, Sizes DEF ReaderTruncates, WriterTruncates, readerVars, writerVars, TypeInv, TypeOK
    <3>2. UNCHANGED <<rmapped, rop, rpc, rkey, rpos, rcur, rret, rcopy>>
      BY <3>1 DEF runVars
    <3>3. ReadLinearizable'
      BY <3>2 DEF ReadLinearizable, History
    <3>4. ASSUME ~ cut' PROVE RaceIInv'
      <4>1. Lengthens /\ UNCHANGED <<mem, block, kills>>
        BY <3>1, <3>4, TruncateStep DEF ReaderInv
      <4>2. SeenInv'
        BY <2>5, <3>1, <3>2, <4>1, SeenStays
      <4>3. ReaderInv' /\ wtodo' \in Int /\ wtodo' <= Capacity
        BY <3>1, <3>2 DEF ReaderInv
      <4> QED  BY <2>5, <3>1, <4>1, <4>2, <4>3 DEF RaceIInv, RaceInv
    <3> QED  BY <3>3, <3>4 DEF RaceIInv, RaceInv
  <2>8. CASE ReaderCopies
    <3>1. /\ UNCHANGED <<mem, block, kills, fsize, toolVars, wtodo, rtodo, cut>>
          /\ UNCHANGED <<rmapped, rop, rpc, rkey, rpos, rcur, rret>>
      BY <2>8 DEF ReaderCopies, writerVars, runVars
    <3>2. Lengthens
      BY <3>1 DEF TypeInv, TypeOK, Lengthens
    <3>3. PICK w \in ReadWords \ DOMAIN rcopy :
            rcopy' = [x \in DOMAIN rcopy \cup {w} |->
                       IF x = w THEN ReadMeta(mem, ReaderNode)[w] ELSE rcopy[x]]
      BY <2>8 DEF ReaderCopies
    <3>4. SeenInv'
      <4>1. DOMAIN rcopy' = DOMAIN rcopy \cup {w}
        BY <3>3
      <4>2. /\ rcopy'[w] = ReadMeta(mem, ReaderNode)[w]
            /\ \A x \in DOMAIN rcopy : x # w /\ rcopy'[x] = rcopy[x]
        BY <3>3
      <4>3. ASSUME rpc = "walk", rpos # 0, Differs(w, rcopy'[w]) PROVE FALSE \in seen
        <5>1. ReaderNode = rpos /\ rkey \in FileIds
          BY <4>3 DEF ReaderNode, ReaderInv
        <5>2. ~ HasKey(ReadMeta(mem, rpos), rkey)
          BY <4>2, <4>3, <5>1 DEF Differs, HasKey
        <5>3. rkey \in files => HasKey(ReadMeta(mem, BucketHead(rkey)), rkey)
          BY <5>1, LiveView DEF IndexInv, BucketsInv, SeenInv, TypeInv
        <5> QED  BY <4>3, <5>2, <5>3 DEF SeenInv
      <4>4. rpc # "idle" => seen \subseteq seen'
        BY <3>1 DEF History
      <4>5. /\ rpc # "idle" => IF rkey' \in files' THEN TRUE \in seen' ELSE FALSE \in seen'
            /\ rpc' = "idle" => seen' = seen
        BY <2>5, <3>1, <3>2, <4>4 DEF SeenInv, History
      <4>6. \A x, v : Differs(x, v)' <=> Differs(x, v)
        BY <3>1 DEF Differs
      <4> QED
        BY <2>5, <3>1, <3>2, <4>1, <4>2, <4>3, <4>4, <4>5, <4>6 DEF SeenInv, ReaderInv
    <3> QED
      BY <2>5, <3>1, <3>2, <3>4 DEF RaceIInv, RaceInv, ReaderInv, ReadLinearizable, History
  <2>9. CASE ReaderStarts
    <3>1. /\ UNCHANGED <<mem, block, kills, toolVars, wtodo, cut>> /\ Lengthens /\ ReaderInv'
          /\ rpc = "idle" /\ rpc' = "find"
      BY <2>9, ReaderStart DEF ReaderStarts, TypeInv, writerVars
    <3>2. (rkey' \in files') \in seen'
      BY <3>1 DEF History
    <3>3. IF rkey' \in files' THEN TRUE \in seen' ELSE FALSE \in seen'
      <4>1. CASE rkey' \in files'
        <5>1. (rkey' \in files') = TRUE
          BY <4>1
        <5> QED  BY <3>2, <4>1, <5>1
      <4>2. CASE rkey' \notin files'
        <5>1. (rkey' \in files') = FALSE
          BY <4>2
        <5> QED  BY <3>2, <4>2, <5>1
      <4> QED  BY <4>1, <4>2
    <3>4. SeenInv' /\ ReadLinearizable'
      BY <2>5, <3>1, <3>3 DEF SeenInv, ReadLinearizable
    <3> QED  BY <2>5, <3>1, <3>4 DEF RaceIInv, RaceInv
  <2>10. CASE ReaderMoves
    <3>1. /\ UNCHANGED <<mem, block, kills, rkey>> /\ Lengthens /\ ReaderInv' /\ Reads
          /\ rpc # "idle" /\ rcopy' = NoWords
          /\ rpc = "walk" /\ rpos = 0 => rret' # "TFS_SUCCESS"
      BY <2>10, ReaderStep DEF TypeInv, IndexInv
    <3>2. UNCHANGED <<toolVars, wtodo, cut>>
      BY <2>10 DEF ReaderMoves, GoesOn, writerVars
    <3>3. seen \subseteq seen' /\ (rpc' = "idle" => seen' = seen)
      BY <3>1 DEF History
    <3>4. rpc' # "idle" => IF rkey' \in files' THEN TRUE \in seen' ELSE FALSE \in seen'
      BY <2>5, <3>1, <3>2, <3>3 DEF SeenInv
    <3>5. rkey \in FileIds /\ (rkey \in files <=> BucketHead(rkey) # 0)
      BY <3>1, LiveView DEF TypeInv, IndexInv, SeenInv, ReaderInv
    <3>6. BucketHead(rkey) # 0 => HasKey(ReadMeta(mem, BucketHead(rkey)), rkey)
      BY <3>5 DEF IndexInv, BucketsInv
    <3>7. \A w, v : NoWords' = NoWords /\ w \notin DOMAIN NoWords
      BY DEF NoWords
    <3>8. SeenInv' /\ ReadLinearizable'
      <4> USE <2>5, <3>1, <3>2, <3>3, <3>4, <3>5, <3>7 DEF SeenInv, ReadLinearizable
      <4>1. CASE rpc = "find" /\ rpc' = "walk" /\ rpos' = BucketHead(rkey)
        BY <4>1
      <4>2. CASE rpc = "walk" /\ rpos = 0 /\ rpc' = "idle"
        BY <4>2
      <4>3. CASE rpc = "walk" /\ rpos # 0 /\ rpc' = "walk" /\ ~ HasKey(NodeRead, rkey)
        <5>1. /\ NodeRead.lo = IF "lo" \in DOMAIN rcopy THEN rcopy["lo"] ELSE ReadMeta(mem, rpos).lo
              /\ NodeRead.hi = IF "hi" \in DOMAIN rcopy THEN rcopy["hi"] ELSE ReadMeta(mem, rpos).hi
          BY <4>3 DEF NodeRead, Mix, Words, ReaderNode
        <5>2. FALSE \in seen
          BY <3>6, <4>3, <5>1 DEF HasKey, Differs
        <5> QED  BY <4>3, <5>2
      <4>4. CASE rpc = "walk" /\ rpos # 0 /\ rpc' = "read_meta"
        BY <4>4
      <4>5. CASE rpc = "read_meta" /\ rpc' = "pread_block"
        BY <4>5
      <4>6. CASE rpc = "pread_block" /\ rpc' = "idle" /\ rret' # "EXIT_MEFA_NOT_FOUND_ERROR"
        BY <4>6
      <4>7. CASE rpc' = "idle" /\ rret' \in {"IO_ERROR", "killed"}
        BY <4>7
      <4> QED  BY <4>1, <4>2, <4>3, <4>4, <4>5, <4>6, <4>7 DEF Reads
    <3> QED  BY <2>5, <3>1, <3>2, <3>8 DEF RaceIInv, RaceInv
  <2> QED
    BY <2>3, <2>4, <2>6, <2>7, <2>8, <2>9, <2>10 DEF ReaderRuns, OthersRun
<1> QED  BY <1>1, <1>2

LEMMA RaceStarts ==
  ASSUME EarlyBlock, RaceInit
  PROVE  RaceIInv /\ ReadLinearizable
<1>1. /\ Init /\ files = {} /\ rpc = "idle" /\ rmapped = 0 /\ rret = "none"
      /\ rtodo = 0 /\ wtodo = 0
  BY DEF RaceInit, Reader!Init
<1>2. TypeInv /\ IndexInv /\ LedgerInv /\ Indexed = {} /\ 0 <= Capacity
  BY <1>1, TypeInvInit, IndexInvInit, LedgerInit, Sizes DEF TypeInv, TypeOK
<1> QED  BY <1>1, <1>2 DEF RaceIInv, RaceInv, ReaderInv, SeenInv, ReadLinearizable

(* A read that runs while files are written and deleted, without a lock,   *)
(* finds only a file that was there, and misses only one that was not, at  *)
(* some moment of its run: for every number of files, nodes and mappings,  *)
(* in whichever order the words of a node are stored and read.  A run that *)
(* cuts the index file off is followed up to there.                        *)
THEOREM ReadsLinearizable ==
  ASSUME EarlyBlock, FullyMapped
  PROVE  RaceSpec => []ReadLinearizable
<1>1. RaceInit => RaceIInv /\ ReadLinearizable
  BY RaceStarts
<1>2. RaceIInv /\ ReadLinearizable /\ [RaceNext]_raceVars => RaceIInv' /\ ReadLinearizable'
  BY RaceStep
<1> QED  BY <1>1, <1>2, PTL DEF RaceSpec

(* What a reader can do to the tools that change the block is to cut the   *)
(* index file off.  Until that happens it disturbs none of them, although  *)
(* it lengthens the file under them: nodes stay in one place, bytes and    *)
(* counters are kept.                                                      *)
THEOREM RaceSafe ==
  ASSUME EarlyBlock, FullyMapped
  PROVE  RaceSpec => [](~ cut => FreeListSound /\ CountersBalance /\ BytesKept)
<1>1. RaceInit => RaceIInv /\ ReadLinearizable
  BY RaceStarts
<1>2. RaceIInv /\ ReadLinearizable /\ [RaceNext]_raceVars => RaceIInv' /\ ReadLinearizable'
  BY RaceStep
<1>3. RaceIInv => (~ cut => FreeListSound /\ CountersBalance /\ BytesKept)
  BY FreeListView, BalanceView, BytesView DEF RaceIInv, RaceInv, LedgerInv, Books
<1> QED  BY <1>1, <1>2, <1>3, PTL DEF RaceSpec
-----------------------------------------------------------------------------
(* Why nothing is cut off before an access fails: processes map and set    *)
(* lengths of one grid, from each of which remapFile goes to the next, and *)
(* what leads to a node leads to one inside the file.  So only the store   *)
(* of a node that is appended makes the file longer, and there is one      *)
(* process that does so.                                                   *)
Grid(n)   == \E i \in Nat : n = Smaller(FirstMap + PerMap * i, MaxMap)
InFile(o) == o = 0 \/ (o \in NodeOffsets /\ o + META_SIZE <= fsize)

ReachedInv ==
  /\ \A o \in NodeOffsets : InFile(NextOf(o))
  /\ rpc = "walk" => /\ InFile(rpos)
                     /\ "next" \in DOMAIN rcopy => InFile(rcopy["next"])
  /\ rpc = "read_meta" => rcur # 0 /\ InFile(rcur)

(* Lengths and what the running tool still has to add to the file.         *)
ToolInv ==
  /\ op \in {"none", "write", "delete"}
  /\ Mapping => Grid(mapped)
  /\ Mapping /\ pc # "store" => mapped = fsize
  /\ pc = "store" => cur <= mapped
  /\ \/ mem[INDEX_FILE_SIZE] <= fsize
     \/ pc = "store" /\ cur + META_SIZE = mem[INDEX_FILE_SIZE]

TodoInv == wtodo # 0 => pc = "store" /\ wtodo = Wanted(mapped) /\ fsize < wtodo

CutInv ==
  ~ failed => /\ ~ cut /\ rtodo = 0 /\ Grid(fsize) /\ (rpc # "idle" => Grid(rmapped))
              /\ ReachedInv /\ ToolInv /\ TodoInv

LEMMA GridSteps ==
  /\ Grid(FirstMap)
  /\ \A m : Grid(m) => m \in Int /\ Grid(Wanted(m))
  /\ \A a, b : Grid(a) /\ Grid(b) /\ a < b => Wanted(a) <= b
<1>1. Grid(FirstMap)
  <2>1. FirstMap = Smaller(FirstMap + PerMap * 0, MaxMap)
    BY DEF Smaller
  <2> QED  BY <2>1 DEF Grid
<1>2. \A i \in Nat : /\ PerMap * i \in Nat
                     /\ PerMap * (i + 1) = PerMap * i + PerMap
  OBVIOUS
<1>3. ASSUME NEW m, Grid(m) PROVE m \in Int /\ Grid(Wanted(m))
  <2>1. PICK i \in Nat : m = Smaller(FirstMap + PerMap * i, MaxMap)
    BY <1>3 DEF Grid
  <2>2. m \in Int /\ Wanted(m) = Smaller(FirstMap + PerMap * (i + 1), MaxMap)
    BY <1>2, <2>1 DEF Smaller, Wanted
  <2>3. PICK j \in Nat : j = i + 1
    OBVIOUS
  <2> QED  BY <2>2, <2>3 DEF Grid
<1>4. ASSUME NEW a, NEW b, Grid(a), Grid(b), a < b PROVE Wanted(a) <= b
  <2>1. PICK i \in Nat : a = Smaller(FirstMap + PerMap * i, MaxMap)
    BY <1>4 DEF Grid
  <2>2. PICK j \in Nat : b = Smaller(FirstMap + PerMap * j, MaxMap)
    BY <1>4 DEF Grid
  <2>3. ASSUME j <= i PROVE PerMap * j <= PerMap * i
    <3>1. PICK k \in Nat : i = j + k
      BY <2>3
    <3>2. PerMap * (j + k) = PerMap * j + PerMap * k /\ PerMap * k \in Nat
      OBVIOUS
    <3> QED  BY <1>2, <3>1, <3>2
  <2>4. i + 1 <= j
    BY <1>2, <1>4, <2>1, <2>2, <2>3 DEF Smaller
  <2>5. PerMap * (i + 1) <= PerMap * j
    <3>1. PICK k \in Nat : j = (i + 1) + k
      BY <2>4
    <3>2. PerMap * ((i + 1) + k) = PerMap * (i + 1) + PerMap * k /\ PerMap * k \in Nat
      OBVIOUS
    <3> QED  BY <1>2, <3>1, <3>2
  <2> QED  BY <1>2, <2>1, <2>2, <2>5 DEF Smaller, Wanted
<1> QED  BY <1>1, <1>3, <1>4

(* What the reader is about to access is in the file, so that nobody has   *)
(* to extend it for that.                                                  *)
LEMMA ReaderQuiet ==
  ASSUME TypeInv, FullyMapped, rmapped \in Int, Grid(fsize), Grid(rmapped),
         NEW o \in Int, o + META_SIZE <= fsize
  PROVE  /\ ~ Short(o, rmapped)
         /\ \A r \in Reader!Remapped(o) : r.fsize = fsize /\ Grid(r.mapped)
<1>1. /\ fsize \in FirstMap .. Capacity /\ Capacity \in Int /\ MaxMap \in Int /\ PerMap \in Int
  BY Sizes DEF TypeInv, TypeOK
<1>2. o + META_SIZE > rmapped => Wanted(rmapped) <= fsize
  BY <1>1, GridSteps, Sizes
<1>3. ~ Short(o, rmapped)
  BY <1>1, <1>2 DEF Short, Remaps, Wanted, Smaller
<1>4. ASSUME NEW r \in Reader!Remapped(o) PROVE r.fsize = fsize /\ Grid(r.mapped)
  <2> DEFINE n == Reader!Smaller(rmapped + PerMap, MaxMap)
  <2>1. n = Wanted(rmapped) /\ n \in Int
    BY <1>1 DEF Reader!Smaller, Wanted, Smaller
  <2>2. \/ r = [mapped |-> rmapped, fsize |-> fsize]
        \/ /\ o + META_SIZE > rmapped
           /\ r \in {[mapped |-> rmapped, fsize |-> Reader!Larger(fsize, n)],
                     [mapped |-> n,      fsize |-> Reader!Larger(fsize, n)]}
    BY <1>1, SameLayout, Sizes DEF Reader!Remapped
  <2> HIDE DEF n
  <2>3. Grid(n)
    BY <2>1, GridSteps
  <2> QED  BY <1>1, <1>2, <2>1, <2>2, <2>3 DEF Reader!Larger
<1> QED  BY <1>3, <1>4

(* The node that the running tool is about to access is mapped, but for    *)
(* one that it stores, and so is the head of the free list.                *)
LEMMA WriterAt ==
  ASSUME EarlyBlock, TypeInv, IndexInv
  PROVE  /\ pc # "store" /\ WriterNode # 0 =>
              WriterNode \in NodeOffsets /\ WriterNode + META_SIZE <= mapped
         /\ InFile(mem[FREE_HEAD])
         /\ pc = "alloc" /\ mem[FREE_HEAD] # 0 => mem[FREE_HEAD] + META_SIZE <= mapped
         /\ \A k \in FileIds : InFile(BucketHead(k))
<1> DEFINE head == mem[FREE_HEAD]
<1>1. /\ fsize \in Int /\ mapped \in Int /\ Reach <= fsize
      /\ Mapping => Reach = mapped
  BY Sizes DEF TypeInv, TypeOK, Reach, Mapping, IndexInv, MappedInv
<1>2. head # 0 => head \in NodeOffsets /\ head + META_SIZE <= Reach
  <2>1. PICK S \in SUBSET AllocatedNodes :
          FreeNodes(S) /\ \A o \in S : o + META_SIZE <= Reach
    BY DEF IndexInv, FreeInv
  <2> QED  BY <2>1 DEF FreeNodes, ProperList, AllocatedNodes
<1>3. \A k \in FileIds : BucketHead(k) # 0 =>
         BucketHead(k) \in NodeOffsets /\ BucketHead(k) + META_SIZE <= Reach
  BY DEF IndexInv, BucketsInv, Stored, AllocatedNodes
<1>4. \A o \in NodeOffsets : o + META_SIZE <= Reach => o + META_SIZE <= fsize
  BY <1>1, NodeAddresses, Sizes, ReachType DEF TypeInv
<1>5. InFile(head) /\ \A k \in FileIds : InFile(BucketHead(k))
  BY <1>2, <1>3, <1>4 DEF InFile
<1>6. ASSUME pc # "store", WriterNode # 0
      PROVE  WriterNode \in NodeOffsets /\ WriterNode + META_SIZE <= mapped
  <2>1. pc \in {"walk", "alloc", "unlink", "free"}
    BY <1>6 DEF WriterNode, IndexInv, RegistersInv
  <2>2. /\ key \in FileIds /\ Mapping
        /\ pc = "walk" => WriterNode = BucketHead(key)
        /\ pc = "alloc" => WriterNode = head
        /\ pc = "unlink" => WriterNode = BucketHead(key)
        /\ pc = "free" => WriterNode = cur /\ Stored(cur)
    BY <2>1 DEF WriterNode, IndexInv, RegistersInv, Mapping
  <2> QED  BY <1>1, <1>2, <1>3, <1>6, <2>1, <2>2 DEF Stored, AllocatedNodes
<1>7. pc = "alloc" /\ head # 0 => head + META_SIZE <= mapped
  BY <1>1, <1>2 DEF Mapping
<1> QED  BY <1>5, <1>6, <1>7

(* What a step of the tool that changes the block leaves, unless an access *)
(* failed: the length of the file, and links to where links led before.    *)
Moved ==
  /\ fsize' = fsize /\ op' \in {"none", "write", "delete"}
  /\ Mapping' => mapped' = fsize
  /\ pc' = "store" => cur' <= mapped'
  /\ \/ mem'[INDEX_FILE_SIZE] <= fsize
     \/ pc' = "store" /\ cur' + META_SIZE = mem'[INDEX_FILE_SIZE]

LinksKept == \A o \in NodeOffsets : NextOf(o)' \in {0, mem[FREE_HEAD], NextOf(o)}

(* Steps that store nothing.                                               *)
LEMMA QuietMoved ==
  ASSUME ToolInv, pc # "store", pc' # "store",
         UNCHANGED <<mem, fsize, op>>, Mapping' => Mapping /\ mapped' = mapped
  PROVE  Moved /\ LinksKept
BY DEF ToolInv, Moved, LinksKept, NextOf

LEMMA FindMoves ==
  ASSUME EarlyBlock, TypeInv, IndexInv, ToolInv, ret' # "IO_ERROR",
         \/ WriteBlock \/ HashFindSlot \/ HashFindEnd \/ HashFindHit \/ HashFindNext
         \/ HashFindFails \/ Flush \/ ReadSegmentMeta \/ ReadBlock
  PROVE  Moved /\ LinksKept
<1>1. /\ pc = "walk" => pos \in Int /\ (pos # 0 => pos >= 0 /\ pos + META_SIZE <= mapped)
      /\ mapped \in Int
  <2>1. pc = "walk" => WriterNode = pos /\ pc # "store"
    BY DEF WriterNode
  <2> QED  BY <2>1, WriterAt, NodeAddresses, Sizes DEF TypeInv, TypeOK
<1>2. pc \notin {"read_meta", "pread_block"}
  BY DEF TypeInv, StepOK, ToolInv
<1>3. CASE WriteBlock
  <2>1. /\ pc = "pwrite_block" /\ pc' \in {"find", "idle"} /\ UNCHANGED <<mem, fsize, op>>
        /\ pc' = "find" => mapped' = mapped
    BY <1>3 DEF WriteBlock, Goto, Exit
  <2> QED  BY <2>1, QuietMoved DEF Mapping
<1>4. CASE HashFindSlot
  <2>1. pc = "find" /\ pc' = "walk" /\ UNCHANGED <<mem, fsize, mapped, op>>
    BY <1>4 DEF HashFindSlot, Goto, fileVars
  <2> QED  BY <2>1, QuietMoved DEF Mapping
<1>5. CASE HashFindEnd
  <2>1. /\ pc = "walk" /\ pc' \in {"alloc", "idle"} /\ UNCHANGED <<mem, fsize, op>>
        /\ pc' = "alloc" => mapped' = mapped
    BY <1>5 DEF HashFindEnd, Goto, Exit, fileVars
  <2> QED  BY <2>1, QuietMoved DEF Mapping
<1>6. CASE HashFindHit
  <2>1. pc = "walk" /\ pos # 0 /\ UNCHANGED <<mem, op>>
    BY <1>6 DEF HashFindHit, HitOn, Goto
  <2>2. CASE op = "write"
    <3>1. /\ pc' = "idle" /\ \E r \in Remapped(pos) : fsize' = r.fsize
      BY <1>6, <2>2 DEF HashFindHit, HitOn, Exit
    <3>2. fsize' = fsize
      BY <1>1, <2>1, <3>1, AccessSizes DEF TypeInv
    <3> QED  BY <2>1, <3>1, <3>2, QuietMoved DEF Mapping
  <2>3. CASE op # "write"
    <3>1. Preads(pos) /\ pc' \in {"unlink", "read_meta"}
      BY <1>6, <2>3 DEF HashFindHit, HitOn, Goto
    <3>2. fsize' = fsize /\ mapped' = mapped
      BY <1>1, <2>1, <3>1, PreadsSizes DEF TypeInv
    <3> QED  BY <2>1, <3>1, <3>2, QuietMoved DEF Mapping
  <2> QED  BY <2>2, <2>3
<1>7. CASE HashFindNext
  <2>1. pc = "walk" /\ pos # 0 /\ pc' = "walk" /\ Preads(pos) /\ UNCHANGED <<mem, op>>
    BY <1>7 DEF HashFindNext, PassOn, Goto
  <2>2. fsize' = fsize /\ mapped' = mapped
    BY <1>1, <2>1, PreadsSizes DEF TypeInv
  <2> QED  BY <2>1, <2>2, QuietMoved DEF Mapping
<1>8. CASE HashFindFails
  <2>1. pc = "walk" /\ pos # 0 /\ (ret' = "IO_ERROR" \/ pos < 0)
    BY <1>8 DEF HashFindFails, Fails, Faults, Exit
  <2> QED  BY <1>1, <2>1
<1>9. CASE Flush
  <2>1. pc = "flush" /\ pc' = "idle" /\ UNCHANGED <<mem, fsize, op>>
    BY <1>9 DEF Flush, Exit, fileVars
  <2> QED  BY <2>1, QuietMoved DEF Mapping
<1>10. CASE ReadSegmentMeta \/ ReadBlock
  BY <1>2, <1>10 DEF ReadSegmentMeta, TakesMeta, ReadBlock
<1> QED  BY <1>3, <1>4, <1>5, <1>6, <1>7, <1>8, <1>9, <1>10

(* Steps that store to the header or to a bucket.                          *)
LEMMA WordMoves ==
  ASSUME EarlyBlock, FullyMapped, TypeInv, TypeInv', IndexInv, ToolInv, ret' # "IO_ERROR",
         \/ ReuseNode \/ AppendNode \/ LinkNode \/ CommitOffset \/ UpdateBlockInfo
         \/ UnlinkNode \/ PushNode
  PROVE  Moved /\ LinksKept
<1>0. /\ fsize \in Int /\ mapped \in Int /\ mem[INDEX_FILE_SIZE] \in Int
      /\ mem[FREE_HEAD] \in Int /\ TypeOK /\ cur \in Int
  BY HeaderAddresses, Sizes DEF TypeInv, TypeOK
<1>1. ASSUME SameNodes, fsize' = fsize, pc # "store", pc' # "store", op' = op,
             Mapping' => Mapping /\ mapped' = mapped,
             mem'[INDEX_FILE_SIZE] = mem[INDEX_FILE_SIZE]
      PROVE  Moved /\ LinksKept
  BY <1>1 DEF ToolInv, Moved, LinksKept, SameNodes, NextOf
<1>2. CASE ReuseNode
  <2>1. /\ pc = "alloc" /\ mem[FREE_HEAD] # 0 /\ Preads(mem[FREE_HEAD])
        /\ cur' = mem[FREE_HEAD] /\ mem' = Popped(mem) /\ pc' = "store" /\ op' = op
    BY <1>2 DEF ReuseNode, Goto, Fails, Exit
  <2>2. mem[FREE_HEAD] + META_SIZE <= mapped /\ fsize' = fsize /\ mapped' = mapped
    BY <1>0, <2>1, WriterAt, PreadsSizes
  <2>3. SameNodes /\ mem'[INDEX_FILE_SIZE] = mem[INDEX_FILE_SIZE]
    BY <1>0, <2>1, HeaderStore, HeaderAddresses DEF Popped
  <2> QED
    BY <1>0, <2>1, <2>2, <2>3, Sizes DEF ToolInv, Moved, LinksKept, SameNodes, NextOf, Mapping
<1>3. CASE AppendNode
  <2>1. /\ pc = "alloc" /\ cur' = mem[INDEX_FILE_SIZE] /\ mem' = Grown(mem)
        /\ pc' = "store" /\ UNCHANGED <<fsize, mapped, op>>
    BY <1>3 DEF AppendNode, Goto
  <2>2. SameNodes /\ mem'[INDEX_FILE_SIZE] = mem[INDEX_FILE_SIZE] + META_SIZE
    BY <1>0, <2>1, HeaderStore, HeaderAddresses DEF Grown
  <2> QED
    BY <1>0, <2>1, <2>2, Sizes DEF ToolInv, Moved, LinksKept, SameNodes, NextOf, Mapping
<1>4. CASE LinkNode
  <2>1. pc = "link" /\ prev = 0 /\ key \in FileIds
    BY <1>4 DEF LinkNode, IndexInv, RegistersInv
  <2>2. mem' = LinkedAtHead(mem, key, cur) /\ pc' = "commit" /\ UNCHANGED <<fsize, op>>
    BY <1>4, <2>1 DEF LinkNode, Goto
  <2>3. SameNodes /\ mem'[INDEX_FILE_SIZE] = mem[INDEX_FILE_SIZE]
    BY <1>0, <2>1, <2>2, SlotStore, HeaderAddresses DEF SameHeader, IndexInv, HeaderInv
  <2> QED  BY <1>1, <2>1, <2>2, <2>3 DEF Mapping
<1>5. CASE CommitOffset \/ UpdateBlockInfo
  <2>1. /\ pc \in {"commit", "update"} /\ pc' \in {"update", "flush"} /\ UNCHANGED <<fsize, op>>
    BY <1>5 DEF CommitOffset, UpdateBlockInfo, Goto
  <2>2. PICK a \in {VERSION, FILE_COUNT, SIZE, DEL_FILE_COUNT, DEL_SIZE, SEQ_NO, DATA_FILE_OFFSET},
           x \in Int : mem' = [mem EXCEPT ![a] = x]
    BY <1>5, CounterStored DEF Inductive
  <2>3. SameNodes /\ mem'[INDEX_FILE_SIZE] = mem[INDEX_FILE_SIZE]
    BY <1>0, <2>2, HeaderStore, HeaderAddresses
  <2> QED  BY <1>1, <2>1, <2>3 DEF Mapping
<1>6. CASE UnlinkNode
  <2>1. pc = "unlink" /\ prev = 0 /\ key \in FileIds /\ cur = BucketHead(key) /\ cur # 0
    BY <1>6 DEF UnlinkNode, IndexInv, RegistersInv
  <2>2. /\ Preads(cur) /\ pc' = "free" /\ op' = op
        /\ mem' = LinkedAtHead(mem, key, ReadMeta(mem, cur).next)
    BY <1>6, <2>1 DEF UnlinkNode, Goto, Fails, Exit
  <2>3. WriterNode = cur
    BY <2>1 DEF WriterNode
  <2>4. fsize' = fsize /\ mapped' = mapped
    BY <1>0, <2>1, <2>2, <2>3, WriterAt, PreadsSizes
  <2>5. SameNodes /\ mem'[INDEX_FILE_SIZE] = mem[INDEX_FILE_SIZE]
    BY <1>0, <2>1, <2>2, SlotStore, HeaderAddresses DEF SameHeader, IndexInv, HeaderInv
  <2> QED  BY <1>1, <2>1, <2>2, <2>4, <2>5 DEF Mapping
<1>7. CASE PushNode
  <2>1. pc = "push" /\ pc' = "update" /\ mem' = [mem EXCEPT ![FREE_HEAD] = cur]
        /\ UNCHANGED <<fsize, op>>
    BY <1>7 DEF PushNode, Pushed, Goto
  <2>2. SameNodes /\ mem'[INDEX_FILE_SIZE] = mem[INDEX_FILE_SIZE]
    BY <1>0, <2>1, HeaderStore, HeaderAddresses
  <2> QED  BY <1>1, <2>1, <2>2 DEF Mapping
<1> QED  BY <1>2, <1>3, <1>4, <1>5, <1>6, <1>7

(* Steps that store a node: one that is appended is mapped when the file   *)
(* is as long as its mapping is to be, and one that is freed is anyway.    *)
LEMMA NodeMoves ==
  ASSUME EarlyBlock, FullyMapped, PerMap >= META_SIZE, TypeInv, IndexInv, ToolInv,
         ret' # "IO_ERROR", ~ Short(WriterNode, mapped),
         ~ (Remaps(WriterNode, mapped) /\ Wanted(mapped) > Capacity),
         StoreMeta \/ FreeNode
  PROVE  Moved /\ LinksKept
<1>0. /\ fsize \in Int /\ mapped \in Int /\ mem[INDEX_FILE_SIZE] \in Int
      /\ mem[FREE_HEAD] \in Int /\ cur \in Int /\ meta \in MetaInfo /\ TypeOK
      /\ fsize <= Capacity /\ Capacity \in Int
  BY HeaderAddresses, Sizes DEF TypeInv, TypeOK
<1>1. /\ pc \in {"store", "free"} /\ WriterNode = cur /\ op' = op /\ mapped <= fsize
      /\ Pwrites(cur)
      /\ pc' = IF pc = "store" THEN "link" ELSE "push"
      /\ mem' = WriteMeta(mem, cur, IF pc = "store" THEN Inserted(meta) ELSE Freed(mem, meta))
  BY DEF StoreMeta, FreeNode, FailsStoring, Exit, Goto, WriterNode, IndexInv, MappedInv, Mapping
<1>2. IsNodeOffset(cur) /\ cur \in NodeOffsets /\ cur # 0
  <2>1. pc = "free" => cur \in NodeOffsets
    BY DEF IndexInv, RegistersInv, Stored, AllocatedNodes
  <2>2. IsNodeOffset(cur)
    BY <1>1, <2>1, NodeAddresses DEF IndexInv, RegistersInv
  <2> QED  BY <1>0, <1>1, <2>2, PwritesType, IsNode, Sizes DEF IsNodeOffset
<1>3. fsize' = fsize /\ cur + META_SIZE <= fsize
  <2>1. PICK r \in Remapped(cur) :
          /\ cur + META_SIZE <= Capacity /\ mapped' = r.mapped
          /\ fsize' = Larger(r.fsize, cur + META_SIZE)
    BY <1>1 DEF Pwrites
  <2>2. CASE ~ Remaps(cur, mapped)
    <3>1. cur + META_SIZE <= mapped
      BY <1>0, <1>2, <2>1, <2>2, Sizes DEF Remaps, FullyMapped
    <3>2. r.fsize = fsize
      BY <1>0, <3>1, AccessSizes
    <3> QED  BY <1>0, <1>1, <2>1, <3>1, <3>2, Sizes DEF Larger
  <2>3. CASE Remaps(cur, mapped)
    <3>1. pc = "store" /\ cur <= mapped
      <4>1. pc # "store" => cur + META_SIZE <= mapped
        BY <1>1, <1>2, WriterAt
      <4> QED  BY <1>0, <2>3, <4>1, Sizes DEF Remaps, ToolInv
    <3>2. Wanted(mapped) <= fsize /\ Wanted(mapped) \in Int
      BY <1>0, <1>1, <2>3 DEF Short, Wanted, Smaller
    <3>3. cur + META_SIZE <= Wanted(mapped)
      BY <1>0, <2>1, <3>1, Sizes DEF Wanted, Smaller, FullyMapped
    <3>4. r.fsize = fsize
      BY <1>0, <3>2 DEF Remapped, Larger, Wanted
    <3> QED  BY <1>0, <2>1, <3>2, <3>3, <3>4, Sizes DEF Larger
  <2> QED  BY <2>2, <2>3
<1>4. /\ mem'[INDEX_FILE_SIZE] = mem[INDEX_FILE_SIZE] /\ LinksKept
  <2>1. PICK v \in MetaInfo : mem' = WriteMeta(mem, cur, v) /\ v.next \in {0, mem[FREE_HEAD]}
    <3>1. CASE pc = "store"
      <4>1. Inserted(meta) \in MetaInfo /\ Inserted(meta).next = meta.next
        BY <1>0, MetaTypes DEF Inserted, MetaInfo
      <4>2. meta.next = 0
        BY <3>1 DEF IndexInv, RegistersInv, TypeInv, StepOK
      <4> QED  BY <1>1, <3>1, <4>1, <4>2
    <3>2. CASE pc = "free"
      <4>1. Freed(mem, meta) \in MetaInfo /\ Freed(mem, meta).next = mem[FREE_HEAD]
        BY <1>0, MetaTypes DEF Freed, MetaInfo
      <4> QED  BY <1>1, <3>2, <4>1
    <3> QED  BY <1>1, <3>1, <3>2
  <2>2. /\ SameHeader /\ ReadMeta(mem', cur) = v
        /\ \A p \in NodeOffsets : p # cur => ReadMeta(mem', p) = ReadMeta(mem, p)
    BY <1>0, <1>2, <2>1, NodeStore
  <2> QED  BY <2>1, <2>2, HeaderAddresses DEF SameHeader, LinksKept, NextOf
<1> QED
  BY <1>0, <1>1, <1>3, <1>4 DEF Moved, ToolInv, Mapping

(* All steps of the tool that changes the block.                           *)
LEMMA WriterMoved ==
  ASSUME EarlyBlock, FullyMapped, PerMap >= META_SIZE, TypeInv, TypeInv', IndexInv, ToolInv,
         WriterMoves, ~ failed'
  PROVE  Moved /\ LinksKept
<1>1. /\ wtodo = 0 /\ ret' # "IO_ERROR" /\ ~ Short(WriterNode, mapped)
      /\ ~ (Remaps(WriterNode, mapped) /\ Wanted(mapped) > Capacity)
  BY DEF WriterMoves, GoesOn
<1>2. CASE StartWrite \/ \E k \in FileIds : StartLookup("delete", k)
  <2>1. /\ Load /\ mem' = mem /\ op' \in {"write", "delete"} /\ pc = "idle"
        /\ pc' \in {"pwrite_block", "find"}
    BY <1>2 DEF StartWrite, StartLookup
  <2>2. mapped' = fsize /\ fsize' = fsize
    BY <2>1, LoadSizes DEF TypeInv
  <2> QED  BY <2>1, <2>2 DEF ToolInv, Moved, LinksKept, NextOf
<1>3. pc \notin {"relink", "unlink_prev", "bypass"}
  BY DEF IndexInv, RegistersInv
<1>4. CASE ToolStep
  BY <1>1, <1>3, <1>4, FindMoves, WordMoves, NodeMoves
     DEF ToolStep, RelinkNode, UnlinkBehind, BypassNode
<1> QED  BY <1>2, <1>4 DEF WriterMoves

(* Words of a node that become visible early are of the node before or     *)
(* after the store.                                                        *)
LEMMA CopyLinks ==
  ASSUME EarlyBlock, TypeInv, IndexInv, CopyPart
  PROVE  LinksKept /\ mem'[INDEX_FILE_SIZE] = mem[INDEX_FILE_SIZE]
<1>1. /\ pc \in {"store", "free"} /\ cur \in Int /\ meta \in MetaInfo /\ TypeOK
      /\ cur + META_SIZE <= fsize /\ fsize <= Capacity /\ mem[FREE_HEAD] \in Int
      /\ fsize \in Int /\ Capacity \in Int
  BY HeaderAddresses, Sizes DEF CopyPart, Copying, TypeInv, TypeOK
<1>2. cur \in NodeOffsets
  <2>1. IsNodeOffset(cur)
    BY <1>1, NodeAddresses DEF IndexInv, RegistersInv, Stored, AllocatedNodes
  <2> QED  BY <1>1, <2>1, IsNode, Sizes DEF Within, IsNodeOffset
<1>3. PICK v \in MetaInfo : Copying(cur, v) /\ v.next \in {0, mem[FREE_HEAD]}
  <2>1. CASE pc = "store"
    <3>1. Inserted(meta) \in MetaInfo /\ Inserted(meta).next = meta.next
      BY <1>1, MetaTypes DEF Inserted, MetaInfo
    <3>2. meta.next = 0
      BY <2>1 DEF IndexInv, RegistersInv, TypeInv, StepOK
    <3> QED  BY <2>1, <3>1, <3>2 DEF CopyPart
  <2>2. CASE pc = "free"
    <3>1. Freed(mem, meta) \in MetaInfo /\ Freed(mem, meta).next = mem[FREE_HEAD]
      BY <1>1, MetaTypes DEF Freed, MetaInfo
    <3> QED  BY <2>2, <3>1 DEF CopyPart
  <2> QED  BY <1>1, <2>1, <2>2
<1>4. PICK W \in SUBSET Words : mem' = WriteMeta(mem, cur, Mix(W, v, ReadMeta(mem, cur)))
  BY <1>3 DEF Copying
<1> DEFINE u == Mix(W, v, ReadMeta(mem, cur))
<1>5. u \in MetaInfo /\ u.next \in {v.next, NextOf(cur)}
  <2>1. ReadMeta(mem, cur) \in MetaInfo
    BY <1>1, <1>2, NodeAddresses, ReadMetaType DEF TypeOK
  <2> QED  BY <2>1 DEF Mix, Words, MetaInfo, NextOf
<1> HIDE DEF u
<1>6. /\ SameHeader /\ ReadMeta(mem', cur) = u
      /\ \A p \in NodeOffsets : p # cur => ReadMeta(mem', p) = ReadMeta(mem, p)
  BY <1>1, <1>2, <1>4, <1>5, NodeStore DEF u
<1> QED  BY <1>3, <1>5, <1>6, HeaderAddresses DEF SameHeader, LinksKept, NextOf

(* The reader goes from one node inside the file to another.               *)
LEMMA ReaderMoved ==
  ASSUME EarlyBlock, FullyMapped, TypeInv, IndexInv, ReaderInv, ReachedInv,
         Grid(fsize), Grid(rmapped), ReaderMoves
  PROVE  /\ mem' = mem /\ fsize' = fsize /\ (rpc' # "idle" => Grid(rmapped'))
         /\ rpc' = "walk" => InFile(rpos')
         /\ rpc' = "read_meta" => rcur' # 0 /\ InFile(rcur')
<1>1. ASSUME NEW o \in NodeOffsets, InFile(o)
      PROVE  o \in Int /\ \A r \in Reader!Remapped(o) : r.fsize = fsize /\ Grid(r.mapped)
  <2>1. o \in Int /\ o + META_SIZE <= fsize
    BY <1>1, NodeAddresses, Sizes DEF InFile, IsNodeOffset
  <2> QED  BY <2>1, ReaderQuiet DEF ReaderInv
<1>2. ASSUME NEW o \in NodeOffsets, InFile(o), Reader!Preads(o)
      PROVE  fsize' = fsize /\ Grid(rmapped')
  BY <1>1, <1>2 DEF Reader!Preads
<1>3. ASSUME NEW o \in NodeOffsets, InFile(o), Reader!Fails(o, mem)
      PROVE  mem' = mem /\ fsize' = fsize /\ rpc' = "idle"
  BY <1>1, <1>3 DEF Reader!Fails, Reader!Exit
<1>4. /\ rpc = "walk" /\ rpos # 0 => rpos \in NodeOffsets /\ InFile(rpos)
      /\ rpc = "read_meta" => rcur \in NodeOffsets /\ InFile(rcur)
      /\ rpc # "idle" => rop = "read" /\ rkey \in FileIds
  BY DEF ReachedInv, InFile, ReaderInv
<1>5. CASE Reader!HashFindSlot
  <2>1. /\ rpc = "find" /\ rpc' = "walk" /\ rpos' = mem[Reader!SlotAddr(Reader!Slot(mem, rkey))]
        /\ UNCHANGED <<mem, fsize, rmapped>>
    BY <1>5 DEF Reader!HashFindSlot, Reader!Goto, Reader!fileVars
  <2>2. rpos' = BucketHead(rkey)
    BY <2>1, SameLayout DEF BucketHead, Slot, IndexInv, HeaderInv
  <2> QED  BY <1>4, <2>1, <2>2, WriterAt
<1>6. CASE Reader!HashFindEnd
  BY <1>4, <1>6 DEF Reader!HashFindEnd, Reader!Exit, Reader!fileVars
<1>7. CASE Reader!HitOn(NodeRead)
  <2>1. /\ rpc = "walk" /\ rpos # 0 /\ Reader!Preads(rpos) /\ rcur' = rpos /\ mem' = mem
        /\ rpc' = "read_meta"
    BY <1>4, <1>7 DEF Reader!HitOn, Reader!Goto
  <2> QED  BY <1>2, <1>4, <2>1
<1>8. CASE Reader!PassOn(NodeRead)
  <2>1. /\ rpc = "walk" /\ rpos # 0 /\ Reader!Preads(rpos) /\ rpos' = NodeRead.next
        /\ rpc' = "walk" /\ mem' = mem
    BY <1>8 DEF Reader!PassOn, Reader!Goto
  <2>2. NodeRead.next = IF "next" \in DOMAIN rcopy THEN rcopy["next"] ELSE NextOf(rpos)
    BY <2>1 DEF NodeRead, Mix, Words, ReaderNode, NextOf
  <2>3. InFile(NodeRead.next)
    BY <1>4, <2>1, <2>2 DEF ReachedInv
  <2> QED  BY <1>2, <1>4, <2>1, <2>3
<1>9. CASE Reader!HashFindFails
  <2>1. rpc = "walk" /\ rpos # 0 /\ (Reader!Fails(rpos, mem) \/ Reader!Faults(rpos))
    BY <1>9 DEF Reader!HashFindFails
  <2>2. Reader!Faults(rpos) => rpc' = "idle" /\ mem' = mem /\ fsize' = fsize
    BY DEF Reader!Faults, Reader!Exit, Reader!fileVars
  <2> QED  BY <1>3, <1>4, <2>1, <2>2
<1>10. CASE Reader!TakesMeta(NodeRead)
  <2>1. rpc = "read_meta"
    BY <1>10 DEF Reader!TakesMeta
  <2>2. CASE Reader!Fails(rcur, mem)
    BY <1>3, <1>4, <2>1, <2>2
  <2>3. CASE ~ Reader!Fails(rcur, mem)
    <3>1. rpc' = "pread_block" /\ Reader!Preads(rcur) /\ mem' = mem
      BY <1>10, <2>3 DEF Reader!TakesMeta, Reader!Goto
    <3> QED  BY <1>2, <1>4, <2>1, <3>1
  <2> QED  BY <2>2, <2>3
<1>11. CASE Reader!ReadBlock
  BY <1>11 DEF Reader!ReadBlock, Reader!Exit, Reader!fileVars
<1> QED
  BY <1>5, <1>6, <1>7, <1>8, <1>9, <1>10, <1>11 DEF ReaderMoves

(* What is reached stays so by steps of which the reader notices nothing   *)
(* but a longer file.                                                      *)
LEMMA ReachedStays ==
  ASSUME EarlyBlock, TypeInv, IndexInv, ReachedInv, LinksKept, fsize' \in Int, fsize' >= fsize,
         UNCHANGED <<rpc, rpos, rcur, rcopy>>
  PROVE  ReachedInv'
<1>1. \A o : InFile(o) => o = 0 \/ (o \in NodeOffsets /\ o + META_SIZE <= fsize')
  BY NodeAddresses, Sizes DEF InFile, TypeInv, TypeOK
<1>2. ASSUME NEW o \in NodeOffsets PROVE InFile(NextOf(o))'
  <2>1. InFile(0) /\ InFile(mem[FREE_HEAD]) /\ InFile(NextOf(o))
    BY WriterAt DEF InFile, ReachedInv
  <2>2. PICK p : p = NextOf(o)' /\ InFile(p)
    BY <2>1 DEF LinksKept
  <2> QED  BY <1>1, <2>2 DEF InFile
<1>3. /\ rpc = "walk" => /\ InFile(rpos)'
                         /\ "next" \in DOMAIN rcopy => InFile(rcopy["next"])'
      /\ rpc = "read_meta" => rcur # 0 /\ InFile(rcur)'
  BY <1>1 DEF ReachedInv, InFile
<1> QED  BY <1>2, <1>3 DEF ReachedInv

LEMMA CutStep ==
  ASSUME EarlyBlock, FullyMapped, PerMap >= META_SIZE, RaceIInv, RaceIInv', CutInv,
         [RaceNext]_raceVars
  PROVE  CutInv'
<1>1. CASE UNCHANGED raceVars
  <2>1. UNCHANGED <<mem, fsize, cut, failed, mapped, op, pc, cur, rmapped, rpc, rpos, rcur,
                    rtodo, rcopy, wtodo>>
    BY <1>1 DEF raceVars, writerVars, toolVars, readerVars, runVars, historyVars
  <2>2. \A o : (InFile(o)' <=> InFile(o)) /\ NextOf(o)' = NextOf(o)
    BY <2>1 DEF InFile, NextOf
  <2>3. ReachedInv' <=> ReachedInv
    BY <2>1, <2>2 DEF ReachedInv, InFile, NextOf
  <2>4. (ToolInv' <=> ToolInv) /\ (TodoInv' <=> TodoInv) /\ (Grid(fsize)' <=> Grid(fsize))
        /\ (Grid(rmapped)' <=> Grid(rmapped))
    BY <2>1 DEF ToolInv, TodoInv, Mapping, Grid, Wanted
  <2> QED  BY <2>1, <2>3, <2>4 DEF CutInv
<1>2. CASE ~ UNCHANGED raceVars
  <2> SUFFICES ASSUME ~ failed' PROVE CutInv'
    BY DEF CutInv
  <2>1. ReaderRuns \/ OthersRun
    BY <1>2 DEF RaceNext, Stopped
  <2>2. ~ failed
    BY <2>1
       DEF ReaderRuns, OthersRun, ReaderCompares, ReaderTruncates, ReaderMoves, ReaderStarts,
           WriterCompares, WriterTruncates, WriterMoves, CopyPart, ReaderCopies, GoesOn, Truncates
  <2>3. /\ ~ cut /\ rtodo = 0 /\ Grid(fsize) /\ (rpc # "idle" => Grid(rmapped))
        /\ ReachedInv /\ ToolInv /\ TodoInv
    BY <2>2 DEF CutInv
  <2>4. /\ TypeInv /\ IndexInv /\ ReaderInv /\ fsize \in Int /\ mapped \in Int
        /\ wtodo \in Int /\ wtodo <= Capacity
    BY <2>3, Sizes DEF RaceIInv, RaceInv, TypeInv, TypeOK
  <2> USE <2>3, <2>4
  <2>5. ASSUME UNCHANGED <<fsize, rmapped>> PROVE Grid(fsize)' /\ (Grid(rmapped)' <=> Grid(rmapped))
    BY <2>5 DEF Grid
  <2>6. CASE WriterMoves
    <3>1. /\ UNCHANGED <<rmapped, rpc, rpos, rcur, rtodo, rcopy, cut>> /\ wtodo' = 0
      BY <2>6 DEF WriterMoves, GoesOn, readerVars, runVars
    <3>2. Moved /\ LinksKept
      <4>1. TypeInv'
        BY <3>1 DEF RaceIInv
      <4> QED  BY <2>6, <4>1, WriterMoved
    <3>3. ReachedInv'
      BY <3>1, <3>2, ReachedStays DEF Moved
    <3>4. ToolInv' /\ TodoInv'
      BY <3>1, <3>2 DEF Moved, ToolInv, TodoInv, Grid
    <3> QED  BY <2>5, <3>1, <3>2, <3>3, <3>4 DEF CutInv, Moved
  <2>7. CASE CopyPart
    <3>1. /\ UNCHANGED <<rmapped, rpc, rpos, rcur, rtodo, rcopy, cut, fsize, wtodo>>
          /\ UNCHANGED <<mapped, op, pc, cur>>
      BY <2>7 DEF CopyPart, readerVars, runVars, writerVars, toolVars
    <3>2. LinksKept /\ mem'[INDEX_FILE_SIZE] = mem[INDEX_FILE_SIZE]
      BY <2>7, CopyLinks
    <3>3. ReachedInv'
      BY <3>1, <3>2, ReachedStays
    <3>4. ToolInv' /\ TodoInv'
      BY <3>1, <3>2 DEF ToolInv, TodoInv, Grid, Mapping, Wanted
    <3> QED  BY <2>5, <3>1, <3>3, <3>4 DEF CutInv
  (* The others store nothing.                                             *)
  <2>8. ASSUME mem' = mem PROVE LinksKept
    BY <2>8 DEF LinksKept, NextOf
  <2>9. ASSUME UNCHANGED <<mem, fsize, mapped, op, pc, cur>> PROVE ToolInv'
    BY <2>9 DEF ToolInv, Grid, Mapping
  <2>10. CASE WriterCompares
    <3>1. /\ UNCHANGED <<rmapped, rpc, rpos, rcur, rtodo, rcopy, cut>>
          /\ UNCHANGED <<mem, fsize, mapped, op, pc, cur>>
          /\ Short(WriterNode, mapped) /\ wtodo' = Wanted(mapped)
      BY <2>10 DEF WriterCompares, WriterShort, readerVars, runVars, toolVars
    <3>2. pc = "store" /\ fsize < Wanted(mapped)
      <4>1. WriterNode # 0 /\ WriterNode + META_SIZE > mapped /\ fsize < Wanted(mapped)
        BY <3>1 DEF Short, Remaps
      <4> QED  BY <4>1, WriterAt, NodeAddresses, Sizes
    <3>3. TodoInv'
      BY <3>1, <3>2 DEF TodoInv, Wanted
    <3>4. ReachedInv'
      BY <2>8, <3>1, ReachedStays
    <3> QED  BY <2>5, <2>9, <3>1, <3>3, <3>4 DEF CutInv
  <2>11. CASE WriterTruncates
    <3>1. /\ UNCHANGED <<rmapped, rpc, rpos, rcur, rtodo, rcopy, mapped, op, pc, cur>>
          /\ wtodo' = 0 /\ Truncates(wtodo) /\ wtodo # 0
      BY <2>11 DEF WriterTruncates, Truncates, readerVars, runVars, toolVars
    <3>2. pc = "store" /\ fsize' = Wanted(mapped) /\ fsize < fsize'
      BY <3>1 DEF Truncates, TodoInv
    <3>3. ~ cut' /\ mem' = mem
      <4>1. /\ Truncates(wtodo) /\ ~ (wtodo < fsize)
        BY <3>1, <3>2 DEF Truncates
      <4>2. ~ cut'
        BY Zenon, <4>1 DEF Truncates
      <4>3. mem' = mem
        BY <3>1, <4>1, <4>2, TruncateStep
      <4> QED  BY <4>2, <4>3
    <3>4. Grid(fsize') /\ fsize' \in Int
      BY <3>1, <3>2, GridSteps DEF ToolInv, Mapping, Wanted, Smaller
    <3>5. ReachedInv'
      BY <2>8, <3>1, <3>2, <3>3, <3>4, ReachedStays
    <3>6. ToolInv' /\ TodoInv'
      <4>1. mem[INDEX_FILE_SIZE] \in Int
        BY HeaderAddresses DEF TypeInv, TypeOK
      <4> QED  BY <3>1, <3>2, <3>3, <3>4, <4>1 DEF ToolInv, TodoInv, Grid, Mapping
    <3>7. Grid(fsize)' /\ (Grid(rmapped)' <=> Grid(rmapped))
      BY <3>1, <3>4 DEF Grid
    <3> QED  BY <3>1, <3>3, <3>5, <3>6, <3>7 DEF CutInv
  <2>12. CASE ReaderCompares \/ ReaderTruncates
    <3>1. ReaderShort
      BY <2>12 DEF ReaderCompares, ReaderTruncates, Truncates
    <3>2. /\ rpc \in {"walk", "read_meta"} /\ ReaderNode # 0 /\ InFile(ReaderNode)
      BY <3>1 DEF ReaderShort, Short, Remaps, ReaderNode, ReachedInv
    <3>3. ReaderNode \in Int /\ ReaderNode + META_SIZE <= fsize
      BY <3>2, NodeAddresses DEF InFile
    <3> QED  BY <3>1, <3>2, <3>3, ReaderQuiet DEF ReaderShort, ReaderInv
  <2>13. CASE ReaderCopies
    <3>1. /\ UNCHANGED <<rmapped, rpc, rpos, rcur, rtodo, cut, wtodo>>
          /\ UNCHANGED <<mem, fsize, mapped, op, pc, cur>>
          /\ ReaderNode # 0
      BY <2>13 DEF ReaderCopies, writerVars, toolVars, runVars
    <3>2. PICK w \in ReadWords \ DOMAIN rcopy :
            rcopy' = [x \in DOMAIN rcopy \cup {w} |->
                       IF x = w THEN ReadMeta(mem, ReaderNode)[w] ELSE rcopy[x]]
      BY <2>13 DEF ReaderCopies
    <3>3. ASSUME rpc = "walk", "next" \in DOMAIN rcopy' PROVE InFile(rcopy'["next"])
      <4>1. CASE w = "next"
        <5>1. ReaderNode = rpos /\ rpos \in NodeOffsets
          BY <3>1, <3>3 DEF ReaderNode, ReachedInv, InFile
        <5>2. rcopy'["next"] = NextOf(rpos)
          BY <3>2, <4>1, <5>1 DEF NextOf
        <5> QED  BY <5>1, <5>2 DEF ReachedInv
      <4>2. CASE w # "next"
        <5>1. "next" \in DOMAIN rcopy /\ rcopy'["next"] = rcopy["next"]
          BY <3>2, <3>3, <4>2
        <5> QED  BY <3>3, <5>1 DEF ReachedInv
      <4> QED  BY <4>1, <4>2
    <3>4. ReachedInv'
      BY <3>1, <3>3 DEF ReachedInv, InFile, NextOf
    <3>5. TodoInv'
      BY <3>1 DEF TodoInv, Wanted
    <3> QED  BY <2>5, <2>9, <3>1, <3>4, <3>5 DEF CutInv
  <2>14. CASE ReaderStarts
    <3>1. PICK k \in FileIds : Reader!StartLookup("read", k)
      BY <2>14 DEF ReaderStarts
    <3>2. /\ UNCHANGED <<mem, rtodo, rcopy, cut, wtodo, mapped, op, pc, cur>>
          /\ rpc' = "find" /\ Reader!Load
      BY <2>14, <3>1 DEF ReaderStarts, Reader!StartLookup, writerVars, toolVars
    <3>3. fsize' = fsize /\ rmapped' = fsize
      BY <3>2, Sizes DEF Reader!Load, Reader!Loaded, Reader!Larger, FullyMapped, TypeInv, TypeOK
    <3>4. ReachedInv'
      BY <3>2, <3>3 DEF ReachedInv, InFile, NextOf
    <3>5. TodoInv'
      BY <3>2, <3>3 DEF TodoInv, Wanted
    <3>6. Grid(fsize)' /\ Grid(rmapped)'
      BY <3>3 DEF Grid
    <3> QED  BY <2>9, <3>2, <3>3, <3>4, <3>5, <3>6 DEF CutInv
  <2>15. CASE ReaderMoves
    <3>1. UNCHANGED <<cut, wtodo, mapped, op, pc, cur>> /\ rtodo' = 0 /\ rcopy' = NoWords
      BY <2>15 DEF ReaderMoves, GoesOn, writerVars, toolVars
    <3>2. rpc # "idle"
      BY <2>15 DEF ReaderMoves, Reader!HashFindSlot, Reader!HashFindEnd, Reader!HitOn,
                   Reader!PassOn, Reader!HashFindFails, Reader!TakesMeta, Reader!ReadBlock
    <3>3. /\ mem' = mem /\ fsize' = fsize /\ (rpc' # "idle" => Grid(rmapped'))
          /\ rpc' = "walk" => InFile(rpos')
          /\ rpc' = "read_meta" => rcur' # 0 /\ InFile(rcur')
      BY <2>15, <3>2, ReaderMoved
    <3>4. ReachedInv'
      BY <3>1, <3>3 DEF ReachedInv, InFile, NextOf, NoWords
    <3>5. TodoInv'
      BY <3>1, <3>3 DEF TodoInv, Wanted
    <3>6. Grid(fsize)' /\ (rpc' # "idle" => Grid(rmapped)')
      BY <3>3 DEF Grid
    <3> QED  BY <2>9, <3>1, <3>3, <3>4, <3>5, <3>6 DEF CutInv
  <2> QED
    BY <2>1, <2>6, <2>7, <2>10, <2>11, <2>12, <2>13, <2>14, <2>15 DEF ReaderRuns, OthersRun
<1> QED  BY <1>1, <1>2

LEMMA CutStarts ==
  ASSUME EarlyBlock, RaceInit
  PROVE  CutInv
<1>1. /\ mem = FreshIndex(1) /\ fsize = FirstMap /\ op = "none" /\ pc = "idle"
      /\ rpc = "idle" /\ rtodo = 0 /\ wtodo = 0 /\ cut = FALSE
  BY DEF RaceInit, Init, Reader!Init
<1>2. Grid(fsize)
  BY <1>1, GridSteps
<1>3. mem[INDEX_FILE_SIZE] <= fsize
  <2>1. mem[INDEX_FILE_SIZE] = NodeBase
    BY <1>1, HeaderAddresses
       DEF FreshIndex, BLOCK_ID, SEQ_NO, BUCKET_SIZE, INDEX_FILE_SIZE
  <2> QED  BY <1>1, <2>1, Sizes
<1>4. ASSUME NEW o \in NodeOffsets PROVE InFile(NextOf(o))
  <2>1. o + 16 \in Addr /\ o + 16 \in Nat /\ o + 16 >= 44
    BY NodeAddresses, Sizes DEF IsNodeOffset
  <2>2. mem[o + 16] = 0
    BY <1>1, <2>1 DEF FreshIndex, BLOCK_ID, SEQ_NO, BUCKET_SIZE, INDEX_FILE_SIZE
  <2> QED  BY <2>2, ReadMetaWords DEF InFile, NextOf
<1>5. ReachedInv
  BY <1>1, <1>4 DEF ReachedInv
<1>6. ToolInv
  BY <1>1, <1>3 DEF ToolInv, Mapping
<1> QED  BY <1>1, <1>2, <1>5, <1>6 DEF CutInv, TodoInv

(* ensureFileSize asks for the length of the index file and then sets it   *)
(* (mmap_file.cpp:113 and :120), without a lock.  For every number of      *)
(* files, nodes and mappings this makes the file shorter only once an      *)
(* access has failed, if one extension makes room for a node: until then   *)
(* no other process lengthens it between the two calls.                    *)
THEOREM CutsNothingBefore ==
  ASSUME EarlyBlock, FullyMapped, PerMap >= META_SIZE
  PROVE  RaceSpec => []CutOnlyAfterFailure
<1>1. RaceInit => RaceIInv /\ ReadLinearizable /\ CutInv
  BY RaceStarts, CutStarts
<1>2. RaceIInv /\ ReadLinearizable /\ CutInv /\ [RaceNext]_raceVars
        => RaceIInv' /\ ReadLinearizable' /\ CutInv'
  BY RaceStep, CutStep
<1>3. CutInv => CutOnlyAfterFailure
  BY DEF CutInv, CutOnlyAfterFailure
<1> QED  BY <1>1, <1>2, <1>3, PTL DEF RaceSpec
=============================================================================
