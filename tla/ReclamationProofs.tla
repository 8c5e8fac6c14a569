-------------------------- MODULE ReclamationProofs --------------------------
(***************************************************************************)
(* block_recla harms no file as long as no tool is killed: for every       *)
(* number of buckets, files and chunks.                                    *)
(***************************************************************************)
EXTENDS SpaceReclamation, IndexLedger

USE LayoutAssumption, IndexHandleAssumption, BufferAssumption

(* The number of kills never goes down.                                    *)
LEMMA KillsGrow ==
  ASSUME [ReclaNext]_allVars
  PROVE  kills' = kills \/ kills' = kills + 1
<1>1. ASSUME Next PROVE kills' = kills \/ kills' = kills + 1
  BY <1>1
     DEF Next, Start, StartWrite, StartLookup, ToolStep, WriteBlock, HashFindSlot, HashFindEnd,
         HashFindHit, HitOn, HashFindNext, PassOn, HashFindFails, ReuseNode, AppendNode, StoreMeta, LinkNode,
         RelinkNode, CommitOffset, UpdateBlockInfo, Flush, UnlinkNode, UnlinkBehind, BypassNode,
         FreeNode, PushNode, ReadSegmentMeta, TakesMeta, ReadBlock, Kill, KillStoring, Fails, FailsStoring,
         Faults, Goto
<1> QED
  BY <1>1
     DEF ReclaNext, IndexStep, StartRecla, ReclaStep, CheckDeleted, NextFile, CopyChunk,
         Truncate, ResetHeader, EndsRecla, GoesOn, Goto, allVars, vars

(* While none is: the invariant and the types.                             *)
Unkilled == EarlyBlock /\ FullyMapped /\ TypeInv /\ kills = 0 /\ kills' = 0 /\ ReclaInv

(* What block_recla's own steps have in common until it resets the header. *)
LEMMA QuietBooks ==
  ASSUME Unkilled, TypeInv', mem' = mem, block' = block,
         pc \in {"idle", "pread_block"} \cup ReclaSteps, pc # "reset",
         pc' \in {"idle", "find"} \cup ReclaSteps, op' = "recla",
         pc = "idle" \/ op = "recla"
  PROVE  /\ NodeSizesInv' /\ IdsInv' /\ CountInv' /\ BytesInv' /\ NodesInv' /\ OffsetInv'
         /\ Indexed' = Indexed /\ \A k : BucketHead(k)' = BucketHead(k)
<1> USE DEF Unkilled, ReclaInv
<1>1. ~ Owing /\ ~ Owing' /\ ~ IdPending /\ ~ IdPending'
  BY DEF Owing, IdPending, Writing, ReclaSteps
<1>2. \A i, n : Due(i, n) = 0 /\ Due(i, n)' = 0
  BY <1>1 DEF Due
<1>3. \A pcs : Taken(pcs) = 0 /\ Taken(pcs)' = 0
  BY <1>1 DEF Taken
<1>4. Indexed' = Indexed /\ \A k : BucketHead(k)' = BucketHead(k)
  BY DEF Indexed, BucketHead
<1>5. pc # "commit" /\ pc' # "commit"
  BY DEF ReclaSteps
<1>6. /\ FinalFiles' = FinalFiles /\ FinalSeqNo' = FinalSeqNo /\ FinalSize' = FinalSize
      /\ FinalDelSize' = FinalDelSize /\ FinalOffset' = FinalOffset
  BY <1>2, <1>5, CounterTypes
     DEF TypeInv, FinalFiles, FinalSeqNo, FinalSize, FinalDelSize, FinalOffset
<1>7. NodeSizesInv' /\ IdsInv' /\ CountInv' /\ OffsetInv'
  BY <1>1, <1>4, <1>6 DEF NodeSizesInv, IdsInv, CountInv, OffsetInv, Writing, ReclaSteps
<1>8. BytesInv' /\ NodesInv'
  BY <1>3, <1>4 DEF BytesInv, NodesInv, Writing, ReclaSteps
<1> QED  BY <1>4, <1>7, <1>8

(* A step of the other tools, or of what block_recla shares with them.     *)
LEMMA SharedStep ==
  ASSUME Unkilled, IndexStep(Next)
  PROVE  TypeInv' /\ ReclaInv'
<1> USE DEF Unkilled, ReclaInv
<1>1. Next /\ handed' = handed /\ loop' = (IF pc' = "idle" THEN NoLoop ELSE loop)
  BY DEF IndexStep
<1>2. pc \notin ReclaSteps /\ ~ Kill /\ ~ KillStoring
  BY <1>1
     DEF Next, Start, StartWrite, StartLookup, ToolStep, WriteBlock, HashFindSlot, HashFindEnd,
         HashFindHit, HitOn, HashFindNext, PassOn, HashFindFails, ReuseNode, AppendNode, StoreMeta, LinkNode,
         RelinkNode, CommitOffset, UpdateBlockInfo, Flush, UnlinkNode, UnlinkBehind, BypassNode,
         FreeNode, PushNode, ReadSegmentMeta, TakesMeta, ReadBlock, Kill, KillStoring, ReclaSteps
<1>3. Books
  BY <1>2 DEF Books, ReclaSteps
<1>4. TypeInv' /\ IndexInv' /\ Books'
  BY <1>1, <1>3, IndexInvStep, BooksStep DEF BooksKept
<1>5. CASE op' # "recla" \/ Start
  <2>1. pc' # "idle" => op' # "recla"
    BY <1>5 DEF Start, StartWrite, StartLookup
  <2>2. pc' \notin ReclaSteps
    BY <1>4, <1>5, <2>1 DEF TypeInv, StepOK, ReclaSteps
  <2>3. op' # "recla"
    BY <1>5 DEF Start, StartWrite, StartLookup
  <2> QED
    BY <1>1, <1>4, <2>1, <2>2, <2>3
       DEF Books, HandedInv, EmptiedInv, Reclaiming, ReclaSteps
<1>6. CASE op' = "recla" /\ ~ Start
  <2>1. ToolStep /\ op = "recla" /\ op' = op /\ key' = key
    BY <1>1, <1>2, <1>6, SameTool DEF Next
  <2>2. \/ HashFindSlot \/ HashFindEnd \/ HashFindHit \/ HashFindNext \/ HashFindFails
        \/ ReadSegmentMeta
    BY <1>2, <2>1
       DEF ToolStep, WriteBlock, ReuseNode, AppendNode, StoreMeta, LinkNode, RelinkNode,
           CommitOffset, UpdateBlockInfo, Flush, UnlinkNode, UnlinkBehind, BypassNode, FreeNode,
           PushNode, ReadBlock, TypeInv, StepOK
  <2>3. mem' = mem /\ Reclaiming /\ handed = 0
    BY <2>1, <2>2
       DEF HashFindSlot, HashFindEnd, HashFindHit, HitOn, HashFindNext, PassOn, HashFindFails, ReadSegmentMeta, TakesMeta,
           Fails, Faults, fileVars, Reclaiming, HandedInv
  <2>4. Indexed' = Indexed /\ BucketHead(key)' = BucketHead(key)
    BY <2>1, <2>3 DEF Indexed, BucketHead
  <2>5. /\ pc = "walk" => pos = BucketHead(key) /\ (pos # 0 => HasKey(ReadMeta(mem, pos), key))
        /\ pc = "read_meta" => cur = BucketHead(key) /\ cur # 0 /\ key \in FileIds
    BY <2>1, <2>3, LiveView
       DEF IndexInv, RegistersInv, BucketsInv, HandedInv, TruthInv, TypeInv
  <2>6. pc = "read_meta" => Plain(ReadMeta(mem, cur))
    BY <2>5 DEF NodeSizesInv
  <2>7. \/ pc' = "idle" /\ ret' # "TFS_SUCCESS"
        \/ pc' = "walk"
        \/ pc' = "read_meta" /\ cur' = BucketHead(key)
        \/ pc' = "pread_block" /\ Plain(meta')
    <3>1. CASE HashFindSlot
      BY <3>1 DEF HashFindSlot, Goto
    <3>2. CASE HashFindEnd
      BY <3>2, <2>1 DEF HashFindEnd, Exit
    <3>3. CASE HashFindHit
      BY <3>3, <2>1, <2>5 DEF HashFindHit, HitOn, Goto
    <3>4. CASE HashFindNext
      BY <3>4 DEF HashFindNext, PassOn, Goto
    <3>5. CASE HashFindFails
      BY <3>5 DEF HashFindFails, Fails, Faults, Exit
    <3>6. CASE ReadSegmentMeta
      BY <3>6, <2>6 DEF ReadSegmentMeta, TakesMeta, Fails, Exit, Goto
    <3> QED  BY <2>2, <3>1, <3>2, <3>3, <3>4, <3>5, <3>6
  <2>8. HandedInv'
    BY <1>1, <1>2, <2>1, <2>2, <2>3, <2>4, <2>7
       DEF HandedInv, Reclaiming, ReclaSteps, HashFindSlot, HashFindEnd, HashFindHit, HitOn,
           HashFindNext, PassOn, HashFindFails, ReadSegmentMeta, TakesMeta
  <2>9. EmptiedInv'
    BY <2>7 DEF EmptiedInv, AtRest
  <2> QED  BY <1>4, <2>8, <2>9 DEF Books
<1> QED  BY <1>5, <1>6

(* Starting block_recla, and its steps up to the reset, change nothing of  *)
(* the index.                                                              *)
LEMMA StartReclaStep ==
  ASSUME Unkilled, StartRecla
  PROVE  TypeInv' /\ ReclaInv'
<1> USE DEF Unkilled, ReclaInv
<1>1. /\ pc = "idle" /\ pc' = "check" /\ op' = "recla" /\ key' = 1 /\ Load
      /\ UNCHANGED <<mem, block, pos, prev, cur, meta, step, handed, loop>> /\ ret' = "none"
  BY DEF StartRecla, reclaVars
<1>2. mapped' = fsize /\ fsize' = fsize
  BY <1>1, LoadSizes DEF TypeInv
<1>3. TypeInv'
  BY <1>1, LoadType
     DEF TypeInv, TypeOK, StepOK, Steps, ReclaSteps, Results, SizesOK
<1>4. KeepsReach
  BY <1>1, <1>2 DEF KeepsReach, Mapping, TypeInv, TypeOK
<1>5. /\ HeaderInv' /\ MappedInv' /\ BucketsInv' /\ FreeInv' /\ RegistersInv' /\ TruthInv'
  BY <1>1, <1>3, <1>4, QuietStep DEF TypeInv, RegistersInv, TruthInv, FileIds
<1>6. /\ NodeSizesInv' /\ IdsInv' /\ CountInv' /\ BytesInv' /\ NodesInv' /\ OffsetInv'
      /\ Indexed' = Indexed
  BY <1>1, <1>3, QuietBooks DEF ReclaSteps
<1>7. HandedInv' /\ EmptiedInv'
  BY <1>1, <1>2
     DEF HandedInv, EmptiedInv, AtRest, Reclaiming, ReclaSteps
<1> QED  BY <1>3, <1>5, <1>6, <1>7 DEF IndexInv

(* Between the counters, nothing is owed.                                  *)
LEMMA ReclaCounts ==
  ASSUME TypeInv, pc \in ReclaSteps
  PROVE  /\ FinalFiles = mem[FILE_COUNT] /\ FinalSize = mem[SIZE]
         /\ FinalDelSize = mem[DEL_SIZE] /\ FinalOffset = mem[DATA_FILE_OFFSET]
<1>1. \A i, n : Due(i, n) = 0
  BY DEF Due, Owing, ReclaSteps
<1> QED
  BY <1>1, CounterTypes
     DEF TypeInv, ReclaSteps, FinalFiles, FinalSize, FinalDelSize, FinalOffset

LEMMA OwnStep ==
  ASSUME Unkilled, CheckDeleted \/ NextFile \/ CopyChunk \/ Truncate
  PROVE  TypeInv' /\ ReclaInv'
<1> USE DEF Unkilled, ReclaInv
<1>0. /\ pc \in {"check", "next_file", "pread_block", "truncate"} /\ op = "recla"
      /\ Reclaiming /\ key = 1 /\ handed = 0 /\ pc # "reset"
  BY DEF CheckDeleted, NextFile, CopyChunk, Truncate, TypeInv, StepOK, ReclaSteps,
         Reclaiming, HandedInv
<1>1. /\ Cardinality(Indexed) \in Nat /\ IsFiniteSet(Indexed)
      /\ pc # "check" => /\ loop = [NoLoop EXCEPT !.file_count = Cardinality(Indexed)]
                         /\ loop.i = 1 /\ loop.done = 0
                         /\ loop.file_count = Cardinality(Indexed)
  BY <1>0, FewFiles DEF HandedInv, NoLoop
<1>2. UNCHANGED <<mem, fsize, block, op, kills>>
  BY DEF CheckDeleted, NextFile, CopyChunk, Truncate, EndsRecla, GoesOn, Goto, fileVars
<1> DEFINE passes == /\ UNCHANGED <<key, mapped, pos, prev, cur, meta, step, ret>> /\ handed' = 0
                     /\ loop' = [NoLoop EXCEPT !.file_count = Cardinality(Indexed)]
           ends   == /\ handed' = 0 /\ key' = key /\ pc' = "idle"
                     /\ \E r \in {"EXIT_BLOCK_NOTHING_DELETED", "IO_ERROR"} : Exit(r)
<1>3. \/ passes /\ pc = "check" /\ pc' = "next_file"
      \/ passes /\ pc = "next_file" /\ pc' = "truncate" /\ Indexed = {}
      \/ passes /\ pc = "next_file" /\ pc' = "find"
      \/ passes /\ pc = "truncate" /\ pc' = "reset"
      \/ ends
  <2>1. CASE CheckDeleted
    <3>1. mem[FILE_COUNT] = Cardinality(Indexed)
      BY <2>1, ReclaCounts DEF CheckDeleted, CountInv, ReclaSteps
    <3> QED  BY <1>0, <2>1, <3>1 DEF CheckDeleted, GoesOn, Goto, EndsRecla, Exit, regVars
  <2>2. CASE NextFile
    <3>1. /\ passes /\ pc = "next_file" /\ pc' = IF AllFiles(loop) THEN "truncate" ELSE "find"
      BY <1>0, <1>1, <2>2 DEF NextFile, GoesOn, Goto, regVars, reclaVars
    <3>2. AllFiles(loop) => Indexed = {}
      BY <1>1, <3>1, FS_EmptySet DEF AllFiles
    <3> QED  BY <3>1, <3>2
  <2>3. CASE CopyChunk
    <3> DEFINE n == Smaller(BufferSize, meta.size - loop.done)
    <3>1. /\ meta.size = FileSize /\ meta.inner_offset = 0 /\ loop.done = 0
      BY <1>0, <1>1, <2>3 DEF CopyChunk, HandedInv, Plain
    <3>2. n \in Nat /\ n > 0
      BY <3>1 DEF Smaller
    <3>3. ~ (meta.inner_offset + (loop.done + n) <= handed)
      <4> HIDE DEF n
      <4> QED  BY <1>0, <3>1, <3>2
    <3>4. UNCHANGED handed /\ EndsRecla("IO_ERROR")
      BY <2>3, <3>3 DEF CopyChunk
    <3> QED  BY <1>0, <3>4 DEF EndsRecla, Exit
  <2>4. CASE Truncate
    BY <1>0, <1>1, <2>4 DEF Truncate, GoesOn, Goto, regVars, EmptiedInv
  <2> QED  BY <2>1, <2>2, <2>3, <2>4
<1>4. CASE ends
  <2>1. PICK r \in {"EXIT_BLOCK_NOTHING_DELETED", "IO_ERROR"} : Exit(r)
    BY <1>4
  <2>2. TypeInv'
    <3>1. r \in Results
      BY DEF Results
    <3> QED  BY <1>2, <1>4, <2>1, <3>1, ExitType DEF TypeInv, TypeOK
  <2>3. IndexInv'
    <3>1. fsize' >= fsize
      BY <1>2 DEF TypeInv, TypeOK
    <3> QED  BY <1>2, <2>1, <2>2, <3>1, QuietExit DEF TypeInv
  <2>4. NodeSizesInv' /\ IdsInv' /\ CountInv' /\ BytesInv' /\ NodesInv' /\ OffsetInv'
    BY <1>0, <1>2, <1>4, <2>2, QuietBooks DEF ReclaSteps
  <2>5. HandedInv' /\ EmptiedInv'
    BY <1>4, <2>1
       DEF HandedInv, EmptiedInv, Reclaiming, ReclaSteps, Exit
  <2> QED  BY <2>2, <2>3, <2>4, <2>5
<1>5. CASE passes /\ ~ ends
  <2>1. pc \in ReclaSteps /\ pc' \in {"next_file", "truncate", "find", "reset"} /\ step' = 1
    BY <1>3, <1>5 DEF TypeInv, StepOK, ReclaSteps
  <2>2. TypeInv'
    BY <1>0, <1>2, <1>5, <2>1 DEF TypeInv, TypeOK, StepOK, Steps, ReclaSteps
  <2>3. mapped' = fsize' /\ fsize' = fsize
    BY <1>2, <1>5, <2>1 DEF HandedInv
  <2>4. KeepsReach
    BY <2>3 DEF KeepsReach, TypeInv, TypeOK
  <2>5. IndexInv'
    <3>1. HeaderInv' /\ MappedInv' /\ BucketsInv' /\ FreeInv'
      BY <1>2, <2>1, <2>2, <2>4, QuietStep DEF TypeInv
    <3> QED
      BY <1>0, <1>2, <1>5, <2>1, <3>1 DEF IndexInv, RegistersInv, TruthInv, FileIds
  <2>6. /\ NodeSizesInv' /\ IdsInv' /\ CountInv' /\ BytesInv' /\ NodesInv' /\ OffsetInv'
        /\ Indexed' = Indexed
    BY <1>0, <1>2, <2>1, <2>2, QuietBooks DEF ReclaSteps
  <2>7. HandedInv'
    BY <1>0, <1>2, <1>5, <2>1, <2>3, <2>6 DEF HandedInv, Reclaiming, ReclaSteps
  <2>8. EmptiedInv'
    <3>1. pc' = "truncate" => mem[SIZE] = 0
      <4>1. ASSUME pc' = "truncate" PROVE FinalFiles = 0 /\ FinalSize = FileSize * 0
        BY <1>3, <1>5, <4>1, FS_EmptySet DEF CountInv
      <4> QED  BY <2>1, <4>1, ReclaCounts
    <3> QED
      BY <1>2, <1>3, <1>5, <2>1, <2>6, <3>1 DEF EmptiedInv, AtRest
  <2> QED  BY <2>2, <2>5, <2>6, <2>7, <2>8
<1> QED  BY <1>3, <1>4, <1>5

(* The reset of a block without files: offset and counters become zero.    *)
LEMMA ResetStep ==
  ASSUME Unkilled, ResetHeader
  PROVE  TypeInv' /\ ReclaInv'
<1> USE DEF Unkilled, ReclaInv
<1>0. /\ pc = "reset" /\ op = "recla" /\ Reclaiming /\ key = 1 /\ handed = 0
      /\ Indexed = {} /\ mem[SIZE] = 0 /\ step \in {1, 2, 3}
      /\ step > 1 => mem[DATA_FILE_OFFSET] = 0
  BY DEF ResetHeader, TypeInv, StepOK, ReclaSteps, Reclaiming, HandedInv, EmptiedInv
<1>1. /\ Resets(mem)[1] = <<DATA_FILE_OFFSET, 0>> /\ Resets(mem)[2] = <<DEL_FILE_COUNT, 0>>
      /\ Resets(mem)[3] = <<DEL_SIZE, 0>> /\ Len(Resets(mem)) = 3
  BY <1>0 DEF Resets
<1>2. /\ UNCHANGED <<fsize, block, handed, op, key, kills>>
      /\ \/ step < 3 /\ step' = step + 1 /\ pc' = "reset"
            /\ UNCHANGED <<mapped, pos, prev, cur, meta, ret, loop>>
         \/ step = 3 /\ Exit("TFS_SUCCESS") /\ pc' = "idle"
  BY <1>1 DEF ResetHeader, EndsRecla, Goto, Exit
<1>3. PICK a \in {DATA_FILE_OFFSET, DEL_FILE_COUNT, DEL_SIZE} :
        /\ mem' = [mem EXCEPT ![a] = 0]
        /\ step = 1 <=> a = DATA_FILE_OFFSET
        /\ step = 3 <=> a = DEL_SIZE
  <2>1. mem' = [mem EXCEPT ![Resets(mem)[step][1]] = Resets(mem)[step][2]]
    BY DEF ResetHeader
  <2>2. /\ DATA_FILE_OFFSET # DEL_FILE_COUNT /\ DATA_FILE_OFFSET # DEL_SIZE
        /\ DEL_FILE_COUNT # DEL_SIZE
    BY DEF DATA_FILE_OFFSET, DEL_FILE_COUNT, DEL_SIZE
  <2>3. CASE step = 1
    <3>1. Resets(mem)[step][1] = DATA_FILE_OFFSET /\ Resets(mem)[step][2] = 0
      BY <1>1, <2>3
    <3>2. mem' = [mem EXCEPT ![DATA_FILE_OFFSET] = 0]
      BY <2>1, <3>1, Zenon
    <3> QED  BY <2>2, <2>3, <3>2
  <2>4. CASE step = 2
    <3>1. Resets(mem)[step][1] = DEL_FILE_COUNT /\ Resets(mem)[step][2] = 0
      BY <1>1, <2>4
    <3>2. mem' = [mem EXCEPT ![DEL_FILE_COUNT] = 0]
      BY <2>1, <3>1, Zenon
    <3> QED  BY <2>2, <2>4, <3>2
  <2>5. CASE step = 3
    <3>1. Resets(mem)[step][1] = DEL_SIZE /\ Resets(mem)[step][2] = 0
      BY <1>1, <2>5
    <3>2. mem' = [mem EXCEPT ![DEL_SIZE] = 0]
      BY <2>1, <3>1, Zenon
    <3> QED  BY <2>2, <2>5, <3>2
  <2> QED  BY <1>0, <2>3, <2>4, <2>5
<1>4. TypeInv'
  <2>1. mem' \in [Addr -> Int]
    <3>1. mem \in [Addr -> Int] /\ a \in Addr
      BY HeaderAddresses DEF TypeInv, TypeOK
    <3> QED  BY <1>3, <3>1
  <2>2. CASE pc' = "idle"
    <3>1. "TFS_SUCCESS" \in Results
      BY DEF Results
    <3> QED  BY <1>2, <2>1, <2>2, <3>1, ExitType DEF TypeInv, TypeOK
  <2>3. CASE pc' = "reset"
    BY <1>0, <1>2, <2>1, <2>3 DEF TypeInv, TypeOK, StepOK, ReclaSteps
  <2> QED  BY <1>2, <2>2, <2>3
<1>5. /\ HeaderInv' /\ MappedInv' /\ BucketsInv' /\ FreeInv'
      /\ Indexed' = {} /\ SameBuckets
  <2>1. /\ a \in {VERSION, FILE_COUNT, SIZE, DEL_FILE_COUNT, DEL_SIZE, SEQ_NO,
                 DATA_FILE_OFFSET}
        /\ a # SEQ_NO
    BY HeaderAddresses
  <2>2. /\ EarlyBlock /\ IndexInv /\ TypeOK /\ TypeOK' /\ UNCHANGED <<fsize, block>>
        /\ pc' \in {"idle", "update", "flush", "reset"} /\ 0 \in Int
    BY <1>2, <1>4 DEF TypeInv
  <2>3. mem' = [mem EXCEPT ![a] = 0]
    BY <1>3
  <2> HIDE DEF Unkilled, ReclaInv
  <2>4. /\ HeaderInv' /\ MappedInv' /\ BucketsInv' /\ FreeInv'
        /\ Indexed' = Indexed /\ SameBuckets
    BY <2>1, <2>2, <2>3, CounterStep
  <2> QED  BY <1>0, <2>4
<1>6. IndexInv'
  BY <1>0, <1>2, <1>5 DEF IndexInv, RegistersInv, TruthInv, FileIds
<1>7. /\ mem'[a] = 0 /\ \A b \in Addr : b # a => mem'[b] = mem[b]
      /\ a \in Addr /\ a < HEADER_SIZE
  BY <1>3, HeaderAddresses DEF TypeInv, TypeOK
<1>8. /\ mem'[FILE_COUNT] = mem[FILE_COUNT] /\ mem'[SIZE] = 0 /\ mem'[SEQ_NO] = mem[SEQ_NO]
      /\ mem'[INDEX_FILE_SIZE] = mem[INDEX_FILE_SIZE]
      /\ mem'[DATA_FILE_OFFSET] = 0 /\ (step = 3 => mem'[DEL_SIZE] = 0)
  BY <1>0, <1>3, <1>7, HeaderAddresses
     DEF FILE_COUNT, SIZE, SEQ_NO, INDEX_FILE_SIZE, DATA_FILE_OFFSET, DEL_FILE_COUNT, DEL_SIZE
<1>9. ~ Owing /\ ~ Owing' /\ ~ IdPending /\ ~ IdPending' /\ ~ Writing /\ ~ Writing'
  BY <1>0, <1>2 DEF Owing, IdPending, Writing
<1>10. \A i, n : Due(i, n) = 0 /\ Due(i, n)' = 0
  BY <1>9 DEF Due
<1>11. \A pcs : Taken(pcs) = 0 /\ Taken(pcs)' = 0
  BY <1>9 DEF Taken
<1>12. CountInv' /\ (pc' # "reset" => OffsetInv')
  <2>1. /\ FinalFiles' = FinalFiles /\ FinalSize = 0 /\ FinalSize' = 0
        /\ FinalOffset' = 0 /\ FinalDelSize' = mem'[DEL_SIZE]
    <3>1. /\ mem[FILE_COUNT] \in Int /\ mem'[DEL_SIZE] \in Int
      BY <1>4, HeaderAddresses DEF TypeInv, TypeOK
    <3>2. pc # "commit" /\ pc' # "commit"
      BY <1>0, <1>2
    <3> QED
      BY <1>0, <1>8, <1>9, <1>10, <3>1, <3>2
         DEF FinalFiles, FinalSize, FinalOffset, FinalDelSize
  <2> QED  BY <1>0, <1>2, <1>5, <1>8, <2>1 DEF CountInv, OffsetInv
<1>13. NodeSizesInv' /\ IdsInv'
  <2>1. \A k \in FileIds : BucketHead(k)' = 0
    BY <1>4, <1>5, <1>6, LiveViewNext DEF TypeInv, IndexInv
  <2> QED  BY <1>2, <1>5, <1>9, <2>1 DEF NodeSizesInv, IdsInv
<1>14. BytesInv'
  <2>1. 0 \in 0 .. mem'[SEQ_NO] - 1 + kills' + Taken({})' /\ FileSize * 0 = 0
    BY <1>4, <1>6, <1>8, <1>11, HeaderAddresses DEF IndexInv, HeaderInv, TypeInv, TypeOK
  <2> QED  BY <1>2, <1>5, <1>8, <1>9, <2>1 DEF BytesInv
<1>15. NodesInv'
  BY <1>8, <1>11 DEF NodesInv
<1>16. HandedInv'
  <2>1. mapped = fsize /\ loop = [NoLoop EXCEPT !.file_count = Cardinality(Indexed)]
    BY <1>0 DEF HandedInv, ReclaSteps
  <2> QED  BY <1>0, <1>2, <1>5, <2>1 DEF HandedInv, Reclaiming, ReclaSteps
<1>17. EmptiedInv'
  BY <1>0, <1>2, <1>5, <1>8 DEF EmptiedInv
<1> QED
  BY <1>4, <1>6, <1>12, <1>13, <1>14, <1>15, <1>16, <1>17

(* Every step keeps the invariant, as far as none is a kill.               *)
ReclaIInv == kills \in Nat /\ (kills = 0 => TypeInv) /\ ReclaInv

LEMMA ReclaInvStep ==
  ASSUME EarlyBlock, FullyMapped, ReclaIInv, [ReclaNext]_allVars
  PROVE  ReclaIInv'
<1>1. kills' \in Nat /\ (kills' = 0 => kills = 0)
  BY KillsGrow DEF ReclaIInv
<1>2. ASSUME kills' = 0 PROVE TypeInv' /\ ReclaInv'
  <2>1. Unkilled
    BY <1>1, <1>2 DEF ReclaIInv, Unkilled
  <2>2. CASE IndexStep(Next)
    BY <2>1, <2>2, SharedStep
  <2>3. CASE StartRecla
    BY <2>1, <2>3, StartReclaStep
  <2>4. CASE CheckDeleted \/ NextFile \/ CopyChunk \/ Truncate
    BY <2>1, <2>4, OwnStep
  <2>5. CASE ResetHeader
    BY <2>1, <2>5, ResetStep
  <2>6. CASE UNCHANGED allVars
    <3>1. /\ UNCHANGED vars /\ UNCHANGED <<handed, loop>>
      BY <2>6 DEF allVars, reclaVars
    <3>2. TypeInv' /\ IndexInv'
      BY <2>1, <3>1, IndexInvStep DEF Unkilled, ReclaInv
    <3>3. /\ Indexed' = Indexed /\ (IdPending' <=> IdPending) /\ (Owing' <=> Owing)
          /\ \A k : BucketHead(k)' = BucketHead(k)
      BY <3>1 DEF vars, Indexed, BucketHead, IdPending, Writing, Owing
    <3>4. \A pcs : Taken(pcs)' = Taken(pcs)
      BY <3>1, <3>3 DEF vars, Taken
    <3>5. /\ FinalFiles' = FinalFiles /\ FinalSeqNo' = FinalSeqNo /\ FinalSize' = FinalSize
          /\ FinalDelSize' = FinalDelSize /\ FinalOffset' = FinalOffset
      BY <3>1, <3>3
         DEF vars, Due, Writing, FinalFiles, FinalSeqNo, FinalSize, FinalDelSize, FinalOffset
    <3>6. NodeSizesInv' /\ IdsInv' /\ CountInv' /\ (pc' # "reset" => OffsetInv')
      BY <2>1, <3>1, <3>3, <3>5
         DEF vars, Unkilled, ReclaInv, NodeSizesInv, IdsInv, CountInv, OffsetInv, Writing
    <3>7. BytesInv' /\ NodesInv'
      BY <2>1, <3>1, <3>3, <3>4
         DEF vars, Unkilled, ReclaInv, BytesInv, NodesInv, Writing
    <3>8. HandedInv' /\ EmptiedInv'
      BY <2>1, <3>1, <3>3
         DEF vars, Unkilled, ReclaInv, HandedInv, EmptiedInv, AtRest,
             Reclaiming
    <3> QED  BY <3>2, <3>6, <3>7, <3>8 DEF ReclaInv
  <2> QED  BY <2>2, <2>3, <2>4, <2>5, <2>6 DEF ReclaNext, ReclaStep
<1> QED  BY <1>1, <1>2 DEF ReclaIInv, ReclaInv

LEMMA ReclaStarts ==
  ASSUME EarlyBlock, ReclaInit
  PROVE  ReclaIInv
<1>1. TypeInv /\ IndexInv /\ LedgerInv /\ pc = "idle" /\ op = "none" /\ kills = 0 /\ handed = 0
  BY TypeInvInit, IndexInvInit, LedgerInit DEF ReclaInit, Init
<1> QED
  BY <1>1
     DEF ReclaIInv, ReclaInv, LedgerInv, Books, HandedInv, EmptiedInv,
         Reclaiming, ReclaSteps

THEOREM ReclaSound ==
  ASSUME EarlyBlock, FullyMapped
  PROVE  ReclaSpec => []ReclaIInv
<1>1. ReclaInit => ReclaIInv
  BY ReclaStarts
<1>2. ReclaIInv /\ [ReclaNext]_allVars => ReclaIInv'
  BY ReclaInvStep
<1> QED  BY <1>1, <1>2, PTL DEF ReclaSpec
-----------------------------------------------------------------------------
(* While no tool is killed, every file keeps its bytes, in front of where  *)
(* the next write puts its own, also when the block was compacted.         *)
THEOREM ReclamationKeepsBytes ==
  ASSUME EarlyBlock, FullyMapped
  PROVE  ReclaSpec => []BytesKeptByReclamation
<1>1. ReclaIInv => BytesKeptByReclamation
  <2> SUFFICES ASSUME ReclaIInv, kills = 0
               PROVE  BytesKept
    BY DEF BytesKeptByReclamation
  <2>1. TypeInv /\ BytesInv
    BY DEF ReclaIInv, ReclaInv
  <2> QED  BY <2>1, BytesView
<1> QED  BY <1>1, ReclaSound, PTL

(* At rest, and as long as no tool was killed, data_file_offset_ is what   *)
(* the counters say of the files and of the deleted ones, before and after *)
(* a compaction.                                                           *)
THEOREM OffsetBalances ==
  ASSUME EarlyBlock, FullyMapped
  PROVE  ReclaSpec => []OffsetBalance
<1>1. ReclaIInv => OffsetBalance
  <2> SUFFICES ASSUME ReclaIInv, AtRest, kills = 0
               PROVE  mem[DATA_FILE_OFFSET] = mem[SIZE] + mem[DEL_SIZE]
    BY DEF OffsetBalance
  <2>1. TypeInv /\ OffsetInv
    BY DEF ReclaIInv, ReclaInv, AtRest
  <2> QED  BY <2>1, NothingOwed DEF OffsetInv
<1> QED  BY <1>1, ReclaSound, PTL

(* Nor does a compaction disturb the count of the files, the ids or the    *)
(* free list.                                                              *)
THEOREM ReclamationKeepsIndex ==
  ASSUME EarlyBlock, FullyMapped
  PROVE  ReclaSpec => [](kills = 0 => CountersAgree /\ SeqNoFree /\ FreeListSound)
<1>1. ReclaIInv => (kills = 0 => CountersAgree /\ SeqNoFree /\ FreeListSound)
  <2> SUFFICES ASSUME ReclaIInv, kills = 0
               PROVE  CountersAgree /\ SeqNoFree /\ FreeListSound
    OBVIOUS
  <2>1. TypeInv /\ IndexInv /\ CountInv /\ IdsInv
    BY DEF ReclaIInv, ReclaInv
  <2> QED  BY <2>1, AgreeView, FreeListView
<1> QED  BY <1>1, ReclaSound, PTL

(* A compaction takes and gives up no node.                                *)
LEMMA ReclaLeakStep ==
  ASSUME EarlyBlock, FullyMapped, ReclaIInv, NoLeak, [ReclaNext]_allVars
  PROVE  NoLeak'
<1>1. ReclaIInv' /\ (kills' = 0 => kills = 0)
  BY ReclaInvStep, KillsGrow DEF ReclaIInv
<1> SUFFICES ASSUME kills' = 0 PROVE NoLeak'
  BY DEF NoLeak
<1>2. TypeInv /\ IndexInv /\ Loses
  BY <1>1 DEF ReclaIInv, ReclaInv, Inductive, Loses
<1>3. CASE IndexStep(Next)
  BY <1>2, <1>3, LeakStep DEF IndexStep
<1>4. CASE StartRecla \/ CheckDeleted \/ NextFile \/ CopyChunk \/ Truncate
  <2>1. mem' = mem
    BY <1>4 DEF StartRecla, CheckDeleted, NextFile, CopyChunk, Truncate, fileVars
  <2>2. /\ pc \notin {"store", "link", "free", "push"}
        /\ pc' \notin {"store", "link", "free", "push"}
    BY <1>4 DEF StartRecla, CheckDeleted, NextFile, CopyChunk, Truncate, EndsRecla, GoesOn, Goto,
                Exit
  <2>3. Holding' = Holding
    BY <2>2 DEF Holding
  <2> QED  BY <1>2, <2>1, <2>3, SpareQuiet
<1>5. CASE ResetHeader
  <2>1. pc = "reset" /\ pc' \in {"reset", "idle"} /\ step \in {1, 2, 3}
    BY <1>1, <1>5, <1>2
       DEF ResetHeader, EndsRecla, Goto, Exit, ReclaIInv, ReclaInv, EmptiedInv
  <2>2. PICK a, x : a = Resets(mem)[step][1] /\ x = Resets(mem)[step][2]
    OBVIOUS
  <2>3. mem' = [mem EXCEPT ![a] = x]
    <3>1. mem' = [mem EXCEPT ![Resets(mem)[step][1]] = Resets(mem)[step][2]]
      BY <1>5 DEF ResetHeader
    <3> QED  BY <2>2, <3>1, Zenon
  <2>4. a \in Counters /\ x \in Int
    <3>1. mem[SIZE] \in Int
      BY <1>2, HeaderAddresses DEF TypeInv, TypeOK
    <3> QED  BY <2>1, <2>2, <3>1 DEF Resets, Counters
  <2>5. Holding' = Holding
    BY <2>1 DEF Holding
  <2> QED  BY <1>2, <2>3, <2>4, <2>5, SpareCounted
<1>6. CASE UNCHANGED allVars
  <2>1. UNCHANGED vars
    BY <1>6 DEF allVars
  <2> QED  BY <1>2, <2>1, LeakStep
<1> QED  BY <1>3, <1>4, <1>5, <1>6 DEF ReclaNext, ReclaStep

(* Nor does it lose one: while no tool is killed, every allocated node is  *)
(* in use, held by the running tool or on the free list.                   *)
THEOREM ReclamationLosesNoNode ==
  ASSUME EarlyBlock, FullyMapped
  PROVE  ReclaSpec => []NoLeak
<1>1. ReclaInit => NoLeak
  BY NothingLostYet DEF ReclaInit
<1>2. ReclaIInv /\ NoLeak /\ [ReclaNext]_allVars => NoLeak'
  BY ReclaLeakStep
<1> QED  BY <1>1, <1>2, ReclaSound, PTL DEF ReclaSpec
=============================================================================
