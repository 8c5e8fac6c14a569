--------------------------- MODULE BlockToolsProofs ---------------------------
(***************************************************************************)
(* The tools over the files of several blocks, for any set of blocks, any  *)
(* number of files and faults, and every place a creation may be cut short *)
(* at (BlockToolsAssumption names the one gap): a tool uses only the whole *)
(* index of its own block, initialised blocks stay loadable, and the       *)
(* blocks implement BlockStore.                                            *)
(***************************************************************************)
EXTENDS BlockTools, TLAPS

USE LayoutAssumption, BlockToolsAssumption

(* The words of an index of which all, or enough, bytes are there.         *)
LEMMA WordPresent ==
  ASSUME NEW o \in Nat, NEW v, NEW n \in Nat, n >= o + 4
  PROVE  WordAt(o, v, n) = v
BY DEF WordAt

LEMMA WordMissing ==
  ASSUME NEW o \in Nat, NEW v, NEW n \in Nat, n <= o
  PROVE  WordAt(o, v, n) = 0
BY DEF WordAt

LEMMA Images ==
  /\ NodeBase \in Nat /\ NodeBase >= 48 /\ BucketSize \in Nat \ {0}
  /\ \A n \in Cuts \cup {0, NodeBase} : n \in 0 .. NodeBase
  /\ FirstMap \in Nat /\ FirstMap >= HEADER_SIZE + 4 * BucketSize /\ FirstMap >= 1
<1>1. NodeBase \in Nat /\ NodeBase >= 48 /\ BucketSize \in Nat \ {0}
  BY DEF NodeBase, HANDLE_SIZE
<1> QED  BY <1>1 DEF HEADER_SIZE

(* A whole index is one whose word for its own length arrived.             *)
LEMMA FullImageIsWhole ==
  ASSUME NEW i, i.image = NodeBase
  PROVE  Whole(i)
<1>1. WordAt(INDEX_FILE_SIZE, NodeBase, NodeBase) = NodeBase
  BY Images, WordPresent DEF INDEX_FILE_SIZE
<1> QED  BY <1>1, Images DEF Whole

LEMMA NoImageIsNotWhole ==
  ASSUME NEW i, i.image = 0
  PROVE  ~ Whole(i)
BY DEF Whole

(* What load accepts was made for the block that is asked for, and whole.  *)
LEMMA AcceptedIsWhole ==
  ASSUME NEW i, NEW own \in Nat, NEW b, NEW n,
         i.image \in Cuts \cup {0, NodeBase}, Checked(i, own, b, n) = "TFS_SUCCESS"
  PROVE  b = own /\ Whole(i)
<1>1. WordAt(BUCKET_SIZE, BucketSize, i.image) = BucketSize /\ b = WordAt(BLOCK_ID, own, i.image)
  BY DEF Checked
<1>2. i.image \in Nat /\ i.image > BUCKET_SIZE
  <2>1. i.image \in Nat /\ BUCKET_SIZE \in Nat
    BY Images DEF BUCKET_SIZE
  <2>2. i.image <= BUCKET_SIZE => WordAt(BUCKET_SIZE, BucketSize, i.image) = 0
    BY <2>1, WordMissing
  <2> QED  BY <1>1, <2>1, <2>2, Images
<1>3. b = own
  <2>1. BLOCK_ID \in Nat /\ i.image >= BLOCK_ID + 4
    BY <1>2 DEF BLOCK_ID, BUCKET_SIZE
  <2> QED  BY <1>1, <1>2, <2>1, WordPresent
<1>4. Whole(i)
  <2>1. CASE i.image = NodeBase
    BY <2>1, FullImageIsWhole
  <2>2. CASE i.image \in Cuts
    BY <1>1, <1>2, <2>2 DEF Whole, BUCKET_SIZE
  <2>3. i.image # 0
    BY <1>2 DEF BUCKET_SIZE
  <2> QED  BY <2>1, <2>2, <2>3
<1> QED  BY <1>3, <1>4

(* A complete index of a block other than 0 is accepted for that block.    *)
LEMMA FullIsAccepted ==
  ASSUME NEW i, NEW b \in Nat \ {0}, NEW n \in Nat, i.image = NodeBase, n >= FirstMap
  PROVE  Checked(i, b, b, n) = "TFS_SUCCESS"
<1>1. WordAt(BUCKET_SIZE, BucketSize, NodeBase) = BucketSize
  BY Images, WordPresent DEF BUCKET_SIZE
<1>2. WordAt(BLOCK_ID, b, NodeBase) = b
  BY Images, WordPresent DEF BLOCK_ID
<1>3. ~ (n < HEADER_SIZE + 4 * BucketSize)
  BY Images DEF HEADER_SIZE
<1> QED  BY <1>1, <1>2, <1>3, Images DEF Checked
-----------------------------------------------------------------------------
(* One index file, and what IndexesInv says of it.                         *)
IndexTypes == [exists : BOOLEAN, length : Nat, image : Cuts \cup {0, NodeBase},
               files : SUBSET Nat, next : Nat]

(* A step that leaves the files of the blocks alone keeps what is known of *)
(* them, unless the run has left a half index behind.                      *)
LEMMA FilesAlone ==
  ASSUME BlockInv, UNCHANGED <<index, main>>, made' \subseteq made, faults' >= faults,
         faults' = 0 /\ pc \in {"flush", "map", "remove"} /\ job.op = "init"
           => pc' \in {"flush", "map", "remove"} /\ opened' = opened /\ job'.op = "init"
  PROVE  IndexesInv'
<1> SUFFICES ASSUME NEW b \in Ids
             PROVE  /\ index[b].length = 0 => index[b].image = 0
                    /\ ~ Whole(index[b]) => index[b].files = {} /\ index[b].next = 1
                    /\ index[b].image > 0 => main[b] = "full"
                    /\ b \in made' => /\ index[b].exists /\ index[b].image = NodeBase
                                      /\ index[b].length >= FirstMap
                    /\ faults' = 0 =>
                         \/ Created(index[b])
                         \/ b = opened' /\ job'.op = "init" /\ pc' \in {"flush", "map", "remove"}
  BY DEF IndexesInv, Whole, Created
<1>1. faults' = 0 => faults = 0
  BY DEF BlockInv, TypeInv
<1> QED  BY <1>1 DEF BlockInv, IndexesInv

(* What the index file of the block at hand may be, during a run.          *)
Fits(i) ==
  /\ i \in IndexTypes
  /\ i.length = 0 => i.image = 0
  /\ ~ Whole(i) => i.files = {} /\ i.next = 1
  /\ i.image > 0 => main[opened] = "full"
  /\ opened \in made => i.exists /\ i.image = NodeBase /\ i.length >= FirstMap

LEMMA OneIndexChanged ==
  ASSUME BlockInv, NEW i, Fits(i), index' = [index EXCEPT ![opened] = i],
         UNCHANGED <<main, made>>, faults' >= faults,
         faults' = 0 => \/ Created(i)
                        \/ opened' = opened /\ job'.op = "init" /\ pc' \in {"flush", "map", "remove"}
  PROVE  IndexesInv' /\ index' \in [Ids -> IndexTypes]
<1>1. index \in [Ids -> IndexTypes] /\ opened \in Ids /\ (faults' = 0 => faults = 0)
  BY DEF BlockInv, TypeInv, IndexTypes
<1>2. index' \in [Ids -> IndexTypes]
  BY <1>1 DEF Fits
<1>3. ASSUME NEW b \in Ids
      PROVE  /\ index'[b].length = 0 => index'[b].image = 0
             /\ ~ Whole(index'[b]) => index'[b].files = {} /\ index'[b].next = 1
             /\ index'[b].image > 0 => main'[b] = "full"
             /\ b \in made' => /\ index'[b].exists /\ index'[b].image = NodeBase
                               /\ index'[b].length >= FirstMap
             /\ faults' = 0 =>
                  \/ Created(index'[b])
                  \/ b = opened' /\ job'.op = "init" /\ pc' \in {"flush", "map", "remove"}
  <2>1. CASE b = opened
    <3>1. index'[b] = i
      BY <1>1, <2>1
    <3> QED  BY <2>1, <3>1 DEF Fits
  <2>2. CASE b # opened
    <3>1. index'[b] = index[b]
      BY <1>1, <2>2
    <3> QED  BY <1>1, <2>2, <3>1 DEF BlockInv, IndexesInv
  <2> QED  BY <2>1, <2>2
<1> QED  BY <1>2, <1>3 DEF IndexesInv, Whole, Created

(* A run that is over is bound by nothing.                                 *)
LEMMA RunOver ==
  ASSUME pc' = "idle"
  PROVE  InitRunInv' /\ UsesWholeIndex'
BY DEF InitRunInv, UsesWholeIndex

LEMMA Given ==
  ASSUME BlockInv
  PROVE  /\ index \in [Ids -> IndexTypes] /\ main \in [Ids -> {"absent", "empty", "full"}]
         /\ opened \in Ids /\ opened \in Nat /\ job.block \in Ids /\ index[opened] \in IndexTypes
         /\ index[opened].length \in Nat /\ faults \in Nat /\ size \in Nat /\ made \subseteq Ids
         /\ index[opened].image \in Cuts \cup {0, NodeBase} /\ index[opened].image \in Nat
         /\ 1 \in Ids
<1>1. /\ index \in [Ids -> IndexTypes] /\ main \in [Ids -> {"absent", "empty", "full"}]
      /\ opened \in Ids /\ job.block \in Ids /\ faults \in Nat /\ size \in Nat /\ made \subseteq Ids
  BY DEF BlockInv, TypeInv, IndexTypes
<1>2. index[opened] \in IndexTypes
  BY <1>1
<1>3. index[opened].length \in Nat /\ index[opened].image \in Cuts \cup {0, NodeBase}
  BY <1>2 DEF IndexTypes
<1> QED  BY <1>1, <1>2, <1>3, Images
-----------------------------------------------------------------------------
LEMMA StartStep ==
  ASSUME BlockInv, NEW o \in {"init", "write", "stat", "recla", "read", "delete"},
         NEW b \in Ids, NEW f \in 0 .. MaxFile, Start(o, b, f)
  PROVE  BlockInv'
<1> USE Given
<1>1. job'.op = o /\ job'.block = b /\ opened' \in {1, b} /\ (o = "init" => opened' = b)
  BY DEF Start, HandleFor, EarlyHandle
<1>2. pc' = (IF o = "init" THEN "truncate" ELSE "open") /\ pc = "idle"
  BY DEF Start
<1>3. TypeInv'
  <2>1. job' \in [op : {"none", "init", "write", "stat", "recla", "read", "delete"},
                  block : Ids, file : 0 .. MaxFile]
    BY DEF Start
  <2> QED  BY <1>1, <1>2, <2>1 DEF Start, BlockInv, TypeInv
<1>4. InitRunInv'
  BY <1>1, <1>2 DEF Start, InitRunInv
<1>5. IndexesInv'
  BY <1>2, FilesAlone DEF Start
<1>6. UsesWholeIndex'
  BY <1>2 DEF UsesWholeIndex
<1> QED  BY <1>3, <1>4, <1>5, <1>6 DEF BlockInv

LEMMA TruncateMainStep ==
  ASSUME BlockInv, TruncateMain
  PROVE  BlockInv'
<1> USE Given
<1>1. /\ pc = "truncate" /\ job.op = "init" /\ UNCHANGED <<index, size, job, opened, faults, made>>
      /\ pc' \in {"open", "exit"} /\ opened = job.block /\ job.block \notin made
  BY DEF TruncateMain, AfterTruncate, Goto, BlockInv, InitRunInv
<1>2. /\ main' \in [Ids -> {"absent", "empty", "full"}]
      /\ \A b \in Ids : main[b] = "full" => main'[b] = "full"
      /\ pc' = "open" => main'[job.block] = "full"
  BY DEF TruncateMain, AfterTruncate, Goto
<1>3. TypeInv'
  BY <1>1, <1>2 DEF BlockInv, TypeInv
<1>4. InitRunInv'
  BY <1>1, <1>2 DEF InitRunInv
<1>5. IndexesInv'
  BY <1>1, <1>2 DEF BlockInv, IndexesInv, Whole, Created
<1>6. UsesWholeIndex'
  BY <1>1 DEF UsesWholeIndex
<1> QED  BY <1>3, <1>4, <1>5, <1>6 DEF BlockInv

(* A run that ends and leaves the files of the blocks alone.               *)
LEMMA RunEnds ==
  ASSUME BlockInv, pc' = "idle", opened' = 1, size' = 0, UNCHANGED <<index, main, job, made>>,
         faults' \in Nat, faults' >= faults,
         faults' = 0 => ~ (pc \in {"flush", "map", "remove"} /\ job.op = "init")
  PROVE  BlockInv'
<1> USE Given
<1>1. TypeInv'
  BY DEF BlockInv, TypeInv
<1>2. IndexesInv'
  BY FilesAlone
<1> QED  BY <1>1, <1>2, RunOver DEF BlockInv

LEMMA TruncateFailedStep ==
  ASSUME BlockInv, TruncateFailed
  PROVE  BlockInv'
BY RunEnds, Given DEF TruncateFailed, Exit

LEMMA UseReadStep ==
  ASSUME BlockInv, UseRead
  PROVE  BlockInv'
BY RunEnds, Given DEF UseRead, Exit

LEMMA UseOtherStep ==
  ASSUME BlockInv, UseOther
  PROVE  BlockInv'
BY RunEnds, Given DEF UseOther, Exit

LEMMA CheckIndexStep ==
  ASSUME BlockInv, CheckIndex
  PROVE  BlockInv'
<1> USE Given
<1>1. pc = "check" /\ job.op # "init" /\ UNCHANGED <<index, main>>
  BY DEF CheckIndex, BlockInv, InitRunInv
<1>2. CASE /\ Checked(index[opened], opened, job.block, size) = "TFS_SUCCESS"
           /\ Goto("use") /\ UNCHANGED size
  <2>1. opened = job.block /\ Whole(index[opened])
    BY <1>2, AcceptedIsWhole
  <2>2. TypeInv'
    BY <1>1, <1>2 DEF BlockInv, TypeInv, Goto
  <2>3. InitRunInv'
    BY <1>1, <1>2 DEF InitRunInv, Goto
  <2>4. IndexesInv'
    BY <1>1, <1>2, FilesAlone DEF Goto
  <2>5. UsesWholeIndex'
    BY <1>1, <1>2, <2>1 DEF UsesWholeIndex, Goto, Whole
  <2> QED  BY <2>2, <2>3, <2>4, <2>5 DEF BlockInv
<1>3. CASE \E r : LoadFails(r)
  BY <1>1, <1>3, RunEnds DEF LoadFails, Exit
<1> QED  BY <1>2, <1>3 DEF CheckIndex

LEMMA OpenIndexStep ==
  ASSUME BlockInv, OpenIndex
  PROVE  BlockInv'
<1> USE Given
<1> DEFINE i == [index[opened] EXCEPT !.exists = TRUE]
<1>1. pc = "open" /\ UNCHANGED main
  BY DEF OpenIndex
<1>2. /\ i \in IndexTypes /\ i.exists /\ i.length = index[opened].length
      /\ i.image = index[opened].image /\ i.files = index[opened].files
      /\ i.next = index[opened].next
  BY DEF IndexTypes
<1>3. Whole(i) <=> Whole(index[opened])
  BY <1>2 DEF Whole
<1> HIDE DEF i
<1>4. CASE /\ index' = [index EXCEPT ![opened] = i]
           /\ \/ /\ job.op = "init" /\ size' = index[opened].length
                 /\ Goto(IF index[opened].length = 0 THEN "image" ELSE "remove")
              \/ /\ job.op # "init" /\ index[opened].length # 0
                 /\ Goto("map") /\ size' = index[opened].length
              \/ LoadFails("EXIT_INDEX_CORRUPT_ERROR")
  <2>1. IndexesInv' /\ index' \in [Ids -> IndexTypes] /\ index'[opened] = i
    <3>1. Fits(i) /\ (faults = 0 => Created(i))
      BY <1>1, <1>2, <1>3 DEF BlockInv, IndexesInv, Created, Fits
    <3>2. faults' = faults /\ made' = made
      BY <1>4 DEF Goto, LoadFails, Exit
    <3>3. /\ Fits(i) /\ index' = [index EXCEPT ![opened] = i] /\ UNCHANGED <<main, made>>
          /\ faults' >= faults
      BY <1>1, <1>4, <3>1, <3>2
    <3>4. faults' = 0 =>
            \/ Created(i)
            \/ opened' = opened /\ job'.op = "init" /\ pc' \in {"flush", "map", "remove"}
      BY <3>1, <3>2
    <3>5. IndexesInv' /\ index' \in [Ids -> IndexTypes]
      BY ONLY BlockInv, <3>3, <3>4, OneIndexChanged
    <3> QED  BY <1>4, <3>5
  <2>2. CASE /\ job.op = "init" /\ size' = index[opened].length
             /\ Goto(IF index[opened].length = 0 THEN "image" ELSE "remove")
    <3>1. TypeInv'
      BY <1>1, <2>1, <2>2 DEF BlockInv, TypeInv, Goto, IndexTypes
    <3>2. InitRunInv'
      BY <1>1, <1>2, <2>1, <2>2 DEF BlockInv, InitRunInv, Goto
    <3>3. UsesWholeIndex'
      BY <2>2 DEF UsesWholeIndex, Goto
    <3> QED  BY <2>1, <3>1, <3>2, <3>3 DEF BlockInv
  <2>3. CASE /\ job.op # "init" /\ index[opened].length # 0
             /\ Goto("map") /\ size' = index[opened].length
    <3>1. TypeInv'
      BY <1>1, <2>1, <2>3 DEF BlockInv, TypeInv, Goto, IndexTypes
    <3>2. InitRunInv'
      BY <1>2, <2>1, <2>3 DEF InitRunInv, Goto
    <3>3. UsesWholeIndex'
      BY <2>3 DEF UsesWholeIndex, Goto
    <3> QED  BY <2>1, <3>1, <3>2, <3>3 DEF BlockInv
  <2>4. CASE LoadFails("EXIT_INDEX_CORRUPT_ERROR")
    <3>1. pc' = "idle" /\ opened' = 1 /\ size' = 0 /\ UNCHANGED <<job, faults, made>>
      BY <2>4 DEF LoadFails, Exit
    <3>2. TypeInv'
      BY <1>1, <2>1, <3>1 DEF BlockInv, TypeInv, IndexTypes
    <3> QED  BY <2>1, <3>1, <3>2, RunOver DEF BlockInv
  <2> QED  BY <1>4, <2>2, <2>3, <2>4
<1>5. CASE /\ UNCHANGED index
           /\ \/ job.op = "init" /\ Goto("remove") /\ UNCHANGED size
              \/ LoadFails("TFS_ERROR")
  <2>1. CASE job.op = "init" /\ Goto("remove") /\ UNCHANGED size
    <3>1. TypeInv'
      BY <1>1, <1>5, <2>1 DEF BlockInv, TypeInv, Goto
    <3>2. InitRunInv'
      BY <1>1, <1>5, <2>1 DEF BlockInv, InitRunInv, Goto
    <3>3. IndexesInv'
      BY <1>1, <1>5, <2>1, FilesAlone DEF Goto
    <3>4. UsesWholeIndex'
      BY <2>1 DEF UsesWholeIndex, Goto
    <3> QED  BY <3>1, <3>2, <3>3, <3>4 DEF BlockInv
  <2>2. CASE LoadFails("TFS_ERROR")
    BY <1>1, <1>5, <2>2, RunEnds DEF LoadFails, Exit
  <2> QED  BY <1>5, <2>1, <2>2
<1> QED  BY <1>4, <1>5 DEF OpenIndex, i
-----------------------------------------------------------------------------
(* A run that ends and leaves i in its index file.                         *)
LEMMA RunEndsChanged ==
  ASSUME BlockInv, NEW i, Fits(i), index' = [index EXCEPT ![opened] = i],
         UNCHANGED <<main, job, made>>, pc' = "idle", opened' = 1, size' = 0,
         faults' \in Nat, faults' >= faults, faults' = 0 => Created(i)
  PROVE  BlockInv'
<1> USE Given
<1>1. IndexesInv' /\ index' \in [Ids -> IndexTypes]
  BY OneIndexChanged
<1>2. TypeInv'
  BY <1>1 DEF BlockInv, TypeInv, IndexTypes
<1> QED  BY <1>1, <1>2, RunOver DEF BlockInv

(* The image of a new index, of which n bytes arrive.                      *)
LEMMA CutImage ==
  ASSUME BlockInv, pc = "image", NEW n \in Cuts \cup {NodeBase}
  PROVE  \E i \in IndexTypes :
           /\ ImageCut(n) = [index EXCEPT ![opened] = i]
           /\ i.exists /\ i.length = n /\ i.image = n /\ i.files = {} /\ i.next = 1
<1> USE Given
<1> DEFINE i == [index[opened] EXCEPT !.length = n, !.image = n]
<1>1. /\ index[opened].exists /\ index[opened].files = {} /\ index[opened].next = 1
  <2>1. index[opened].length = 0 /\ index[opened].exists
    BY DEF BlockInv, InitRunInv
  <2>2. index[opened].image = 0
    BY <2>1 DEF BlockInv, IndexesInv
  <2> QED  BY <2>1, <2>2, NoImageIsNotWhole DEF BlockInv, IndexesInv
<1>2. n \in Nat
  BY Images
<1>3. /\ i \in IndexTypes /\ i.exists /\ i.length = n /\ i.image = n
      /\ i.files = {} /\ i.next = 1
  BY <1>1, <1>2 DEF IndexTypes
<1>4. ImageCut(n) = [index EXCEPT ![opened] = i]
  BY DEF ImageCut
<1> HIDE DEF i
<1> QED  BY <1>3, <1>4

LEMMA WriteImageStep ==
  ASSUME BlockInv, WriteImage
  PROVE  BlockInv'
<1> USE Given
<1>1. /\ pc = "image" /\ UNCHANGED <<main, size, job, opened, faults, made>>
      /\ job.op = "init" /\ opened = job.block /\ opened \notin made /\ main[opened] = "full"
  BY DEF WriteImage, Goto, BlockInv, InitRunInv
<1>2. PICK n \in Cuts \cup {NodeBase} :
        index' = ImageCut(n) /\ pc' \in {"flush", "remove"} /\ (pc' = "flush" => n = NodeBase)
  BY DEF WriteImage, Goto
<1>3. PICK i \in IndexTypes :
        /\ ImageCut(n) = [index EXCEPT ![opened] = i]
        /\ i.exists /\ i.length = n /\ i.image = n /\ i.files = {} /\ i.next = 1
  BY <1>1, CutImage
<1>4. IndexesInv' /\ index' \in [Ids -> IndexTypes]
  <2>1. Fits(i)
    BY <1>1, <1>3 DEF Fits
  <2>2. /\ index' = [index EXCEPT ![opened] = i] /\ UNCHANGED <<main, made>> /\ faults' >= faults
    BY <1>1, <1>2, <1>3
  <2>3. faults' = 0 =>
          \/ Created(i)
          \/ opened' = opened /\ job'.op = "init" /\ pc' \in {"flush", "map", "remove"}
    BY <1>1, <1>2
  <2> QED  BY ONLY BlockInv, <2>1, <2>2, <2>3, OneIndexChanged
<1>5. index'[opened] = i
  BY <1>2, <1>3
<1>6. TypeInv'
  BY <1>1, <1>2, <1>4 DEF BlockInv, TypeInv, IndexTypes
<1>7. InitRunInv'
  BY <1>1, <1>2, <1>3, <1>5, Images DEF BlockInv, InitRunInv
<1>8. UsesWholeIndex'
  BY <1>2 DEF UsesWholeIndex
<1> QED  BY <1>4, <1>6, <1>7, <1>8 DEF BlockInv

LEMMA FlushImageStep ==
  ASSUME BlockInv, FlushImage
  PROVE  BlockInv'
<1> USE Given
<1>1. /\ pc = "flush" /\ pc' \in {"map", "remove"} /\ job.op = "init"
      /\ UNCHANGED <<index, main, size, job, opened, faults, made>>
  BY DEF FlushImage, Goto, BlockInv, InitRunInv
<1>2. TypeInv'
  BY <1>1 DEF BlockInv, TypeInv
<1>3. IndexesInv'
  BY <1>1, FilesAlone
<1>4. InitRunInv'
  <2>1. index[opened].image = NodeBase /\ index[opened].length # 0
    BY <1>1, Images DEF BlockInv, InitRunInv, IndexesInv
  <2> QED  BY <1>1, <2>1 DEF BlockInv, InitRunInv
<1>5. UsesWholeIndex'
  BY <1>1 DEF UsesWholeIndex
<1> QED  BY <1>2, <1>3, <1>4, <1>5 DEF BlockInv

LEMMA CloseBlockStep ==
  ASSUME BlockInv, CloseBlock
  PROVE  BlockInv'
<1> USE Given
<1>1. /\ pc = "close" /\ pc' = "idle" /\ UNCHANGED <<index, main, job, faults>> /\ opened' = 1
      /\ size' = 0 /\ made' = made \cup {job.block} /\ job.op = "init" /\ opened = job.block
  BY DEF CloseBlock, Exit, BlockInv, InitRunInv
<1>2. /\ index[job.block].exists /\ index[job.block].image = NodeBase
      /\ index[job.block].length >= FirstMap
  BY <1>1 DEF BlockInv, InitRunInv
<1>3. TypeInv'
  BY <1>1 DEF BlockInv, TypeInv
<1>4. IndexesInv'
  BY <1>1, <1>2 DEF BlockInv, IndexesInv, Whole, Created
<1> QED  BY <1>1, <1>3, <1>4, RunOver DEF BlockInv

LEMMA RemoveIndexStep ==
  ASSUME BlockInv, RemoveIndex
  PROVE  BlockInv'
<1> USE Given
<1>1. /\ pc = "remove" /\ pc' = "idle" /\ opened' = 1 /\ size' = 0 /\ UNCHANGED <<main, job, made>>
      /\ opened \notin made
  BY DEF RemoveIndex, BlockInv, InitRunInv
<1>2. CASE UNCHANGED index /\ faults' = faults + 1
  BY <1>1, <1>2, RunEnds
<1>3. CASE index' = [index EXCEPT ![opened] = NoIndex] /\ UNCHANGED faults
  <2>1. /\ NoIndex \in IndexTypes /\ NoIndex.length = 0 /\ NoIndex.image = 0
        /\ NoIndex.files = {} /\ NoIndex.next = 1
    BY DEF NoIndex, IndexTypes
  <2>2. Created(NoIndex) /\ Fits(NoIndex)
    BY <1>1, <2>1 DEF Created, Fits
  <2>3. /\ index' = [index EXCEPT ![opened] = NoIndex] /\ faults' \in Nat /\ faults' >= faults
        /\ faults' = 0 => Created(NoIndex)
    BY <1>3, <2>2
  <2> QED  BY ONLY BlockInv, <1>1, <2>2, <2>3, RunEndsChanged
<1> QED  BY <1>2, <1>3 DEF RemoveIndex, Removed

LEMMA KillStep ==
  ASSUME BlockInv, Kill
  PROVE  BlockInv'
<1> USE Given
<1>1. /\ pc' = "idle" /\ opened' = 1 /\ size' = 0 /\ UNCHANGED <<main, job, made>>
      /\ faults' = faults + 1
  BY DEF Kill
<1>2. CASE UNCHANGED index
  BY <1>1, <1>2, RunEnds
<1>3. ASSUME pc = "image", NEW n \in Cuts, index' = ImageCut(n)
      PROVE  BlockInv'
  <2>1. opened \notin made /\ main[opened] = "full"
    BY <1>3 DEF BlockInv, InitRunInv
  <2>2. PICK i \in IndexTypes :
          /\ ImageCut(n) = [index EXCEPT ![opened] = i]
          /\ i.exists /\ i.length = n /\ i.image = n /\ i.files = {} /\ i.next = 1
    BY <1>3, CutImage
  <2>3. Fits(i)
    BY <2>1, <2>2 DEF Fits
  <2>4. /\ index' = [index EXCEPT ![opened] = i] /\ faults' \in Nat /\ faults' >= faults
        /\ faults' = 0 => Created(i)
    BY <1>1, <1>3, <2>2
  <2> QED  BY ONLY BlockInv, <1>1, <2>3, <2>4, RunEndsChanged
<1> QED  BY <1>2, <1>3 DEF Kill

(* Mapping makes a short index long enough, and changes nothing else of it. *)
LEMMA ExtendedFits ==
  ASSUME BlockInv, pc = "map"
  PROVE  \E i \in IndexTypes :
           /\ [index EXCEPT ![opened].length = Extended(@)] = [index EXCEPT ![opened] = i]
           /\ Fits(i) /\ i.length >= FirstMap /\ i.length > 0
           /\ i.exists = index[opened].exists /\ i.image = index[opened].image
           /\ Whole(index[opened]) => Created(i)
<1> USE Given
<1> DEFINE i == [index[opened] EXCEPT !.length = Extended(@)]
<1>1. /\ Extended(index[opened].length) \in Nat
      /\ Extended(index[opened].length) >= FirstMap
      /\ Extended(index[opened].length) >= index[opened].length
  BY Images DEF Extended
<1>2. /\ i \in IndexTypes /\ i.length = Extended(index[opened].length)
      /\ i.exists = index[opened].exists /\ i.image = index[opened].image
      /\ i.files = index[opened].files /\ i.next = index[opened].next
  BY <1>1 DEF IndexTypes
<1>3. [index EXCEPT ![opened].length = Extended(@)] = [index EXCEPT ![opened] = i]
  OBVIOUS
<1> HIDE DEF i
<1>4. Whole(i) <=> Whole(index[opened])
  BY <1>2 DEF Whole
<1>5. i.length >= FirstMap /\ i.length > 0
  BY <1>1, <1>2, Images
<1>6. Fits(i)
  BY <1>2, <1>4, <1>5 DEF Fits, BlockInv, IndexesInv
<1>7. Whole(index[opened]) => Created(i)
  BY <1>4, <1>5 DEF Created
<1> QED  BY <1>2, <1>3, <1>5, <1>6, <1>7

LEMMA MapIndexStep ==
  ASSUME BlockInv, MapIndex
  PROVE  BlockInv'
<1> USE Given
<1>1. pc = "map" /\ UNCHANGED main
  BY DEF MapIndex
<1>2. PICK i \in IndexTypes :
        /\ [index EXCEPT ![opened].length = Extended(@)] = [index EXCEPT ![opened] = i]
        /\ Fits(i) /\ i.length >= FirstMap /\ i.length > 0
        /\ i.exists = index[opened].exists /\ i.image = index[opened].image
        /\ Whole(index[opened]) => Created(i)
  BY <1>1, ExtendedFits
<1>3. /\ job.op = "init" => index[opened].image = NodeBase /\ index[opened].exists
      /\ job.op = "init" => opened = job.block /\ opened \notin made /\ main[opened] = "full"
  BY <1>1 DEF BlockInv, InitRunInv
<1>4. faults = 0 => Created(i)
  <2>1. faults = 0 /\ job.op # "init" => Whole(index[opened])
    BY <1>1 DEF BlockInv, InitRunInv, IndexesInv, Created
  <2>2. job.op = "init" => Whole(index[opened])
    BY <1>3, FullImageIsWhole
  <2> QED  BY <1>2, <2>1, <2>2
<1>5. CASE /\ index' = [index EXCEPT ![opened] = i] /\ UNCHANGED size
           /\ \/ Goto(IF job.op = "init" THEN "close" ELSE "check")
              \/ job.op = "init" /\ Goto("remove")
  <2>1. /\ UNCHANGED <<main, job, opened, made, faults>>
        /\ pc' \in {"close", "check", "remove"} /\ (pc' = "check" <=> job.op # "init")
    BY <1>1, <1>5 DEF Goto
  <2>2. /\ Fits(i) /\ index' = [index EXCEPT ![opened] = i] /\ UNCHANGED <<main, made>>
        /\ faults' >= faults
    BY <1>2, <1>5, <2>1
  <2>3. faults' = 0 =>
          \/ Created(i)
          \/ opened' = opened /\ job'.op = "init" /\ pc' \in {"flush", "map", "remove"}
    BY <1>4, <2>1
  <2>4. IndexesInv' /\ index' \in [Ids -> IndexTypes]
    BY ONLY BlockInv, <2>2, <2>3, OneIndexChanged
  <2>5. index'[opened] = i
    BY <1>5
  <2>6. TypeInv'
    BY <1>5, <2>1, <2>4 DEF BlockInv, TypeInv, IndexTypes
  <2>7. InitRunInv'
    BY <1>2, <1>3, <2>1, <2>5 DEF InitRunInv
  <2>8. UsesWholeIndex'
    BY <2>1 DEF UsesWholeIndex
  <2> QED  BY <2>4, <2>6, <2>7, <2>8 DEF BlockInv
<1>6. CASE UNCHANGED index /\ job.op = "init" /\ Goto("remove") /\ UNCHANGED size
  <2>1. UNCHANGED <<index, main, size, job, opened, faults, made>> /\ pc' = "remove"
    BY <1>1, <1>6 DEF Goto
  <2>2. TypeInv'
    BY <2>1 DEF BlockInv, TypeInv
  <2>3. InitRunInv'
    BY <1>3, <1>6, <2>1 DEF InitRunInv
  <2>4. IndexesInv'
    BY <1>6, <2>1, FilesAlone
  <2>5. UsesWholeIndex'
    BY <2>1 DEF UsesWholeIndex
  <2> QED  BY <2>2, <2>3, <2>4, <2>5 DEF BlockInv
<1>7. CASE /\ job.op # "init" /\ LoadFails("TFS_ERROR")
           /\ UNCHANGED index \/ index' = [index EXCEPT ![opened] = i]
  <2>1. /\ UNCHANGED <<main, job, made>> /\ pc' = "idle" /\ opened' = 1 /\ size' = 0
        /\ faults' = faults
    BY <1>1, <1>7 DEF LoadFails, Exit
  <2>2. CASE UNCHANGED index
    BY <1>7, <2>1, <2>2, RunEnds
  <2>3. CASE index' = [index EXCEPT ![opened] = i]
    <3>1. /\ faults' \in Nat /\ faults' >= faults /\ (faults' = 0 => Created(i)) /\ Fits(i)
      BY <1>2, <1>4, <2>1
    <3> QED  BY ONLY BlockInv, <2>1, <2>3, <3>1, RunEndsChanged
  <2> QED  BY <1>2, <1>7, <2>2, <2>3
<1> QED  BY <1>2, <1>5, <1>6, <1>7 DEF MapIndex
(* What block_write and block_delete do to the index of their block.       *)
LEMMA UsedIndex ==
  ASSUME BlockInv, pc = "use", NEW fs \in SUBSET Nat, NEW n \in Nat
  PROVE  \E i \in IndexTypes :
           /\ [index EXCEPT ![opened] = [@ EXCEPT !.files = fs, !.next = n]]
                = [index EXCEPT ![opened] = i]
           /\ Fits(i) /\ Whole(i) /\ i.files = fs /\ i.next = n
           /\ faults = 0 => Created(i)
<1> USE Given
<1> DEFINE i == [index[opened] EXCEPT !.files = fs, !.next = n]
<1>1. /\ i \in IndexTypes /\ i.exists = index[opened].exists /\ i.length = index[opened].length
      /\ i.image = index[opened].image /\ i.files = fs /\ i.next = n
  BY DEF IndexTypes
<1>2. [index EXCEPT ![opened] = [@ EXCEPT !.files = fs, !.next = n]] = [index EXCEPT ![opened] = i]
  OBVIOUS
<1> HIDE DEF i
<1>3. Whole(index[opened]) /\ job.op # "init"
  BY DEF BlockInv, UsesWholeIndex, InitRunInv
<1>4. Whole(i)
  BY <1>1, <1>3 DEF Whole
<1>5. Fits(i)
  BY <1>1, <1>4 DEF Fits, BlockInv, IndexesInv
<1>6. faults = 0 => Created(i)
  <2>1. faults = 0 => Created(index[opened])
    BY <1>3 DEF BlockInv, IndexesInv
  <2> QED  BY <1>1, <1>4, <2>1 DEF Created
<1> QED  BY <1>1, <1>2, <1>4, <1>5, <1>6

LEMMA UseWriteStep ==
  ASSUME BlockInv, UseWrite
  PROVE  BlockInv'
<1> USE Given
<1>1. /\ pc = "use" /\ job.op = "write" /\ pc' = "idle" /\ opened' = 1 /\ size' = 0
      /\ UNCHANGED <<main, job, made, faults>>
  BY DEF UseWrite, Exit
<1>2. CASE UNCHANGED index
  BY <1>1, <1>2, RunEnds
<1>3. CASE index' = [index EXCEPT ![opened].files = @ \cup {index[opened].next},
                                  ![opened].next = @ + 1]
  <2> DEFINE fs == index[opened].files \cup {index[opened].next}
             n  == index[opened].next + 1
  <2>1. fs \in SUBSET Nat /\ n \in Nat
    BY DEF IndexTypes
  <2>2. index' = [index EXCEPT ![opened] = [@ EXCEPT !.files = fs, !.next = n]]
    BY <1>3
  <2> HIDE DEF fs, n
  <2>3. PICK i \in IndexTypes :
          /\ [index EXCEPT ![opened] = [@ EXCEPT !.files = fs, !.next = n]]
               = [index EXCEPT ![opened] = i]
          /\ Fits(i) /\ (faults = 0 => Created(i))
    BY <1>1, <2>1, UsedIndex
  <2>4. /\ index' = [index EXCEPT ![opened] = i] /\ faults' \in Nat /\ faults' >= faults
        /\ Fits(i) /\ (faults' = 0 => Created(i))
    BY <1>1, <2>2, <2>3
  <2> QED  BY ONLY BlockInv, <1>1, <2>4, RunEndsChanged
<1> QED  BY <1>2, <1>3 DEF UseWrite

LEMMA UseDeleteStep ==
  ASSUME BlockInv, UseDelete
  PROVE  BlockInv'
<1> USE Given
<1>1. /\ pc = "use" /\ job.op = "delete" /\ pc' = "idle" /\ opened' = 1 /\ size' = 0
      /\ UNCHANGED <<main, job, made, faults>>
  BY DEF UseDelete, Exit
<1>2. CASE UNCHANGED index
  BY <1>1, <1>2, RunEnds
<1>3. CASE index' = [index EXCEPT ![opened].files = @ \ {job.file}]
  <2> DEFINE fs == index[opened].files \ {job.file}
             n  == index[opened].next
  <2>1. fs \in SUBSET Nat /\ n \in Nat
    BY DEF IndexTypes
  <2>2. index' = [index EXCEPT ![opened] = [@ EXCEPT !.files = fs, !.next = n]]
    <3>1. [index[opened] EXCEPT !.files = fs]
            = [index[opened] EXCEPT !.files = fs, !.next = n]
      BY DEF IndexTypes
    <3> QED  BY <1>3, <3>1
  <2> HIDE DEF fs, n
  <2>3. PICK i \in IndexTypes :
          /\ [index EXCEPT ![opened] = [@ EXCEPT !.files = fs, !.next = n]]
               = [index EXCEPT ![opened] = i]
          /\ Fits(i) /\ (faults = 0 => Created(i))
    BY <1>1, <2>1, UsedIndex
  <2>4. /\ index' = [index EXCEPT ![opened] = i] /\ faults' \in Nat /\ faults' >= faults
        /\ Fits(i) /\ (faults' = 0 => Created(i))
    BY <1>1, <2>2, <2>3
  <2> QED  BY ONLY BlockInv, <1>1, <2>4, RunEndsChanged
<1> QED  BY <1>2, <1>3 DEF UseDelete
-----------------------------------------------------------------------------
LEMMA FirstBlocks == Init => BlockInv
<1> SUFFICES ASSUME Init PROVE BlockInv
  OBVIOUS
<1>1. NoIndex \in IndexTypes /\ NoIndex.length = 0 /\ NoIndex.image = 0 /\ NoIndex.files = {}
      /\ NoIndex.next = 1
  BY DEF NoIndex, IndexTypes
<1>2. TypeInv
  BY <1>1 DEF Init, TypeInv, IndexTypes
<1>3. InitRunInv /\ UsesWholeIndex
  BY DEF Init, InitRunInv, UsesWholeIndex
<1>4. IndexesInv
  BY <1>1 DEF Init, IndexesInv, Created
<1> QED  BY <1>2, <1>3, <1>4 DEF BlockInv

LEMMA BlockStep == BlockInv /\ [Next]_vars => BlockInv'
<1> SUFFICES ASSUME BlockInv, [Next]_vars PROVE BlockInv'
  OBVIOUS
<1>1. CASE StartAny
  <2>1. 0 \in 0 .. MaxFile /\ 1 .. MaxFile \subseteq 0 .. MaxFile
    OBVIOUS
  <2> QED  BY <1>1, <2>1, StartStep DEF StartAny
<1>2. CASE ToolStep
  BY <1>2, TruncateMainStep, TruncateFailedStep, OpenIndexStep, WriteImageStep, FlushImageStep,
     MapIndexStep, CheckIndexStep, CloseBlockStep, RemoveIndexStep, UseWriteStep, UseDeleteStep,
     UseReadStep, UseOtherStep DEF ToolStep
<1>3. CASE Kill
  BY <1>3, KillStep
<1>4. CASE UNCHANGED vars
  BY <1>4 DEF vars, BlockInv, TypeInv, InitRunInv, IndexesInv, UsesWholeIndex, Whole, Created
<1> QED  BY <1>1, <1>2, <1>3, <1>4 DEF Next

(* Whatever is asked for, fails or is killed, each index file is what some *)
(* step of its own block's runs left, and complete if nothing was killed   *)
(* and no unlink failed.                                                   *)
THEOREM BlockSound == Spec => []BlockInv
BY FirstBlocks, BlockStep, PTL DEF Spec

(* A tool works on the whole index of the block it was asked for.          *)
THEOREM UsesWhole == Spec => []UsesWholeIndex
<1>1. BlockInv => UsesWholeIndex
  BY DEF BlockInv
<1> QED  BY <1>1, BlockSound, PTL

(* An index is written only when the storage of its block is there.        *)
THEOREM IndexAfterMain == Spec => []IndexAfterBlock
<1>1. BlockInv => IndexAfterBlock
  BY DEF BlockInv, IndexesInv, IndexAfterBlock
<1> QED  BY <1>1, BlockSound, PTL

(* A block whose initialisation was reported is accepted by every load     *)
(* until it is initialised again.                                          *)
THEOREM InitialisedLoadable == Spec => []InitialisedLoads
<1>1. ASSUME BlockInv PROVE InitialisedLoads
  <2> SUFFICES ASSUME NEW b \in made \ {0}
               PROVE  /\ index[b].exists /\ main[b] = "full"
                      /\ Checked(index[b], b, b, index[b].length) = "TFS_SUCCESS"
    BY DEF InitialisedLoads
  <2>1. b \in Ids /\ b \in Nat \ {0} /\ index[b] \in IndexTypes
    BY <1>1, Given
  <2>2. index[b].length \in Nat
    BY <2>1 DEF IndexTypes
  <2>3. /\ index[b].exists /\ index[b].image = NodeBase /\ index[b].length >= FirstMap
        /\ index[b].image > 0 => main[b] = "full"
    BY <1>1, <2>1 DEF BlockInv, IndexesInv
  <2> QED  BY <2>1, <2>2, <2>3, Images, FullIsAccepted
<1> QED  BY <1>1, BlockSound, PTL

(* A block_init that is not killed, and whose unlink works, leaves a       *)
(* complete index or an empty one.                                         *)
THEOREM WholeOrEmpty == Spec => []CreatedOrNothing
<1>1. BlockInv => CreatedOrNothing
  BY DEF BlockInv, IndexesInv, CreatedOrNothing, Created
<1> QED  BY <1>1, BlockSound, PTL
-----------------------------------------------------------------------------
(* The blocks as BlockStore sees them, and its actions in those words.     *)
NoRow    == [made |-> FALSE, files |-> {}, next |-> 0]
FreshRow == [made |-> TRUE,  files |-> {}, next |-> 1]
Row(i)   == IF Whole(i) THEN [made |-> TRUE, files |-> i.files, next |-> i.next]
            ELSE [made |-> FALSE, files |-> {}, next |-> 0]
Rows     == [b \in Ids |-> Row(index[b])]

RowBecomes(t, u) == Rows[job.block] = t /\ Rows' = [Rows EXCEPT ![job.block] = u]

LEMMA StoreSteps ==
  /\ job'.block \in Ids /\ Rows' = Rows => Store!Next
  /\ UNCHANGED job /\ job.op = "init" /\ RowBecomes(NoRow, FreshRow) => Store!Next
  /\ UNCHANGED job /\ job.op = "init" /\ Rows[job.block].made
       /\ RowBecomes(Rows[job.block], NoRow) => Store!Next
  /\ UNCHANGED job /\ job.op = "write" /\ Rows[job.block].made
       /\ RowBecomes(Rows[job.block],
                     [Rows[job.block] EXCEPT !.files = @ \cup {Rows[job.block].next},
                                             !.next = @ + 1]) => Store!Next
  /\ UNCHANGED job /\ job.op = "delete" /\ job.file \in Rows[job.block].files
       /\ RowBecomes(Rows[job.block],
                     [Rows[job.block] EXCEPT !.files = @ \ {job.file}]) => Store!Next
<1> USE DEF Rows, Row, RowBecomes, Store!Next
<1>1. job'.block \in Ids /\ Rows' = Rows => Store!Next
  BY DEF Store!Ask
<1>2. UNCHANGED job /\ job.op = "init" /\ RowBecomes(NoRow, FreshRow) => Store!Next
  BY DEF Store!Make, Store!Becomes, Store!NoTable, Store!FreshTable, NoRow, FreshRow
<1>3. UNCHANGED job /\ job.op = "init" /\ Rows[job.block].made
        /\ RowBecomes(Rows[job.block], NoRow) => Store!Next
  BY DEF Store!Discard, Store!Becomes, Store!NoTable, NoRow
<1>4. UNCHANGED job /\ job.op = "write" /\ Rows[job.block].made
        /\ RowBecomes(Rows[job.block],
                      [Rows[job.block] EXCEPT !.files = @ \cup {Rows[job.block].next},
                                              !.next = @ + 1]) => Store!Next
  BY DEF Store!Put, Store!Becomes
<1>5. UNCHANGED job /\ job.op = "delete" /\ job.file \in Rows[job.block].files
        /\ RowBecomes(Rows[job.block],
                      [Rows[job.block] EXCEPT !.files = @ \ {job.file}]) => Store!Next
  BY DEF Store!Remove, Store!Becomes
<1> QED  BY <1>1, <1>2, <1>3, <1>4, <1>5
LEMMA RowsAlone ==
  ASSUME BlockInv, UNCHANGED <<index, job>>
  PROVE  Store!Next
<1>1. Rows' = Rows
  BY DEF Rows, Row, Whole
<1> QED  BY <1>1, StoreSteps, Given

LEMMA RowChanged ==
  ASSUME BlockInv, NEW i, index' = [index EXCEPT ![opened] = i]
  PROVE  /\ Rows' = [Rows EXCEPT ![opened] = Row(i)]
         /\ Rows[opened] = Row(index[opened])
<1> USE Given
<1>1. Rows[opened] = Row(index[opened])
  BY DEF Rows
<1>2. Rows' = [b \in Ids |-> Row(index'[b])]
  BY DEF Rows, Row, Whole
<1>3. ASSUME NEW b \in Ids
      PROVE  Row(index'[b]) = IF b = opened THEN Row(i) ELSE Row(index[b])
  <2>1. index'[b] = IF b = opened THEN i ELSE index[b]
    OBVIOUS
  <2> QED  BY <2>1
<1>4. [Rows EXCEPT ![opened] = Row(i)]
        = [b \in Ids |-> IF b = opened THEN Row(i) ELSE Row(index[b])]
  BY DEF Rows
<1> QED  BY <1>1, <1>2, <1>3, <1>4

(* A step that writes nothing of an index the abstract store can see.      *)
LEMMA SameRow ==
  ASSUME BlockInv, UNCHANGED job, NEW i, index' = [index EXCEPT ![opened] = i],
         Row(i) = Row(index[opened])
  PROVE  Store!Next
<1>1. Rows' = [Rows EXCEPT ![opened] = Rows[opened]]
  BY RowChanged
<1>2. Rows' = Rows
  BY <1>1 DEF Rows
<1> QED  BY <1>2, StoreSteps, Given

LEMMA StartStore ==
  ASSUME BlockInv, NEW o, NEW b \in Ids, NEW f, Start(o, b, f)
  PROVE  Store!Next
<1>1. Rows' = Rows /\ job'.block \in Ids
  BY DEF Start, Rows, Row, Whole
<1> QED  BY <1>1, StoreSteps

LEMMA OpenIndexStore ==
  ASSUME BlockInv, OpenIndex
  PROVE  Store!Next
<1> USE Given
<1> DEFINE i == [index[opened] EXCEPT !.exists = TRUE]
<1>1. i.image = index[opened].image /\ i.files = index[opened].files /\ i.next = index[opened].next
  BY DEF IndexTypes
<1>2. UNCHANGED job
  BY DEF OpenIndex, Goto, LoadFails, Exit
<1>3. UNCHANGED index \/ index' = [index EXCEPT ![opened] = i]
  BY DEF OpenIndex
<1> HIDE DEF i
<1>4. Row(i) = Row(index[opened])
  BY <1>1 DEF Row, Whole
<1>5. CASE index' = [index EXCEPT ![opened] = i]
  BY ONLY BlockInv, <1>2, <1>4, <1>5, SameRow
<1> QED  BY <1>2, <1>3, <1>5, RowsAlone

LEMMA MapIndexStore ==
  ASSUME BlockInv, MapIndex
  PROVE  Store!Next
<1> USE Given
<1> DEFINE i == [index[opened] EXCEPT !.length = Extended(@)]
<1>1. i.image = index[opened].image /\ i.files = index[opened].files /\ i.next = index[opened].next
  BY DEF IndexTypes
<1>2. UNCHANGED job
  BY DEF MapIndex, Goto, LoadFails, Exit
<1>3. UNCHANGED index \/ index' = [index EXCEPT ![opened] = i]
  BY DEF MapIndex
<1> HIDE DEF i
<1>4. Row(i) = Row(index[opened])
  BY <1>1 DEF Row, Whole
<1>5. CASE index' = [index EXCEPT ![opened] = i]
  BY ONLY BlockInv, <1>2, <1>4, <1>5, SameRow
<1> QED  BY <1>2, <1>3, <1>5, RowsAlone

(* Writing the image makes the block, even when the last bytes of it are   *)
(* cut off, or leaves nothing of it.                                       *)
LEMMA ImageStore ==
  ASSUME BlockInv, pc = "image", UNCHANGED job, NEW n \in Cuts \cup {NodeBase},
         index' = ImageCut(n)
  PROVE  Store!Next
<1> USE Given
<1>1. PICK i \in IndexTypes :
        /\ ImageCut(n) = [index EXCEPT ![opened] = i]
        /\ i.exists /\ i.length = n /\ i.image = n /\ i.files = {} /\ i.next = 1
  BY CutImage
<1>2. job.op = "init" /\ opened = job.block /\ ~ Whole(index[opened])
  <2>1. index[opened].image = 0
    BY DEF BlockInv, InitRunInv, IndexesInv
  <2> QED  BY <2>1, NoImageIsNotWhole DEF BlockInv, InitRunInv
<1>3. Row(index[opened]) = NoRow
  BY <1>2 DEF Row, NoRow
<1>4. index' = [index EXCEPT ![opened] = i]
  BY <1>1
<1>5. Rows' = [Rows EXCEPT ![opened] = Row(i)] /\ Rows[opened] = NoRow
  BY ONLY BlockInv, <1>3, <1>4, RowChanged
<1>6. CASE Whole(i)
  <2>1. Row(i) = FreshRow
    BY <1>1, <1>6 DEF Row, FreshRow
  <2>2. RowBecomes(NoRow, FreshRow)
    BY <1>2, <1>5, <2>1 DEF RowBecomes
  <2> QED  BY <1>2, <2>2, StoreSteps
<1>7. CASE ~ Whole(i)
  <2>1. Row(i) = Row(index[opened])
    BY <1>2, <1>7 DEF Row
  <2> QED  BY ONLY BlockInv, UNCHANGED job, <1>4, <2>1, SameRow
<1> QED  BY <1>6, <1>7

LEMMA RemoveIndexStore ==
  ASSUME BlockInv, RemoveIndex
  PROVE  Store!Next
<1> USE Given
<1>1. pc = "remove" /\ UNCHANGED job /\ job.op = "init" /\ opened = job.block
  BY DEF RemoveIndex, BlockInv, InitRunInv
<1>2. CASE index' = [index EXCEPT ![opened] = NoIndex]
  <2>1. Row(NoIndex) = NoRow
    BY DEF NoIndex, Row, NoRow, Whole
  <2>2. Rows' = [Rows EXCEPT ![opened] = NoRow] /\ Rows[opened] = Row(index[opened])
    BY ONLY BlockInv, <1>2, <2>1, RowChanged
  <2>3. CASE Whole(index[opened])
    <3>1. Rows[job.block].made
      BY <1>1, <2>2, <2>3 DEF Row
    <3>2. RowBecomes(Rows[job.block], NoRow)
      BY <1>1, <2>2 DEF RowBecomes
    <3> QED  BY <1>1, <3>1, <3>2, StoreSteps
  <2>4. CASE ~ Whole(index[opened])
    <3>1. Row(NoIndex) = Row(index[opened])
      BY <2>1, <2>4 DEF Row, NoRow
    <3> QED  BY ONLY BlockInv, <1>1, <1>2, <3>1, SameRow
  <2> QED  BY <2>3, <2>4
<1> QED  BY <1>1, <1>2, RowsAlone DEF RemoveIndex, Removed

RowTypes == [made : BOOLEAN, files : SUBSET Nat, next : Nat]

LEMMA RowOfWhole ==
  ASSUME NEW i \in IndexTypes, Whole(i)
  PROVE  /\ Row(i) \in RowTypes
         /\ Row(i).made = TRUE /\ Row(i).files = i.files /\ Row(i).next = i.next
<1>1. Row(i) = [made |-> TRUE, files |-> i.files, next |-> i.next]
  BY DEF Row
<1>2. i.files \in SUBSET Nat /\ i.next \in Nat
  BY DEF IndexTypes
<1> QED  BY <1>1, <1>2 DEF RowTypes

LEMMA RowPut ==
  ASSUME NEW t \in RowTypes, NEW r \in RowTypes, r.made = t.made
  PROVE  [t EXCEPT !.files = r.files, !.next = r.next] = r
<1> DEFINE u == [t EXCEPT !.files = r.files, !.next = r.next]
<1>1. u \in RowTypes /\ u.made = r.made /\ u.files = r.files /\ u.next = r.next
  BY DEF RowTypes
<1> HIDE DEF u
<1>2. u = r
  BY <1>1 DEF RowTypes
<1> QED  BY <1>2 DEF u

LEMMA RowRemove ==
  ASSUME NEW t \in RowTypes, NEW r \in RowTypes, r.made = t.made, r.next = t.next
  PROVE  [t EXCEPT !.files = r.files] = r
<1> DEFINE u == [t EXCEPT !.files = r.files]
<1>1. u \in RowTypes /\ u.made = r.made /\ u.files = r.files /\ u.next = r.next
  BY DEF RowTypes
<1> HIDE DEF u
<1>2. u = r
  BY <1>1 DEF RowTypes
<1> QED  BY <1>2 DEF u

LEMMA UseStore ==
  ASSUME BlockInv, UseWrite \/ UseDelete
  PROVE  Store!Next
<1> USE Given
<1>1. pc = "use" /\ UNCHANGED job
  BY DEF UseWrite, UseDelete, Exit
<1>2. /\ opened = job.block /\ Whole(index[opened])
  BY <1>1 DEF BlockInv, UsesWholeIndex
<1> DEFINE t == Row(index[opened])
<1>6. /\ t \in RowTypes /\ t.made = TRUE
      /\ t.files = index[opened].files /\ t.next = index[opened].next
  BY <1>2, RowOfWhole
<1> HIDE DEF t
<1>3. CASE /\ job.op = "write"
           /\ index' = [index EXCEPT ![opened].files = @ \cup {index[opened].next},
                                     ![opened].next = @ + 1]
  <2> DEFINE fs == index[opened].files \cup {index[opened].next}
             n  == index[opened].next + 1
  <2>1. fs \in SUBSET Nat /\ n \in Nat
    BY DEF IndexTypes
  <2>2. index' = [index EXCEPT ![opened] = [@ EXCEPT !.files = fs, !.next = n]]
    BY <1>3
  <2> HIDE DEF fs, n
  <2>4. PICK i \in IndexTypes :
          /\ [index EXCEPT ![opened] = [@ EXCEPT !.files = fs, !.next = n]]
               = [index EXCEPT ![opened] = i]
          /\ Fits(i) /\ Whole(i) /\ i.files = fs /\ i.next = n
          /\ faults = 0 => Created(i)
    BY <1>1, <2>1, UsedIndex
  <2>5. index' = [index EXCEPT ![opened] = i]
    BY <2>2, <2>4
  <2>6. Rows' = [Rows EXCEPT ![opened] = Row(i)] /\ Rows[opened] = t
    BY ONLY BlockInv, <2>5, RowChanged DEF t
  <2>7. /\ Row(i) \in RowTypes
        /\ Row(i).made = TRUE /\ Row(i).files = fs /\ Row(i).next = n
    BY <2>4, RowOfWhole
  <2>8. /\ Rows[job.block].made /\ Rows[job.block].next = index[opened].next
        /\ RowBecomes(Rows[job.block],
                      [Rows[job.block] EXCEPT !.files = @ \cup {Rows[job.block].next},
                                              !.next = @ + 1])
    <3>1. [t EXCEPT !.files = fs, !.next = n] = Row(i)
      <4>1. [t EXCEPT !.files = Row(i).files, !.next = Row(i).next] = Row(i)
        BY <1>6, <2>7, RowPut
      <4> QED  BY <2>7, <4>1
    <3>2. [t EXCEPT !.files = @ \cup {t.next}, !.next = @ + 1] = Row(i)
      BY <1>6, <3>1 DEF fs, n
    <3> QED  BY <1>2, <1>6, <2>6, <3>2 DEF RowBecomes
  <2> QED  BY <1>1, <1>3, <2>8, StoreSteps
<1>4. CASE /\ job.op = "delete" /\ job.file \in index[opened].files
           /\ index' = [index EXCEPT ![opened].files = @ \ {job.file}]
  <2> DEFINE fs == index[opened].files \ {job.file}
             n  == index[opened].next
  <2>1. fs \in SUBSET Nat /\ n \in Nat
    BY DEF IndexTypes
  <2>2. index' = [index EXCEPT ![opened] = [@ EXCEPT !.files = fs, !.next = n]]
    <3>1. [index[opened] EXCEPT !.files = fs]
            = [index[opened] EXCEPT !.files = fs, !.next = n]
      BY DEF IndexTypes
    <3> QED  BY <1>4, <3>1
  <2> HIDE DEF fs, n
  <2>4. PICK i \in IndexTypes :
          /\ [index EXCEPT ![opened] = [@ EXCEPT !.files = fs, !.next = n]]
               = [index EXCEPT ![opened] = i]
          /\ Fits(i) /\ Whole(i) /\ i.files = fs /\ i.next = n
          /\ faults = 0 => Created(i)
    BY <1>1, <2>1, UsedIndex
  <2>5. index' = [index EXCEPT ![opened] = i]
    BY <2>2, <2>4
  <2>6. Rows' = [Rows EXCEPT ![opened] = Row(i)] /\ Rows[opened] = t
    BY ONLY BlockInv, <2>5, RowChanged DEF t
  <2>7. /\ Row(i) \in RowTypes
        /\ Row(i).made = TRUE /\ Row(i).files = fs /\ Row(i).next = n
    BY <2>4, RowOfWhole
  <2>8. /\ job.file \in Rows[job.block].files
        /\ RowBecomes(Rows[job.block], [Rows[job.block] EXCEPT !.files = @ \ {job.file}])
    <3>1. [t EXCEPT !.files = fs] = Row(i)
      <4>1. n = t.next
        BY <1>6 DEF n
      <4>2. [t EXCEPT !.files = Row(i).files] = Row(i)
        BY <1>6, <2>7, <4>1, RowRemove
      <4> QED  BY <2>7, <4>2
    <3>2. [t EXCEPT !.files = @ \ {job.file}] = Row(i)
      BY <1>6, <3>1 DEF fs
    <3> QED  BY <1>2, <1>4, <1>6, <2>6, <3>2 DEF RowBecomes
  <2> QED  BY <1>1, <1>4, <2>8, StoreSteps
<1>5. CASE UNCHANGED index
  BY <1>1, <1>5, RowsAlone
<1> QED  BY <1>3, <1>4, <1>5 DEF UseWrite, UseDelete

LEMMA StoreStep == BlockInv /\ [Next]_vars => [Store!Next]_(Store!vars)
<1> SUFFICES ASSUME BlockInv, [Next]_vars PROVE Store!Next \/ UNCHANGED Store!vars
  OBVIOUS
<1>1. CASE StartAny
  BY <1>1, StartStore DEF StartAny
<1>2. CASE WriteImage
  <2>1. /\ pc = "image" /\ UNCHANGED job
        /\ \E n \in Cuts \cup {NodeBase} : index' = ImageCut(n)
    BY <1>2 DEF WriteImage, Goto
  <2> QED  BY <2>1, ImageStore
<1>3. CASE Kill
  <2>1. UNCHANGED job
    BY <1>3 DEF Kill
  <2>2. CASE UNCHANGED index
    BY <2>1, <2>2, RowsAlone
  <2>3. CASE pc = "image" /\ \E n \in Cuts : index' = ImageCut(n)
    BY <2>1, <2>3, ImageStore
  <2> QED  BY <1>3, <2>2, <2>3 DEF Kill
<1>4. CASE \/ TruncateMain \/ TruncateFailed \/ FlushImage \/ CheckIndex \/ CloseBlock
           \/ UseRead \/ UseOther
  <2>1. UNCHANGED <<index, job>>
    BY <1>4 DEF TruncateMain, TruncateFailed, FlushImage, CheckIndex, CloseBlock, UseRead, UseOther,
       Goto, Exit, LoadFails
  <2> QED  BY <2>1, RowsAlone
<1>5. CASE OpenIndex \/ MapIndex \/ RemoveIndex \/ UseWrite \/ UseDelete
  BY <1>5, OpenIndexStore, MapIndexStore, RemoveIndexStore, UseStore
<1>6. CASE UNCHANGED vars
  BY <1>6, RowsAlone DEF vars
<1> QED  BY <1>1, <1>2, <1>3, <1>4, <1>5, <1>6 DEF Next, ToolStep

(* All blocks together keep what BlockStore promises: whatever fails or is *)
(* killed, a run changes the block it was asked for only, and only         *)
(* block_init makes or discards one.                                       *)
THEOREM StoreImplemented == Spec => ImplementsBlockStore
<1>1. Init => Store!Init
  <2> SUFFICES ASSUME Init PROVE Store!Init
    OBVIOUS
  <2>1. job \in [op : {"none"}, block : Ids, file : {0}]
    BY DEF Init
  <2>2. Rows = [b \in Ids |-> NoRow]
    <3>1. \A b \in Ids : index[b] = NoIndex
      BY DEF Init
    <3>2. Row(NoIndex) = NoRow
      BY DEF NoIndex, Row, NoRow, Whole
    <3> QED  BY <3>1, <3>2 DEF Rows
  <2> QED  BY <2>1, <2>2 DEF Store!Init, Store!NoTable, Rows, Row, NoRow
<1> QED  BY <1>1, StoreStep, BlockSound, PTL DEF Spec, ImplementsBlockStore, Store!Spec
=============================================================================
