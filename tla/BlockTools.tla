------------------------------ MODULE BlockTools ------------------------------
(***************************************************************************)
(* The tools over the files of several blocks, one run at a time: how      *)
(* block_init creates a block and what it does to one that exists, which   *)
(* index the other tools open and when they accept it, and what they do    *)
(* when they do not.  A run may be killed anywhere and any call may fail.  *)
(* What a tool does with an index it accepted is IndexHandle's business;   *)
(* here it is one step on the index's files.                               *)
(***************************************************************************)
EXTENDS IndexLayout

CONSTANTS
  Ids,       \* block ids in play
  Cuts,      \* bound: bytes of a new index written when that is cut short
  FirstMap,  \* mmap_option.first_mmap_size_
  MaxFile,   \* bound: files written to one block
  MaxFaults  \* bound: runs that are killed or cannot unlink

(* The bytes before n of a word v at o, as the int32_t a reader gets.      *)
WordAt(o, v, n) == IF n <= o THEN 0 ELSE IF n >= o + 4 THEN v ELSE v % 256 ^ (n - o)

(* A cut never falls between the bytes of bucket_size_ and those of        *)
(* index_file_size_ (30 to 37 of 4024 bytes, with 1000 buckets).           *)
ASSUME BlockToolsAssumption ==
  /\ Ids \subseteq Nat /\ 1 \in Ids /\ MaxFile \in Nat /\ MaxFaults \in Nat
  /\ FirstMap \in Nat /\ HEADER_SIZE + 4 * BucketSize <= FirstMap
  /\ \A n \in Cuts : /\ n \in 0 .. NodeBase - 1
                     /\ WordAt(BUCKET_SIZE, BucketSize, n) = BucketSize
                          => WordAt(INDEX_FILE_SIZE, NodeBase, n) = NodeBase

VARIABLES
  index,   \* per block, its index file: whether the name exists, its length,
           \* how many bytes of the initial image are in it, files and seq_no_
  main,    \* per block, its main block file: "absent", "empty" or "full"
  job,     \* what was asked for: the tool, the block id, the file id
  pc,      \* where the run is
  opened,  \* the block whose index its handle was made for
  size,    \* its file_size
  ret,     \* what it returned
  faults,  \* how often a run was killed or could not unlink
  made     \* history: blocks whose block_init reported success and was not
           \* asked for again since

vars == <<index, main, job, pc, opened, size, ret, faults, made>>

NoIndex == [exists |-> FALSE, length |-> 0, image |-> 0, files |-> {}, next |-> 1]

Init ==
  /\ index = [b \in Ids |-> NoIndex] /\ main = [b \in Ids |-> "absent"]
  /\ job = [op |-> "none", block |-> 1, file |-> 0]
  /\ pc = "idle" /\ opened = 1 /\ size = 0 /\ ret = "none" /\ faults = 0 /\ made = {}

Goto(l) == pc' = l /\ UNCHANGED <<job, opened, ret, faults, made>>
Exit(r) == pc' = "idle" /\ ret' = r /\ opened' = 1 /\ size' = 0 /\ UNCHANGED <<job, faults>>
-----------------------------------------------------------------------------
(* block_read, block_delete and block_stat make their handle before they   *)
(* read the block id, while it has its initial value 1; the others after.  *)
EarlyHandle     == {"read", "delete", "stat"}
HandleFor(o, b) == IF o \in EarlyHandle THEN 1 ELSE b

(* block_write and block_recla reject block id 0, the others negative ones.*)
Start(o, b, f) ==
  /\ pc = "idle"
  /\ o \in {"write", "recla"} => b >= 1
  /\ job' = [op |-> o, block |-> b, file |-> f]
  /\ opened' = HandleFor(o, b)
  /\ pc' = IF o = "init" THEN "truncate" ELSE "open"
  /\ ret' = "none"
  /\ made' = IF o = "init" THEN made \ {b} ELSE made
  /\ UNCHANGED <<index, main, size, faults>>

(* block_init creates the main block and gives it its full length.         *)
TruncateIgnored(ok) == "open"  \* mutant of AfterTruncate
AfterTruncate(ok)   == IF ok THEN "open" ELSE "exit"

TruncateMain ==
  /\ pc = "truncate"
  /\ \/ /\ main' = [main EXCEPT ![job.block] = "full"]
        /\ Goto(AfterTruncate(TRUE))
     \/ /\ \/ UNCHANGED main
           \/ main[job.block] = "absent" /\ main' = [main EXCEPT ![job.block] = "empty"]
        /\ Goto(AfterTruncate(FALSE))
  /\ UNCHANGED <<index, size>>

TruncateFailed ==
  /\ pc = "exit"
  /\ Exit("TFS_ERROR")
  /\ UNCHANGED <<index, main, made>>
-----------------------------------------------------------------------------
(* load and create.                                                        *)

(* A load that fails.  The same three tools, when they fail, delete their  *)
(* handle and go on to use it: on freed memory remove, or a second delete, *)
(* crashes or does nothing.                                                *)
AfterDelete(r) == IF job.op \in EarlyHandle THEN {r, "crashed"} ELSE {r}
LoadFails(r)   == (\E x \in AfterDelete(r) : Exit(x)) /\ UNCHANGED made

(* get_file_size opens the index, with O_CREAT.  create goes on with an    *)
(* empty one, load with any other.                                         *)
OpenIndex ==
  /\ pc = "open"
  /\ \/ /\ index' = [index EXCEPT ![opened].exists = TRUE]
        /\ LET empty == index[opened].length = 0
           IN  \/ /\ job.op = "init"
                  /\ Goto(IF empty THEN "image" ELSE "remove")
                  /\ size' = index[opened].length
               \/ /\ job.op # "init" /\ ~ empty
                  /\ Goto("map")
                  /\ size' = index[opened].length
               \/ job.op # "init" /\ empty /\ LoadFails("EXIT_INDEX_CORRUPT_ERROR")
     \/ /\ \/ job.op = "init" /\ Goto("remove") /\ UNCHANGED size
           \/ job.op # "init" /\ LoadFails("TFS_ERROR")
        /\ UNCHANGED index
  /\ UNCHANGED main

(* create writes the header and the buckets, of which n bytes arrive.      *)
ImageCut(n) == [index EXCEPT ![opened].length = n, ![opened].image = n]

WriteImage ==
  /\ pc = "image"
  /\ \/ index' = ImageCut(NodeBase) /\ Goto("flush")
     \/ \E n \in Cuts : index' = ImageCut(n) /\ Goto("remove")
  /\ UNCHANGED <<main, size>>

FlushImage ==
  /\ pc = "flush"
  /\ Goto("map") \/ Goto("remove")
  /\ UNCHANGED <<index, main, size>>

(* mmap_file extends a short file before it maps it; both may fail.        *)
NotExtended(n) == n  \* mutant of Extended
Extended(n)    == IF n < FirstMap THEN FirstMap ELSE n

MapIndex ==
  /\ pc = "map"
  /\ \/ /\ index' = [index EXCEPT ![opened].length = Extended(@)]
        /\ Goto(IF job.op = "init" THEN "close" ELSE "check")
        /\ UNCHANGED size
     \/ /\ \/ UNCHANGED index
           \/ index' = [index EXCEPT ![opened].length = Extended(@)]
        /\ \/ job.op = "init" /\ Goto("remove") /\ UNCHANGED size
           \/ job.op # "init" /\ LoadFails("TFS_ERROR")
  /\ UNCHANGED main

(* The checks of load on the index i that was made for block own and was n *)
(* bytes long, when block b was asked for; mutants without one of them.    *)
IdNotCompared(i, own, b, n) ==
  LET bucket == WordAt(BUCKET_SIZE, BucketSize, i.image)
      id     == WordAt(BLOCK_ID, own, i.image)
  IN  IF bucket = 0 \/ id = 0 \/ n < HEADER_SIZE + 4 * bucket THEN "EXIT_INDEX_CORRUPT_ERROR"
      ELSE IF bucket # BucketSize THEN "EXIT_BUCKET_CONFLICT_ERROR" ELSE "TFS_SUCCESS"
BucketsNotCompared(i, own, b, n) ==
  LET bucket == WordAt(BUCKET_SIZE, BucketSize, i.image)
      id     == WordAt(BLOCK_ID, own, i.image)
  IN  IF bucket = 0 \/ id = 0 \/ n < HEADER_SIZE + 4 * bucket THEN "EXIT_INDEX_CORRUPT_ERROR"
      ELSE IF b # id THEN "EXIT_BLOCKID_CONFLICT_ERROR" ELSE "TFS_SUCCESS"

Checked(i, own, b, n) ==
  LET bucket == WordAt(BUCKET_SIZE, BucketSize, i.image)
      id     == WordAt(BLOCK_ID, own, i.image)
  IN  IF bucket = 0 \/ id = 0 \/ n < HEADER_SIZE + 4 * bucket THEN "EXIT_INDEX_CORRUPT_ERROR"
      ELSE IF b # id THEN "EXIT_BLOCKID_CONFLICT_ERROR"
      ELSE IF bucket # BucketSize THEN "EXIT_BUCKET_CONFLICT_ERROR"
      ELSE "TFS_SUCCESS"

CheckIndex ==
  LET r == Checked(index[opened], opened, job.block, size)
  IN  /\ pc = "check"
      /\ \/ r = "TFS_SUCCESS" /\ Goto("use") /\ UNCHANGED size
         \/ r # "TFS_SUCCESS" /\ LoadFails(r)
      /\ UNCHANGED <<index, main>>
-----------------------------------------------------------------------------
(* The end of block_init: with the block, or with remove of its index,     *)
(* which unlinks it, whether this run created it or another one.           *)
CloseBlock ==
  /\ pc = "close"
  /\ Exit("TFS_SUCCESS")
  /\ made' = made \cup {job.block}
  /\ UNCHANGED <<index, main>>

NotRemoved(i) == i  \* mutant of Removed
Removed(i)    == NoIndex

RemoveIndex ==
  /\ pc = "remove"
  /\ pc' = "idle" /\ ret' = "TFS_ERROR" /\ opened' = 1 /\ size' = 0
  /\ \/ index' = [index EXCEPT ![opened] = Removed(@)] /\ UNCHANGED faults
     \/ faults < MaxFaults /\ faults' = faults + 1 /\ UNCHANGED index
  /\ UNCHANGED <<main, job, made>>
-----------------------------------------------------------------------------
(* What a tool does with the index it accepted, and with a handle it       *)
(* deletes twice when that fails.                                          *)

UseWrite ==
  /\ pc = "use" /\ job.op = "write"
  /\ \/ /\ index[opened].next <= MaxFile
        /\ index' = [index EXCEPT ![opened].files = @ \cup {index[opened].next},
                                  ![opened].next = @ + 1]
        /\ \E r \in {"TFS_SUCCESS", "TFS_ERROR"} : Exit(r)
     \/ UNCHANGED index /\ Exit("IO_ERROR")
  /\ UNCHANGED <<main, made>>

UseDelete ==
  /\ pc = "use" /\ job.op = "delete"
  /\ \/ /\ job.file \in index[opened].files
        /\ index' = [index EXCEPT ![opened].files = @ \ {job.file}]
        /\ \E r \in {"TFS_SUCCESS"} \cup AfterDelete("IO_ERROR") : Exit(r)
     \/ /\ UNCHANGED index
        /\ \E r \in AfterDelete(IF job.file \in index[opened].files THEN "IO_ERROR"
                                ELSE "EXIT_MEFA_NOT_FOUND_ERROR") : Exit(r)
  /\ UNCHANGED <<main, made>>

UseRead ==
  /\ pc = "use" /\ job.op = "read"
  /\ \/ /\ job.file \in index[opened].files
        /\ \E r \in {"TFS_SUCCESS"} \cup AfterDelete("IO_ERROR") : Exit(r)
     \/ job.file \notin index[opened].files /\ Exit("EXIT_MEFA_NOT_FOUND_ERROR")
  /\ UNCHANGED <<index, main, made>>

UseOther ==
  /\ pc = "use"
  /\ \/ job.op = "stat" /\ Exit("TFS_SUCCESS")
     \/ job.op = "recla" /\ \E r \in {"TFS_SUCCESS", "TFS_ERROR"} : Exit(r)
  /\ UNCHANGED <<index, main, made>>
-----------------------------------------------------------------------------
(* The process dies, between two calls or while it writes a new index.     *)
Kill ==
  /\ pc # "idle" /\ faults < MaxFaults
  /\ \/ UNCHANGED index
     \/ pc = "image" /\ \E n \in Cuts : index' = ImageCut(n)
  /\ pc' = "idle" /\ ret' = "killed" /\ opened' = 1 /\ size' = 0
  /\ faults' = faults + 1
  /\ UNCHANGED <<main, job, made>>

StartAny ==
  \E b \in Ids :
    \/ \E o \in {"init", "write", "stat", "recla"} : Start(o, b, 0)
    \/ \E o \in {"read", "delete"}, f \in 1 .. MaxFile : Start(o, b, f)

ToolStep ==
  \/ TruncateMain \/ TruncateFailed \/ OpenIndex \/ WriteImage \/ FlushImage
  \/ MapIndex \/ CheckIndex \/ CloseBlock \/ RemoveIndex
  \/ UseWrite \/ UseDelete \/ UseRead \/ UseOther

Next == StartAny \/ ToolStep \/ Kill

Spec == Init /\ [][Next]_vars
-----------------------------------------------------------------------------
(* An index has the whole of its header, all that follows it being zero.   *)
Whole(i) == i.image > 0 /\ WordAt(INDEX_FILE_SIZE, NodeBase, i.image) = NodeBase

(* The files of all blocks are a block store: whatever fails or is killed, *)
(* a run changes the block it was asked for only, and only block_init      *)
(* makes or discards one.                                                  *)
Store == INSTANCE BlockStore WITH
  table <- [b \in Ids |-> IF Whole(index[b])
                          THEN [made |-> TRUE, files |-> index[b].files, next |-> index[b].next]
                          ELSE [made |-> FALSE, files |-> {}, next |-> 0]]
ImplementsBlockStore == Store!Spec

(* A tool works on the index of the block it was asked for, never on one   *)
(* whose creation was cut short, although every load makes a short index   *)
(* long enough for the next one.                                           *)
UsesWholeIndex ==
  pc = "use" => opened = job.block /\ Whole(index[opened])

(* A block whose initialisation was reported stays usable until it is      *)
(* initialised again: no failed or killed run of any tool on any block,    *)
(* nor a handle made for block 1 or used after it was deleted, makes its   *)
(* index one that load rejects.  Block 0 is accepted by block_init alone.  *)
InitialisedLoads ==
  \A b \in made \ {0} :
    /\ index[b].exists /\ main[b] = "full"
    /\ Checked(index[b], b, b, index[b].length) = "TFS_SUCCESS"

(* An index is written only when the storage of its block is there         *)
(* (README: "allocated and initialised before the block is used").         *)
IndexAfterBlock == \A b \in Ids : index[b].image > 0 => main[b] = "full"

(* A block_init that is not killed leaves a complete index or nothing a    *)
(* later one would take for an index, whichever of its calls failed.       *)
CreatedOrNothing ==
  pc = "idle" /\ faults = 0 =>
    \A b \in Ids : \/ index[b].length = 0
                   \/ Whole(index[b]) /\ index[b].length >= FirstMap
-----------------------------------------------------------------------------
(* The inductive invariant of the proofs.                                  *)

TypeInv ==
  /\ index \in [Ids -> [exists : BOOLEAN, length : Nat, image : Cuts \cup {0, NodeBase},
                        files : SUBSET Nat, next : Nat]]
  /\ main \in [Ids -> {"absent", "empty", "full"}]
  /\ job \in [op : {"none", "init", "write", "stat", "recla", "read", "delete"},
              block : Ids, file : 0 .. MaxFile]
  /\ pc \in {"idle", "truncate", "exit", "open", "image", "flush", "map", "check",
             "close", "remove", "use"}
  /\ opened \in Ids /\ size \in Nat /\ faults \in Nat /\ made \subseteq Ids

(* A running block_init works on its own block, whose length it has set    *)
(* before it opens the index.                                              *)
InitRunInv ==
  /\ pc \in {"truncate", "exit", "image", "flush", "close", "remove"} => job.op = "init"
  /\ pc \in {"check", "use"} => job.op # "init"
  /\ pc # "idle" /\ job.op = "init" => opened = job.block /\ job.block \notin made
  /\ pc \in {"open", "image", "flush", "map", "close"} /\ job.op = "init"
       => main[job.block] = "full"
  /\ pc = "image" => index[opened].length = 0
  /\ pc = "map" => index[opened].length > 0
  /\ pc \in {"image", "flush", "map", "close"} /\ job.op = "init" => index[opened].exists
  /\ pc \in {"flush", "map", "close"} /\ job.op = "init" => index[opened].image = NodeBase
  /\ pc = "close" => index[opened].length >= FirstMap

(* What is in an index of length n that is not the one being created.      *)
Created(i) == i.length = 0 \/ (Whole(i) /\ i.length >= FirstMap)

IndexesInv ==
  \A b \in Ids :
    /\ index[b].length = 0 => index[b].image = 0
    /\ ~ Whole(index[b]) => index[b].files = {} /\ index[b].next = 1
    /\ index[b].image > 0 => main[b] = "full"
    /\ b \in made => /\ index[b].exists /\ index[b].image = NodeBase
                     /\ index[b].length >= FirstMap
    /\ faults = 0 => \/ Created(index[b])
                     \/ b = opened /\ job.op = "init" /\ pc \in {"flush", "map", "remove"}

BlockInv == TypeInv /\ InitRunInv /\ IndexesInv /\ UsesWholeIndex
=============================================================================
