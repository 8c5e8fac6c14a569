-------------------------- MODULE SpaceReclamation --------------------------
(***************************************************************************)
(* The tools of IndexHandle and a fourth one, block_recla, which calls     *)
(* IndexHandle::space_reclamation.  It looks the files up one after the    *)
(* other, copies each to the front of the file it is handed, chunk by      *)
(* chunk, and at the end resets what the header says of deleted files.     *)
(*                                                                         *)
(* The file block_recla hands in is not the main block: it builds the path *)
(* with the number MAINBLOCK_DIR_PREFIX (-8027) where the other tools use  *)
(* the directory MAINLOCK_DIR_PREFIX.  That file is created empty, so only *)
(* its length is kept here; all its bytes are zero.                        *)
(***************************************************************************)
EXTENDS IndexProperties

CONSTANT BufferSize  \* sizeof(buffer) of space_reclamation

ASSUME BufferAssumption == BufferSize \in Nat \ {0}

VARIABLES
  handed,  \* length of the file handed to space_reclamation
  loop     \* its locals: i, file_count, over_write_offset, and the bytes of
           \* the current file copied so far (what current_write_offset and
           \* residue_bytes count up and down)

reclaVars == <<handed, loop>>
allVars   == <<vars, reclaVars>>

NoLoop == [i |-> 1, file_count |-> 0, over |-> 0, done |-> 0]

ReclaInit == Init /\ handed = 0 /\ loop = NoLoop

(* The run ends, or goes on to l with the loop as it is.                   *)
EndsRecla(r)  == Exit(r) /\ loop' = NoLoop /\ UNCHANGED <<op, key, kills>>
GoesOn(l)     == Goto(l) /\ UNCHANGED <<mapped, regVars>>
-----------------------------------------------------------------------------
StartRecla ==
  /\ pc = "idle"
  /\ Load
  /\ pc' = "check" /\ op' = "recla" /\ key' = 1 /\ ret' = "none"
  /\ UNCHANGED <<mem, block, pos, prev, cur, meta, step, kills, reclaVars>>

(* There has to be something to reclaim, by count and by size.             *)
MayReclaim(m) == m[DEL_FILE_COUNT] > 0 /\ m[DEL_SIZE] > 0

CheckDeleted ==
  /\ pc = "check"
  /\ \/ /\ MayReclaim(mem)
        /\ loop' = [NoLoop EXCEPT !.file_count = mem[FILE_COUNT]]
        /\ GoesOn("next_file")
     \/ /\ ~ MayReclaim(mem)
        /\ EndsRecla("EXIT_BLOCK_NOTHING_DELETED")
  /\ UNCHANGED <<fileVars, handed>>

(* The head of the loop.  The lookup itself is hash_find; when it finds    *)
(* nothing, space_reclamation returns its code: the one it means to skip   *)
(* deleted files by, EXIT_META_NOT_FOUND_ERROR, is another.                *)
AllFilesButOne(l) == l.i >= l.file_count  \* mutant of AllFiles
AllFiles(l)       == l.i > l.file_count

NextFile ==
  /\ pc = "next_file"
  /\ GoesOn(IF AllFiles(loop) THEN "truncate" ELSE "find")
  /\ UNCHANGED <<fileVars, reclaVars>>

(* One chunk is read and written back further in front.  Either may fail,  *)
(* a write having made the file longer or not.                             *)
CopyChunk ==
  LET n     == Smaller(BufferSize, meta.size - loop.done)
      after == loop.done + n
  IN  /\ pc = "pread_block" /\ op = "recla"
      /\ \/ /\ meta.inner_offset + after <= handed
            /\ handed' = Larger(handed, loop.over + n)
            /\ \/ /\ after < meta.size
                  /\ loop' = [loop EXCEPT !.over = @ + n, !.done = after]
                  /\ UNCHANGED <<pc, key>>
               \/ /\ after = meta.size
                  /\ loop' = [loop EXCEPT !.over = @ + n, !.done = 0, !.i = @ + 1]
                  /\ pc' = "next_file" /\ key' = key + 1
            /\ UNCHANGED <<op, ret, kills, mapped, regVars>>
         \/ /\ \/ UNCHANGED handed
               \/ /\ meta.inner_offset + after <= handed
                  /\ handed' = Larger(handed, loop.over + n)
            /\ EndsRecla("IO_ERROR")
      /\ UNCHANGED fileVars

(* Flushing and truncating: whether they succeed is not looked at.         *)
Truncate ==
  /\ pc = "truncate"
  /\ \/ UNCHANGED handed
     \/ mem[SIZE] >= 0 /\ handed' = mem[SIZE]
  /\ GoesOn("reset")
  /\ UNCHANGED <<fileVars, loop>>

(* The header fields that are reset, in order, and what to.                *)
ResetsKeepDelSize(m) == << <<DATA_FILE_OFFSET, m[SIZE]>>, <<DEL_FILE_COUNT, 0>> >>  \* mutant
Resets(m) == << <<DATA_FILE_OFFSET, m[SIZE]>>, <<DEL_FILE_COUNT, 0>>, <<DEL_SIZE, 0>> >>

ResetHeader ==
  LET r == Resets(mem)
  IN  /\ pc = "reset"
      /\ mem' = [mem EXCEPT ![r[step][1]] = r[step][2]]
      /\ \/ /\ step < Len(r)
            /\ step' = step + 1
            /\ Goto("reset")
            /\ UNCHANGED <<mapped, pos, prev, cur, meta, loop>>
         \/ step = Len(r) /\ EndsRecla("TFS_SUCCESS")
      /\ UNCHANGED <<fsize, block, handed>>

ReclaStep == CheckDeleted \/ NextFile \/ CopyChunk \/ Truncate \/ ResetHeader

(* A step of the other tools, or of what they and block_recla share:       *)
(* hash_find, read_segment_meta, and being killed.                         *)
IndexStep(A) == /\ A /\ UNCHANGED handed
                /\ loop' = IF pc' = "idle" THEN NoLoop ELSE loop

ReclaNext == IndexStep(Next) \/ StartRecla \/ ReclaStep

ReclaSpec == ReclaInit /\ [][ReclaNext]_allVars
-----------------------------------------------------------------------------
(* While no tool is killed, the bytes of a file stay where no later write  *)
(* touches them, also after data_file_offset_ was set back.                *)
BytesKeptByReclamation == kills = 0 => BytesKept

(* data_file_offset_ accounts for every byte that is counted, as that of a *)
(* file or of a deleted one, before and after a compaction.                *)
OffsetBalance ==
  AtRest /\ kills = 0 => mem[DATA_FILE_OFFSET] = mem[SIZE] + mem[DEL_SIZE]
-----------------------------------------------------------------------------
(* The inductive invariant behind them, while no tool is killed: the index *)
(* and its books are in order, but for the offset that is being reset.     *)
(* block_recla looks id 1 up and no other: were it found, its first chunk  *)
(* would not be in the file handed in, which stays empty.                  *)
Reclaiming == pc # "idle" /\ op = "recla"

HandedInv ==
  /\ handed = 0
  /\ pc \in ReclaSteps => mapped = fsize
  /\ Reclaiming =>
       /\ pc \in ReclaSteps \cup {"find", "walk", "read_meta", "pread_block"} /\ key = 1
       /\ pc # "check" => loop = [NoLoop EXCEPT !.file_count = Cardinality(Indexed)]
       /\ pc = "read_meta" => cur = BucketHead(key)
       /\ pc = "pread_block" => Plain(meta)

EmptiedInv ==
  /\ pc \in {"truncate", "reset"} => Indexed = {} /\ mem[SIZE] = 0
  /\ pc = "reset" => step \in 1 .. 3 /\ (step > 1 => mem[DATA_FILE_OFFSET] = 0)

ReclaInv ==
  kills = 0 =>
    /\ IndexInv /\ NodeSizesInv /\ IdsInv /\ CountInv /\ BytesInv /\ NodesInv
    /\ pc # "reset" => OffsetInv
    /\ HandedInv /\ EmptiedInv
=============================================================================
