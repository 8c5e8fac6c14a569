------------------------------ MODULE BlockRace ------------------------------
(***************************************************************************)
(* A block_read that runs while block_write and block_delete change the    *)
(* same block.  Each process has its own mapping of the index and its own  *)
(* locals; the words of the index are shared and no tool takes a lock.     *)
(* Nothing is killed here: to a reader that runs, a writer that was killed *)
(* is one that does not go on, and none is obliged to.                     *)
(* The variables of IndexHandle are those of the tools that change the     *)
(* block, one of them at a time; the reader is a second instance of it.    *)
(*                                                                         *)
(* Two things that are one step of a tool alone are taken apart here.      *)
(* ensureFileSize compares the length of the file (fstat) and sets it      *)
(* (ftruncate): in between, another process may have made the file longer, *)
(* and then it is cut off.  A node is copied word by word, by the one that *)
(* stores it and by the one that reads it.                                 *)
(***************************************************************************)
EXTENDS IndexProperties

CONSTANT ReadWords  \* bound: the words of a node that the reader's copy may
                    \* take before the others

ASSUME RaceAssumption ==
  ReadWords \subseteq {"lo", "hi", "inner_offset", "size", "next", "pad"}

VARIABLES
  rmapped, rop, rpc, rkey, rpos, rprev, rcur, rmeta, rstep, rret, \* the reader
  rtodo,  \* the length the reader is about to set the file to, 0 if none
  wtodo,  \* the same of the tool that changes the block
  rcopy,  \* the words that the reader has copied of the node it is at
  cut,    \* whether the file was made shorter
  failed, \* history: whether the file could ever not be extended or written
  files,  \* history: the files that are linked into the index
  seen    \* history: whether the reader's file was linked, at each moment of
          \* its run; of the last run when none runs

runVars     == <<rmapped, rop, rpc, rkey, rpos, rprev, rcur, rmeta, rstep, rret>>
readerVars  == <<runVars, rtodo, rcopy>>
toolVars    == <<mapped, op, pc, key, pos, prev, cur, meta, step, ret>>
writerVars  == <<toolVars, wtodo>>
historyVars == <<failed, files, seen>>
raceVars    == <<mem, fsize, block, kills, cut, readerVars, writerVars, historyVars>>

Reader == INSTANCE IndexHandle WITH
            mapped <- rmapped, op <- rop, pc <- rpc, key <- rkey, pos <- rpos,
            prev <- rprev, cur <- rcur, meta <- rmeta, step <- rstep, ret <- rret

NoWords == [w \in {} |-> 0]

RaceInit ==
  /\ Init /\ Reader!Init
  /\ rtodo = 0 /\ wtodo = 0 /\ rcopy = NoWords /\ cut = FALSE
  /\ failed = FALSE /\ files = {} /\ seen = {}
-----------------------------------------------------------------------------
(* The extension of the file, in its two steps.                            *)

(* The node a process is about to access, 0 if none.                       *)
ReaderNode == CASE rpc = "walk"      -> rpos
                [] rpc = "read_meta" -> rcur
                [] OTHER             -> 0

WriterNode == CASE pc = "walk"                                        -> pos
                [] pc = "alloc"                                       -> mem[FREE_HEAD]
                [] pc \in {"store", "relink", "unlink", "free"}       -> cur
                [] pc \in {"link", "unlink_prev", "bypass"}           -> prev
                [] OTHER                                              -> 0

(* remapFile is called for a node at o that is not in the mapping of m     *)
(* bytes, and asks for n bytes of file; no more than the storage has.      *)
Wanted(m)    == Smaller(m + PerMap, MaxMap)
Remaps(o, m) == o # 0 /\ o + META_SIZE > m /\ m # MaxMap
NotAsLong(o, m) == Remaps(o, m) /\ Wanted(m) <= Capacity /\ fsize # Wanted(m)  \* mutant
Short(o, m)  == Remaps(o, m) /\ Wanted(m) <= Capacity /\ fsize < Wanted(m)

ReaderShort == Short(ReaderNode, rmapped)
WriterShort == Short(WriterNode, mapped)

(* fstat tells that the file is too short.                                 *)
ReaderCompares ==
  /\ rtodo = 0 /\ ReaderShort
  /\ rtodo' = Wanted(rmapped)
  /\ UNCHANGED <<mem, fsize, block, kills, cut, failed, runVars, rcopy, writerVars>>

WriterCompares ==
  /\ wtodo = 0 /\ WriterShort
  /\ wtodo' = Wanted(mapped)
  /\ UNCHANGED <<mem, fsize, block, kills, cut, failed, toolVars, readerVars>>

(* ftruncate sets the length n of then, and what lies behind is gone.      *)
Truncates(n) ==
  /\ n # 0
  /\ fsize' = n
  /\ cut' = (n < fsize)
  /\ mem' = [a \in Addr |-> IF a >= n /\ a < fsize THEN 0 ELSE mem[a]]
  /\ UNCHANGED <<block, kills, failed>>

ReaderTruncates ==
  /\ rcopy = NoWords /\ Truncates(rtodo) /\ rtodo' = 0
  /\ UNCHANGED <<runVars, rcopy, writerVars>>

WriterTruncates ==
  /\ Truncates(wtodo) /\ wtodo' = 0
  /\ UNCHANGED <<toolVars, readerVars>>

(* Any other step of a process whose mapping m becomes m1 and that may     *)
(* itself write n bytes at o: it had no need to set the length, or that    *)
(* failed and it goes on with the mapping it has.                          *)
GoesOn(todo, o, m, m1, n) ==
  /\ todo = 0 => ~ Short(o, m)
  /\ todo # 0 => /\ m1 # todo
                 /\ fsize' \in {fsize} \cup {Larger(fsize, o + i) : i \in 1 .. n}
  /\ failed' = (\/ failed \/ todo # 0 \/ ret' = "IO_ERROR"
                \/ Remaps(o, m) /\ Wanted(m) > Capacity)
  /\ UNCHANGED cut
-----------------------------------------------------------------------------
(* The copies of a node.                                                   *)

(* The words that a store copies become visible in any order: v is stored  *)
(* at o, where the file has words already, and others see those of W.      *)
Words        == {"lo", "hi", "inner_offset", "size", "next", "pad"}
Mix(W, v, u) == [w \in Words |-> IF w \in W THEN v[w] ELSE u[w]]

Copying(o, v) ==
  /\ o + META_SIZE <= fsize
  /\ \E W \in SUBSET Words : mem' = WriteMeta(mem, o, Mix(W, v, ReadMeta(mem, o)))
  /\ mem' # mem

CopyPart ==
  /\ wtodo = 0 /\ ~ WriterShort
  /\ \/ pc = "store" /\ Copying(cur, Inserted(meta))
     \/ pc = "free"  /\ Copying(cur, Freed(mem, meta))
  /\ UNCHANGED <<fsize, block, kills, cut, failed, writerVars, readerVars>>

(* Nor does the reader copy them at one moment: it takes one earlier.      *)
ReaderCopies ==
  /\ ReaderNode # 0 /\ Within(ReaderNode) /\ ~ (rtodo = 0 /\ ReaderShort)
  /\ \E w \in ReadWords \ DOMAIN rcopy :
       rcopy' = [x \in DOMAIN rcopy \cup {w} |->
                  IF x = w THEN ReadMeta(mem, ReaderNode)[w] ELSE rcopy[x]]
  /\ UNCHANGED <<mem, fsize, block, kills, cut, failed, runVars, rtodo, writerVars>>

(* The node as the reader has it, the words it did not take before read now.*)
NodeRead == Mix(DOMAIN rcopy, rcopy, ReadMeta(mem, ReaderNode))
-----------------------------------------------------------------------------
WriterMoves ==
  /\ \/ StartWrite
     \/ \E k \in FileIds : StartLookup("delete", k)
     \/ ToolStep
  /\ GoesOn(wtodo, WriterNode, mapped, mapped', META_SIZE)
  /\ wtodo' = 0 /\ UNCHANGED readerVars

ReaderStarts ==
  /\ \E k \in FileIds : Reader!StartLookup("read", k)
  /\ UNCHANGED <<rtodo, rcopy, cut, failed, writerVars>>

ReaderMoves ==
  /\ \/ Reader!HashFindSlot \/ Reader!HashFindEnd \/ Reader!HashFindFails
     \/ Reader!HitOn(NodeRead) \/ Reader!PassOn(NodeRead)
     \/ Reader!TakesMeta(NodeRead) \/ Reader!ReadBlock
  /\ UNCHANGED writerVars
  /\ GoesOn(rtodo, ReaderNode, rmapped, rmapped', 0)
  /\ rtodo' = 0 /\ rcopy' = NoWords

(* A file is there from the store that links its node to the one that      *)
(* unlinks it.                                                             *)
Links   == pc = "link" /\ pc' = "commit"
Unlinks == pc = "unlink" /\ pc' = "free"

History ==
  /\ files' = IF Links THEN files \cup {key} ELSE IF Unlinks THEN files \ {key} ELSE files
  /\ seen' = IF rpc' = "idle" THEN seen
             ELSE (IF rpc = "idle" THEN {} ELSE seen) \cup {rkey' \in files'}

ReaderRuns == ~ cut /\ (ReaderCompares \/ ReaderTruncates \/ ReaderMoves) /\ History

OthersRun ==
  /\ ~ cut
  /\ \/ WriterCompares \/ WriterTruncates \/ WriterMoves
     \/ CopyPart \/ ReaderCopies \/ ReaderStarts
  /\ History

(* Bound: what processes do whose mapping is longer than the file is left  *)
(* out; a run that has cut the file off ends there.                        *)
Stopped == cut /\ UNCHANGED raceVars

RaceNext == ReaderRuns \/ OthersRun \/ Stopped

(* A reader that runs keeps running, whatever the other tools do.          *)
RaceSpec == RaceInit /\ [][RaceNext]_raceVars /\ WF_raceVars(ReaderRuns)
-----------------------------------------------------------------------------
(* A read is linearizable although nothing is locked: it finds only a file *)
(* that was there, and misses only one that was not, at some moment of its *)
(* run - also when the node it walks to was unlinked, freed, half          *)
(* overwritten or reused under it, while it copies it, or is not in its    *)
(* mapping.                                                                *)
ReadLinearizable ==
  rpc = "idle" =>
    /\ rret = "TFS_SUCCESS"               => TRUE \in seen
    /\ rret = "EXIT_MEFA_NOT_FOUND_ERROR" => FALSE \in seen

(* Two processes that extend the index each compare and then set its       *)
(* length, in any order: this cuts nothing off as long as every extension  *)
(* and every store succeeds, since then no process misses a mapping of     *)
(* what another has still to add.  Once one failed it is not so: a writer  *)
(* then adds its node with pwrite64, and a reader that was held up in      *)
(* between sets the length that it asked for, and cuts the node off.       *)
CutOnlyAfterFailure == cut => failed

(* A reader is never caught in a circle of nodes: it may be led from a     *)
(* node that was freed under it into the free list, but comes to its end.  *)
ReadEnds == rpc # "idle" ~> rpc = "idle" \/ cut
-----------------------------------------------------------------------------
(* Why reads are linearizable: until the file is cut off, the index is in  *)
(* order, and the history holds what the reader will report.  A word that  *)
(* it copied earlier and that is not of its key it read at a moment when   *)
(* its file was not there, or before the chain led to another file.        *)
ReaderInv ==
  /\ rpc \in {"idle", "find", "walk", "read_meta", "pread_block"} /\ rmapped \in Int
  /\ rpc # "idle" => rop = "read" /\ rkey \in FileIds
  /\ rtodo \in Int /\ rtodo <= Capacity

(* What is not the node of the key, in the words w of it.                  *)
Differs(w, v) == (w = "lo" /\ v # rkey) \/ (w = "hi" /\ v # 0)

SeenInv ==
  /\ files = Indexed
  /\ rpc # "idle" => IF rkey \in files THEN TRUE \in seen ELSE FALSE \in seen
  /\ rpc = "walk" /\ rpos = 0 => FALSE \in seen
  /\ rpc = "walk" /\ rpos # 0 =>
       /\ TRUE \in seen
       /\ FALSE \in seen \/ (rkey \in files /\ rpos = BucketHead(rkey))
       /\ \A w \in DOMAIN rcopy : Differs(w, rcopy[w]) => FALSE \in seen
  /\ rpc \in {"read_meta", "pread_block"} => TRUE \in seen

RaceInv ==
  ~ cut => /\ IndexInv /\ LedgerInv /\ ReaderInv /\ SeenInv
           /\ wtodo \in Int /\ wtodo <= Capacity
=============================================================================
