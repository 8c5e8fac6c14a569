----------------------------- MODULE Durability -----------------------------
(***************************************************************************)
(* What of an index survives a power failure.  The stores of the tools go  *)
(* to the page cache; the kernel writes a part of it back whenever it      *)
(* likes, and a tool makes it do so only by msync with MS_SYNC, in the     *)
(* destructor of the mapping, after it has reported what it did.  The      *)
(* flush before that is msync with MS_ASYNC, which waits for nothing.  The *)
(* main block is never synchronised, so nothing is known of it afterwards. *)
(***************************************************************************)
EXTENDS IndexProperties

CONSTANTS
  UnitWords,   \* words the disk keeps or loses together: a sector
  MaxFailures  \* bound: how often the power fails

ASSUME DurabilityAssumption ==
  UnitWords \in Nat \ {0} /\ FileWords % UnitWords = 0 /\ MaxFailures \in Nat

VARIABLES
  disk,      \* the words of the index that are on the disk
  closing,   \* what a process has mapped that has done its work and reported
             \* it, but has not destroyed the mapping yet; 0 if none
  failures,  \* how often the power failed
  durable    \* history: files whose write reported success, and then got it
             \* synchronised through the mapping, before the power failed
             \* for the first time, and whose deletion was not asked for
             \* since; none once, after that, a write fails or the power
             \* does so again

durVars == <<disk, closing, failures, durable>>
allVars == <<vars, durVars>>

UnitSize == 4 * UnitWords
Units    == 0 .. FileWords \div UnitWords - 1

(* The disk when it has the words of m in the units U.                     *)
Written(U, m) == [a \in Addr |-> IF a \div UnitSize \in U THEN m[a] ELSE disk[a]]

(* block_init ends with the destructor: a new index is on the disk.        *)
DurInit == Init /\ disk = mem /\ closing = 0 /\ failures = 0 /\ durable = {}

(* Whether a run of o that was at step at and ends with r destroys its     *)
(* mapping: block_write always does; block_read exits before it when the   *)
(* node is not found or not read; block_delete does so only if it failed.  *)
Syncs(o, at, r) ==
  /\ r # "killed"
  /\ o = "read"   => at = "pread_block"
  /\ o = "delete" => r \notin {"TFS_SUCCESS", "TFS_ERROR"}

(* msync of a mapping of n bytes reaches these, and no further.            *)
SyncedWhole(n) == {u \in Units : UnitSize * (u + 1) <= n}  \* mutant of Synced
Synced(n)      == {u \in Units : UnitSize * u < n}

Ends == pc # "idle" /\ pc' = "idle"

DurableStep ==
  /\ closing = 0
  /\ Next
  /\ closing' = IF Ends /\ Syncs(op, pc, ret') THEN mapped ELSE 0
  /\ durable' = IF Ends /\ op = "write" /\ ret' = "IO_ERROR" /\ failures > 0
                THEN {}
                ELSE IF op' = "delete" THEN durable \ {key'} ELSE durable
  /\ UNCHANGED <<disk, failures>>

(* The mapping is destroyed.  Nobody looks at what msync returns; and the  *)
(* process may be killed before it comes to that.                          *)
Destroys ==
  /\ closing # 0 /\ closing' = 0
  /\ \/ UNCHANGED <<disk, durable>>
     \/ /\ disk' = Written(Synced(closing), mem)
        /\ durable' = IF /\ op = "write" /\ ret = "TFS_SUCCESS" /\ failures = 0
                         /\ BucketHead(key) + META_SIZE <= closing
                      THEN durable \cup {key} ELSE durable
  /\ UNCHANGED <<vars, failures>>

WriteBack ==
  /\ \E u \in Units : disk' = Written({u}, mem)
  /\ disk' # disk
  /\ UNCHANGED <<vars, closing, failures, durable>>

(* The power fails.  The index is what the disk has of it; its length is   *)
(* one it had, up to the last unit that is not empty at least.             *)
PowerFailure ==
  /\ failures < MaxFailures
  /\ failures' = failures + 1
  /\ mem' = disk
  /\ \E n \in {fsize} \cup {UnitSize * (u + 1) : u \in Units} :
       /\ FirstMap <= n /\ n <= fsize
       /\ fsize' = n
       /\ \A a \in Addr : a >= fsize' => disk[a] = 0
  /\ block' = [o \in DataOffsets |-> IF block[o] = 0 THEN 0 ELSE TORN]
  /\ Exit(IF pc = "idle" THEN ret ELSE "killed")
  /\ closing' = 0
  /\ durable' = IF failures = 0 THEN durable ELSE {}
  /\ UNCHANGED <<op, key, kills, disk>>

DurNext == DurableStep \/ Destroys \/ WriteBack \/ PowerFailure

DurSpec == DurInit /\ [][DurNext]_allVars
-----------------------------------------------------------------------------
(* A file whose write reported success, and whose process then destroyed   *)
(* its mapping and msync did not fail, stays until its deletion is asked   *)
(* for, however much of what was stored later, by deletes that do not      *)
(* synchronise and by runs that were cut off, was on the disk when the     *)
(* power failed, and whatever the tools do with the index afterwards -     *)
(* until the power fails again or a write does: with a slot on the disk    *)
(* whose node is not, it may fail to link behind that node, and takes back *)
(* an index_file_size_ that it did not extend, so the next node goes where *)
(* a durable one is.                                                       *)
Durable == durable \subseteq Indexed
-----------------------------------------------------------------------------
(* The inductive invariant behind Durable, up to the first power failure.  *)
(* What block_write synchronised when it ended with success is the slot of *)
(* the file and its node; no later store changes either of them, so what   *)
(* is on the disk of them is also what a later write-back puts there.      *)
OnDisk(k) == /\ disk[SlotAddr(k % BucketSize)] = BucketHead(k)
             /\ ReadMeta(disk, BucketHead(k)) = ReadMeta(mem, BucketHead(k))

DiskInv ==
  failures = 0 =>
    /\ IndexInv
    /\ durable \subseteq Indexed /\ \A k \in durable : OnDisk(k)
    /\ op = "delete" => key \notin durable
    /\ closing \in Nat
    /\ closing # 0 => pc = "idle"
    /\ closing # 0 /\ op = "write" /\ ret = "TFS_SUCCESS" => key \in Indexed
=============================================================================
