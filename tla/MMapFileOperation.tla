-------------------------- MODULE MMapFileOperation --------------------------
(***************************************************************************)
(* MMapFileOperation, and the MMapFile it owns: a FileOperation whose reads*)
(* and writes go through a shared mapping as far as the mapping reaches,   *)
(* one attempt to extend it included, and through the loops of             *)
(* FileOperation beyond.  The mapping and the system calls see the same    *)
(* bytes.  Operations are those IndexHandle uses; a process may end at any *)
(* moment, and the next one makes a new object for the same file.          *)
(***************************************************************************)
EXTENDS Integers, FiniteSetsExt

CONSTANTS
  MAX_DISK_TIMES, FirstFd, O_CREAT,  \* as in FileOperation
  MaxLen, Lengths,                   \* bounds: the file, a transfer
  Offsets,                           \* bound: where a transfer begins
  FirstMap,  \* mmap_option.first_mmap_size_
  PerMap,    \* mmap_option.per_mmap_size_
  MaxMap     \* mmap_option.max_mmap_size_

ASSUME MMapAssumption ==
  /\ FirstMap \in 1 .. MaxMap /\ PerMap \in Nat \ {0} /\ MaxMap \in Nat
  /\ MAX_DISK_TIMES \in Nat \ {0} /\ FirstFd \in Nat /\ O_CREAT \in BOOLEAN
  /\ MaxLen \in Nat /\ Lengths \subseteq 0 .. MaxLen /\ Offsets \subseteq 0 .. MaxLen

VARIABLES bytes, size, exists, opened, fd, cursor, busy, job, was, ret,
  map_file,   \* map_file_: "null", "live", or "deleted" and not cleared
  data,       \* MMapFile::data_ is not null
  map_size,   \* MMapFile::size_
  is_mapped,
  before      \* lengths of mapping and file when the last access began

fileVars == <<bytes, size, exists, opened, fd, cursor, busy, job, was, ret>>
mapVars  == <<map_file, data, map_size, is_mapped>>
vars     == <<fileVars, mapVars, before>>

File == INSTANCE FileOperation

Unmapped == [mapped |-> 0, size |-> 0]

Init ==
  /\ File!Init
  /\ map_file = "null" /\ data = FALSE /\ map_size = 0 /\ is_mapped = FALSE
  /\ before = Unmapped
-----------------------------------------------------------------------------
(* ensureFileSize: the file is extended when it is shorter; the storage    *)
(* ends at MaxLen.  A mutant of it first.                                  *)
NeverExtended(n) == size
Extended(n)      == Max({size, n})

(* MMapFile::mmapFile after the constructor: the file is extended first,   *)
(* then mapped, and either may fail.                                       *)
Maps(first) ==
  {[ok |-> FALSE, map_size |-> first, size |-> size],
   [ok |-> FALSE, map_size |-> 0, size |-> Extended(first)],
   [ok |-> TRUE, map_size |-> first, size |-> Extended(first)]}

MmapFile(first) ==
  /\ ~ is_mapped /\ first <= MaxLen
  /\ \E h \in File!Checks :
       /\ File!SetHandle(h)
       /\ \/ /\ h.fd < 0
             /\ File!AtOnce("TFS_ERROR")
             /\ UNCHANGED <<bytes, size, mapVars>>
          \/ /\ h.fd >= 0 /\ map_file' = "live"
             /\ \E m \in Maps(first) :
                  /\ is_mapped' = m.ok /\ data' = m.ok
                  /\ map_size' = m.map_size /\ size' = m.size
                  /\ File!AtOnce(IF m.ok THEN "TFS_SUCCESS" ELSE "TFS_ERROR")
             /\ UNCHANGED bytes
  /\ before' = Unmapped

(* IndexHandle::remove: munmap_file deletes the mapping and leaves         *)
(* map_file_ as it is, then the file is unlinked.                          *)
Remove ==
  /\ map_file' = IF is_mapped THEN "deleted" ELSE map_file
  /\ data' = (data /\ ~ is_mapped) /\ is_mapped' = FALSE
  /\ File!UnlinkFile
  /\ before' = Unmapped
  /\ UNCHANGED map_size

FlushFile ==
  /\ \E r \in {"TFS_SUCCESS", "TFS_ERROR"} :
       /\ ~ is_mapped => r = "TFS_SUCCESS"
       /\ File!AtOnce(r)
  /\ before' = Unmapped
  /\ UNCHANGED <<bytes, size, exists, opened, fd, cursor, mapVars>>

GetFileSize ==
  /\ File!Inspect
  /\ before' = Unmapped
  /\ UNCHANGED mapVars
-----------------------------------------------------------------------------
(* remapFile when the access would leave the mapping.                      *)

UnclampedSize == map_size + PerMap  \* mutant of RemappedSize
RemappedSize  == Min({map_size + PerMap, MaxMap})

Remaps(n, offset) ==
  LET stay == [map_size |-> map_size, size |-> size]
  IN  IF \/ ~ is_mapped \/ offset + n <= map_size
         \/ ~ data \/ map_size = 0 \/ map_size = MaxMap \/ RemappedSize > MaxLen
      THEN {stay}
      ELSE {stay, [map_size |-> map_size, size |-> Extended(RemappedSize)],
            [map_size |-> RemappedSize, size |-> Extended(RemappedSize)]}

OffByOne(n, offset, s) == is_mapped /\ offset + n <= s + 1  \* mutant of Covers
Covers(n, offset, s)   == is_mapped /\ offset + n <= s

(* memcpy to or from the mapping, as a loop that is done.                  *)
Copy(call, n, offset) ==
  /\ bytes' = IF call = "pread" THEN bytes
              ELSE [p \in File!Positions |-> IF p \in offset .. offset + n - 1
                                             THEN p - offset + 1 ELSE bytes[p]]
  /\ job' = [call |-> call, n |-> n, at |-> offset, left |-> 0, i |-> 0,
             buf |-> IF call = "pread" THEN [j \in 1 .. n |-> bytes[offset + j - 1]]
                                       ELSE <<>>]
  /\ was' = [bytes |-> bytes, size |-> size']
  /\ ret' = "TFS_SUCCESS"
  /\ UNCHANGED <<exists, opened, fd, cursor, busy>>

(* pread_file and pwrite_file.                                             *)
Access(call, n, offset) ==
  /\ ~ busy
  /\ before' = [mapped |-> IF is_mapped THEN map_size ELSE 0, size |-> size]
  /\ \E r \in Remaps(n, offset) :
       /\ map_size' = r.map_size /\ size' = r.size
       /\ IF Covers(n, offset, r.map_size)
          THEN Copy(call, n, offset)
          ELSE UNCHANGED bytes /\ File!Begin(call, n, offset)
  /\ UNCHANGED <<map_file, data, is_mapped>>

Loop == File!Loop /\ UNCHANGED <<mapVars, before>>
-----------------------------------------------------------------------------
(* The destructor, or the end of the process, in the middle of a loop too: *)
(* what is in the file stays.                                              *)
End ==
  /\ map_file' = "null" /\ data' = FALSE /\ map_size' = 0 /\ is_mapped' = FALSE
  /\ opened' = {} /\ fd' = -1 /\ cursor' = 0
  /\ busy' = FALSE /\ job' = File!NoJob /\ was' = File!NoFile /\ ret' = "none"
  /\ before' = Unmapped
  /\ UNCHANGED <<bytes, size, exists>>

(* IndexHandle::load maps the whole file if it may, else its first part.   *)
FirstMappings == {FirstMap} \cup (IF size > FirstMap /\ size <= MaxMap THEN {size} ELSE {})

(* Bound: accesses that stay within MaxLen.                                *)
Accesses ==
  \E call \in {"pread", "pwrite"}, n \in Lengths, offset \in Offsets :
    offset + n <= MaxLen /\ Access(call, n, offset)

Next ==
  \/ \E first \in FirstMappings : MmapFile(first)
  \/ Accesses \/ Loop \/ FlushFile \/ GetFileSize \/ Remove \/ End

Spec == Init /\ [][Next]_vars
-----------------------------------------------------------------------------
TypeOK ==
  /\ File!TypeOK
  /\ map_file \in {"null", "live", "deleted"} /\ data \in BOOLEAN
  /\ map_size \in 0 .. MaxMap /\ is_mapped \in BOOLEAN

(* While the object counts as mapped its mapping exists, is the one it     *)
(* points at, and ends inside the file: no access through it can hit a     *)
(* page behind the end, also after a mapping or an extension that failed.  *)
MappingInsideFile ==
  is_mapped => map_file = "live" /\ data /\ map_size \in 1 .. size

(* The promises of the loops hold whichever way an access took.            *)
WritesPrefix == File!WritesPrefix
ReadsExactly == File!ReadsExactly

(* The inductive invariant of the proofs: what holds between two system    *)
(* calls of a loop, and a mapping that ends inside the file whose          *)
(* descriptor is open.                                                     *)
MapInv == File!LoopInv /\ TypeOK /\ MappingInsideFile /\ (is_mapped => fd >= 0)

(* What the latest access through a mapping did to it, and to the length of*)
(* the file, before it read or wrote: nothing, or one attempt to extend.   *)
(* Only an access that the mapping does not cover runs a loop.             *)
BegunInv ==
  LET longer == Min({before.mapped + PerMap, MaxMap})
  IN  /\ before.mapped \in 0 .. MaxMap /\ before.size \in 0 .. MaxLen
      /\ before.mapped > 0 =>
        /\ is_mapped /\ job.call \in {"pread", "pwrite"}
        /\ \/ map_size = before.mapped /\ was.size = before.size
           \/ /\ before.mapped < job.at + job.n /\ before.mapped # MaxMap /\ longer <= MaxLen
              /\ map_size \in {before.mapped, longer} /\ was.size = Max({before.size, longer})
        /\ map_size <= was.size
        /\ job.at + job.n <= map_size => ~ busy /\ ret = "TFS_SUCCESS"
        /\ job.call = "pread" => size = was.size
=============================================================================
