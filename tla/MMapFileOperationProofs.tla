----------------------- MODULE MMapFileOperationProofs -----------------------
(***************************************************************************)
(* File access through a mapping, for every length of file, mapping and    *)
(* transfer: the mapping never outgrows the file, and the promises of the  *)
(* loops hold whichever way an access takes.  The steps that are those of  *)
(* FileOperation are taken from FileOperationProofs.                       *)
(***************************************************************************)
EXTENDS MCFileAccess, Sequences, TLAPS

USE MMapAssumption

P == INSTANCE FileOperationProofs

LEMMA AssumptionMet == P!FileOperationAssumption
BY DEF P!FileOperationAssumption
-----------------------------------------------------------------------------
(* File and P are one module.                                              *)

LEMMA SameTerms ==
  /\ File!NoJob = P!NoJob /\ File!NoFile = P!NoFile /\ File!Jobs = P!Jobs
  /\ File!Reads = P!Reads /\ File!Writes = P!Writes /\ File!Positions = P!Positions
  /\ File!Moved = P!Moved
BY DEF File!NoJob, P!NoJob, File!NoFile, P!NoFile, File!Jobs, P!Jobs, File!Reads, P!Reads,
       File!Writes, P!Writes, File!Positions, P!Positions, File!Moved, P!Moved

LEMMA SameTypes == (File!TypeOK <=> P!TypeOK) /\ (File!HandleInv <=> P!HandleInv)
BY SameTerms DEF File!TypeOK, P!TypeOK, File!HandleInv, P!HandleInv,
                 File!NoDescriptorLost, P!NoDescriptorLost

LEMMA SameJobInv == (File!JobInv <=> P!JobInv) /\ (File!Filled <=> P!Filled)
BY SameTerms DEF File!JobInv, P!JobInv, File!Filled, P!Filled

LEMMA SameOverlaid == File!Overlaid <=> P!Overlaid
BY SameTerms, Zenon DEF File!Overlaid, P!Overlaid, File!Max, P!Max

LEMMA SameInv == File!LoopInv <=> P!LoopInv
BY SameTerms, SameTypes, SameJobInv, SameOverlaid DEF File!LoopInv, P!LoopInv

LEMMA SameInvNext == File!LoopInv' <=> P!LoopInv'
BY SameInv, PTL

LEMMA SameReturns == (File!Finish <=> P!Finish) /\ (File!GiveUp <=> P!GiveUp)
BY DEF File!Finish, P!Finish, File!GiveUp, P!GiveUp, File!Return, P!Return,
       File!fileVars, P!fileVars, File!handleVars, P!handleVars

LEMMA SameErrors == (File!SysError <=> P!SysError) /\ (File!EndOfFile <=> P!EndOfFile)
<1>1. File!SysError <=> P!SysError
  BY Zenon DEF File!SysError, P!SysError, File!Return, P!Return, File!fileVars, P!fileVars,
               File!handleVars, P!handleVars, File!TriesAgain, P!TriesAgain,
               File!Transferred, P!Transferred, File!Retried, P!Retried,
               File!Errnos, P!Errnos, File!Writes, P!Writes
<1>2. File!EndOfFile <=> P!EndOfFile
  BY Zenon DEF File!EndOfFile, P!EndOfFile, File!Return, P!Return, File!fileVars, P!fileVars,
               File!handleVars, P!handleVars, File!TriesAgain, P!TriesAgain,
               File!Transferred, P!Transferred, File!Here, P!Here, File!Reads, P!Reads
<1> QED  BY <1>1, <1>2

LEMMA SameTransfers == (File!ReadSome <=> P!ReadSome) /\ (File!WriteSome <=> P!WriteSome)
<1>1. File!ReadSome <=> P!ReadSome
  BY Zenon DEF File!ReadSome, P!ReadSome, File!Return, P!Return, File!fileVars, P!fileVars,
               File!TriesAgain, P!TriesAgain, File!Transferred, P!Transferred,
               File!Here, P!Here, File!Reads, P!Reads
<1>2. File!WriteSome <=> P!WriteSome
  BY Zenon DEF File!WriteSome, P!WriteSome, File!Return, P!Return, File!TriesAgain,
               P!TriesAgain, File!Transferred, P!Transferred, File!Here, P!Here,
               File!Writes, P!Writes, File!Positions, P!Positions, File!Payload, P!Payload,
               File!Max, P!Max
<1> QED  BY <1>1, <1>2

LEMMA SameLoop == File!Loop <=> P!Loop
BY SameReturns, SameErrors, SameTransfers DEF File!Loop, P!Loop

LEMMA SameChecks == File!Closed = P!Closed /\ File!Checks = P!Checks
<1>1. File!Closed = P!Closed
  BY DEF File!Closed, P!Closed
<1>2. ASSUME NEW s PROVE File!FreeFd(s) = P!FreeFd(s)
  BY Zenon DEF File!FreeFd, P!FreeFd, File!Min, P!Min, File!Cardinality, P!Cardinality
<1>3. File!Opens = P!Opens
  BY <1>1, <1>2, Zenon DEF File!Opens, P!Opens
<1> QED  BY <1>1, <1>3, Zenon DEF File!Checks, P!Checks

LEMMA SameAtOnce == ASSUME NEW r PROVE File!AtOnce(r) <=> P!AtOnce(r)
BY SameTerms, Zenon DEF File!AtOnce, P!AtOnce

LEMMA SameSetHandle == ASSUME NEW h PROVE File!SetHandle(h) <=> P!SetHandle(h)
BY Zenon DEF File!SetHandle, P!SetHandle

LEMMA SameOperations == (File!Inspect <=> P!Inspect) /\ (File!UnlinkFile <=> P!UnlinkFile)
BY SameTerms, SameChecks, SameAtOnce, SameSetHandle, Zenon
   DEF File!Inspect, P!Inspect, File!UnlinkFile, P!UnlinkFile

LEMMA SameBegin ==
  ASSUME NEW c, NEW n, NEW o
  PROVE  File!Begin(c, n, o) <=> P!Begin(c, n, o)
BY SameChecks, SameSetHandle, Zenon DEF File!Begin, P!Begin
-----------------------------------------------------------------------------
(* What the steps start from.                                              *)
Mapped == MapInv /\ FirstFd > 0

LEMMA Given ==
  ASSUME Mapped
  PROVE  /\ P!FileOperationAssumption /\ P!Standing /\ P!LoopInv
         /\ bytes \in [File!Positions -> 0 .. MaxLen] /\ size \in 0 .. MaxLen
         /\ map_size \in 0 .. MaxMap /\ is_mapped \in BOOLEAN /\ data \in BOOLEAN
         /\ map_file \in {"null", "live", "deleted"}
         /\ is_mapped => map_file = "live" /\ data /\ map_size \in 1 .. size /\ fd >= 0
BY AssumptionMet, SameInv DEF Mapped, MapInv, P!Standing, TypeOK, File!TypeOK, MappingInsideFile

(* What is left to show once LoopInv is.                                   *)
MapOK ==
  /\ map_file \in {"null", "live", "deleted"} /\ data \in BOOLEAN
  /\ map_size \in 0 .. MaxMap /\ is_mapped \in BOOLEAN
  /\ is_mapped => map_file = "live" /\ data /\ map_size \in 1 .. size /\ fd >= 0

LEMMA Assembled ==
  ASSUME P!LoopInv', MapOK'
  PROVE  MapInv'
<1>1. File!LoopInv' /\ File!TypeOK'
  BY SameInvNext DEF File!LoopInv
<1> QED  BY <1>1 DEF MapInv, MapOK, TypeOK, MappingInsideFile

LEMMA Two ==
  ASSUME NEW a \in Int, NEW b \in Int
  PROVE  /\ Max({a, b}) = IF a >= b THEN a ELSE b
         /\ Min({a, b}) = IF a <= b THEN a ELSE b
<1>1. CASE a >= b
  <2>1. /\ \A x \in {a, b} : (\A y \in {a, b} : x >= y) => x = a
        /\ \A x \in {a, b} : (\A y \in {a, b} : x <= y) => x = b
        /\ \A y \in {a, b} : a >= y /\ b <= y
    BY <1>1
  <2> QED  BY <1>1, <2>1 DEF Max, Min
<1>2. CASE a < b
  <2>1. /\ \A x \in {a, b} : (\A y \in {a, b} : x >= y) => x = b
        /\ \A x \in {a, b} : (\A y \in {a, b} : x <= y) => x = a
        /\ \A y \in {a, b} : b >= y /\ a <= y
    BY <1>2
  <2> QED  BY <1>2, <2>1 DEF Max, Min
<1> QED  BY <1>1, <1>2

(* Extending a file never shortens it, and reaches n.                      *)
LEMMA ExtendedSize ==
  ASSUME Mapped, NEW n \in 0 .. MaxLen
  PROVE  Extended(n) \in 0 .. MaxLen /\ Extended(n) >= size /\ Extended(n) >= n
<1>1. size \in 0 .. MaxLen
  BY Given
<1> QED  BY <1>1, Two DEF Extended

LEMMA ClampedSize ==
  ASSUME Mapped, is_mapped
  PROVE  RemappedSize \in 1 .. MaxMap
<1>1. map_size + PerMap \in Nat \ {0} /\ MaxMap \in Nat \ {0}
  BY Given
<1>2. PICK s \in Int : s = map_size + PerMap
  BY <1>1
<1>3. Min({s, MaxMap}) = IF s <= MaxMap THEN s ELSE MaxMap
  BY Two
<1>4. RemappedSize = Min({s, MaxMap})
  BY <1>2 DEF RemappedSize
<1> QED  BY <1>1, <1>2, <1>3, <1>4

(* Whether or not it extends the mapping, an access leaves it inside the   *)
(* file.                                                                   *)
LEMMA RemapsSafely ==
  ASSUME Mapped, NEW n, NEW offset, NEW r \in Remaps(n, offset)
  PROVE  /\ r.size \in 0 .. MaxLen /\ r.map_size \in 0 .. MaxMap
         /\ is_mapped => r.map_size \in 1 .. r.size
         /\ ~ is_mapped => r.map_size = map_size /\ r.size = size
<1> DEFINE stay == [map_size |-> map_size, size |-> size]
           short == [map_size |-> map_size, size |-> Extended(RemappedSize)]
           long == [map_size |-> RemappedSize, size |-> Extended(RemappedSize)]
<1>1. CASE r = stay
  BY <1>1, Given
<1>2. CASE r # stay
  <2>1. is_mapped /\ RemappedSize <= MaxLen /\ (r = short \/ r = long)
    <3>1. is_mapped /\ ~ (RemappedSize > MaxLen) /\ (r = short \/ r = long)
      BY <1>2 DEF Remaps
    <3> QED  BY <3>1, ClampedSize
  <2>2. RemappedSize \in 1 .. MaxMap
    BY <2>1, ClampedSize
  <2>3. RemappedSize \in 0 .. MaxLen
    BY <2>1, <2>2
  <2>4. /\ Extended(RemappedSize) \in 0 .. MaxLen /\ Extended(RemappedSize) >= size
        /\ Extended(RemappedSize) >= RemappedSize
    BY <2>3, ExtendedSize
  <2>5. map_size \in 1 .. size /\ map_size \in 0 .. MaxMap /\ size \in 0 .. MaxLen
    BY <2>1, Given
  <2>6. /\ r.size = Extended(RemappedSize)
        /\ r.map_size = map_size \/ r.map_size = RemappedSize
    BY <2>1
  <2> QED  BY <2>1, <2>2, <2>4, <2>5, <2>6
<1> QED  BY <1>1, <1>2
-----------------------------------------------------------------------------
LEMMA AtOnceMapped ==
  ASSUME Mapped, NEW r, File!AtOnce(r), NEW h, P!GoodHandle(h), File!SetHandle(h),
         bytes' \in [File!Positions -> 0 .. MaxLen], size' \in 0 .. MaxLen
  PROVE  P!LoopInv'
<1>1. P!FileTyped'
  BY SameTerms DEF P!FileTyped, File!Positions, P!Positions
<1>2. P!AtOnce(r) /\ P!SetHandle(h)
  BY SameAtOnce, SameSetHandle
<1> QED  BY <1>1, <1>2, Given, P!AtOnceSound

LEMMA CheckedHandle ==
  ASSUME Mapped, NEW h \in File!Checks
  PROVE  P!GoodHandle(h) /\ (fd >= 0 => h.fd = fd)
<1>1. P!GoodHandle(h)
  BY SameChecks, Given, P!ChecksGood
<1>2. fd >= 0 => h.fd = fd
  <2>1. fd >= 0 => ~ (fd < 0)
    BY Given DEF P!LoopInv, P!TypeOK
  <2> QED  BY <2>1 DEF File!Checks
<1> QED  BY <1>1, <1>2

LEMMA MmapFileStep ==
  ASSUME Mapped, NEW first \in FirstMappings, MmapFile(first)
  PROVE  MapInv'
<1>1. PICK h \in File!Checks :
        /\ File!SetHandle(h)
        /\ \/ /\ h.fd < 0
              /\ File!AtOnce("TFS_ERROR")
              /\ UNCHANGED <<bytes, size, mapVars>>
           \/ /\ h.fd >= 0 /\ map_file' = "live"
              /\ \E m \in Maps(first) :
                   /\ is_mapped' = m.ok /\ data' = m.ok
                   /\ map_size' = m.map_size /\ size' = m.size
                   /\ File!AtOnce(IF m.ok THEN "TFS_SUCCESS" ELSE "TFS_ERROR")
              /\ UNCHANGED bytes
  BY DEF MmapFile
<1>2. P!GoodHandle(h)
  BY CheckedHandle
<1>3. ~ is_mapped /\ first <= MaxLen /\ first \in 1 .. MaxMap
  BY Given DEF MmapFile, FirstMappings
<1>4. first \in 0 .. MaxLen
  BY <1>3
<1>5. CASE h.fd < 0 /\ File!AtOnce("TFS_ERROR") /\ UNCHANGED <<bytes, size, mapVars>>
  <2>1. bytes' \in [File!Positions -> 0 .. MaxLen] /\ size' \in 0 .. MaxLen
    BY <1>5, Given
  <2>2. P!LoopInv'
    BY <1>1, <1>2, <1>5, <2>1, AtOnceMapped
  <2>3. MapOK'
    BY <1>3, <1>5, Given DEF MapOK, mapVars
  <2> QED  BY <2>2, <2>3, Assembled
<1>6. ASSUME h.fd >= 0, map_file' = "live", UNCHANGED bytes, NEW m \in Maps(first),
             is_mapped' = m.ok, data' = m.ok, map_size' = m.map_size, size' = m.size,
             File!AtOnce(IF m.ok THEN "TFS_SUCCESS" ELSE "TFS_ERROR")
      PROVE  MapInv'
  <2>1. /\ Extended(first) \in 0 .. MaxLen /\ Extended(first) >= first
        /\ size \in 0 .. MaxLen
    BY <1>4, Given, ExtendedSize
  <2>2. /\ m.ok = TRUE \/ m.ok = FALSE
        /\ m.size \in 0 .. MaxLen /\ m.map_size \in 0 .. MaxMap
        /\ m.ok = TRUE => m.map_size = first /\ m.size = Extended(first)
    BY <1>3, <2>1 DEF Maps
  <2>3. bytes' \in [File!Positions -> 0 .. MaxLen] /\ size' \in 0 .. MaxLen
    BY <1>6, <2>2, Given
  <2>4. P!LoopInv'
    BY <1>1, <1>2, <1>6, <2>3, AtOnceMapped
  <2>5. fd' = h.fd
    BY <1>1 DEF File!SetHandle
  <2>6. MapOK'
    <3>1. CASE m.ok = TRUE
      <4>1. map_size' = first /\ size' = Extended(first) /\ fd' >= 0 /\ map_file' = "live"
        BY <1>6, <2>2, <2>5, <3>1
      <4>2. map_size' \in 1 .. size' /\ map_size' \in 0 .. MaxMap
        BY <1>3, <2>1, <4>1
      <4>3. is_mapped' = TRUE /\ data' = TRUE
        BY <1>6, <3>1
      <4> QED  BY <4>1, <4>2, <4>3, Zenon DEF MapOK
    <3>2. CASE m.ok = FALSE
      <4>1. is_mapped' = FALSE /\ data' = FALSE /\ map_size' \in 0 .. MaxMap
        BY <1>6, <2>2, <3>2
      <4> QED  BY <1>6, <4>1, Zenon DEF MapOK
    <3> QED  BY <2>2, <3>1, <3>2
  <2> QED  BY <2>4, <2>6, Assembled
<1> QED  BY <1>1, <1>5, <1>6

LEMMA RemoveStep ==
  ASSUME Mapped, Remove
  PROVE  MapInv'
<1>1. P!LoopInv'
  BY Given, SameOperations, P!UnlinkFileStep DEF Remove
<1>2. MapOK'
  BY Given DEF Remove, MapOK
<1> QED  BY <1>1, <1>2, Assembled

LEMMA GetFileSizeStep ==
  ASSUME Mapped, GetFileSize
  PROVE  MapInv'
<1>1. P!LoopInv'
  BY Given, SameOperations, P!InspectStep DEF GetFileSize
<1>2. is_mapped => fd' >= 0
  <2>1. PICK h \in File!Checks : File!SetHandle(h)
    BY DEF GetFileSize, File!Inspect
  <2> QED  BY <2>1, CheckedHandle, Given DEF File!SetHandle
<1>3. UNCHANGED <<size, mapVars>>
  BY DEF GetFileSize, File!Inspect
<1>4. MapOK'
  BY <1>2, <1>3, Given DEF MapOK, mapVars
<1> QED  BY <1>1, <1>4, Assembled

LEMMA FlushFileStep ==
  ASSUME Mapped, FlushFile
  PROVE  MapInv'
<1> DEFINE h == [fd |-> fd, opened |-> opened, cursor |-> cursor, exists |-> exists]
<1>1. P!GoodHandle(h)
  BY Given DEF P!GoodHandle, P!LoopInv, P!TypeOK, P!HandleInv, P!NoDescriptorLost
<1>2. File!SetHandle(h) /\ UNCHANGED <<bytes, size, fd, mapVars>>
  BY DEF FlushFile, File!SetHandle
<1>3. PICK r : File!AtOnce(r)
  BY DEF FlushFile
<1> HIDE DEF h
<1>4. P!LoopInv'
  BY <1>1, <1>2, <1>3, Given, AtOnceMapped
<1>5. MapOK'
  BY <1>2, Given DEF MapOK, mapVars
<1> QED  BY <1>4, <1>5, Assembled

LEMMA LoopMappedStep ==
  ASSUME Mapped, Loop
  PROVE  MapInv'
<1>1. P!Loop /\ UNCHANGED mapVars
  BY SameLoop DEF Loop
<1>2. P!LoopInv'
  BY <1>1, Given, P!LoopStep
<1>3. fd' = fd /\ size' \in 0 .. MaxLen /\ size' >= size
  BY <1>1, <1>2, Given, P!LoopGrows DEF P!LoopInv, P!TypeOK
<1>4. MapOK'
  BY <1>1, <1>3, Given DEF MapOK, mapVars
<1> QED  BY <1>2, <1>4, Assembled

LEMMA EndStep ==
  ASSUME Mapped, End
  PROVE  MapInv'
<1> DEFINE h == [fd |-> -1, opened |-> {}, cursor |-> 0, exists |-> exists]
<1>1. P!GoodHandle(h) /\ P!SetHandle(h)
  BY Given DEF P!GoodHandle, P!LoopInv, P!TypeOK, End, P!SetHandle
<1>2. /\ busy' = FALSE /\ ret' = "none"
      /\ job' = P!NoJob /\ UNCHANGED <<bytes, size>>
  BY SameTerms DEF End
<1> HIDE DEF h
<1>3. P!LoopInv'
  BY <1>1, <1>2, Given, P!ResetSound, P!FileStays
<1>4. MapOK'
  <2>1. map_size' \in 0 .. MaxMap
    BY DEF End
  <2>2. map_file' = "null" /\ data' = FALSE /\ is_mapped' = FALSE
    BY DEF End
  <2> QED  BY <2>1, <2>2, Zenon DEF MapOK
<1> QED  BY <1>3, <1>4, Assembled
-----------------------------------------------------------------------------
(* An access that is copied from or to the mapping.                        *)
LEMMA CopySound ==
  ASSUME Mapped, NEW call \in {"pread", "pwrite"}, NEW n \in Lengths, NEW offset \in Offsets,
         offset + n <= MaxLen, ~ busy, is_mapped, offset + n <= size',
         size' \in 0 .. MaxLen, Copy(call, n, offset)
  PROVE  P!LoopInv'
<1> DEFINE buffer == IF call = "pread" THEN [j \in 1 .. n |-> bytes[offset + j - 1]] ELSE <<>>
           cells == 0 .. MaxLen - 1
<1>1. /\ n \in 0 .. MaxLen /\ offset \in 0 .. MaxLen
      /\ bytes \in [cells -> 0 .. MaxLen]
      /\ fd >= 0 /\ P!LoopInv
  BY Given DEF File!Positions
<1>2. /\ job' = [call |-> call, n |-> n, at |-> offset, left |-> 0, i |-> 0, buf |-> buffer]
      /\ bytes' = IF call = "pread" THEN bytes
                  ELSE [p \in cells |-> IF p \in offset .. offset + n - 1
                                        THEN p - offset + 1 ELSE bytes[p]]
      /\ was' = [bytes |-> bytes, size |-> size'] /\ ret' = "TFS_SUCCESS"
      /\ UNCHANGED <<exists, opened, fd, cursor, busy>>
  BY DEF Copy, File!Positions
<1>3. \A j \in 1 .. n : bytes[offset + j - 1] \in 0 .. MaxLen
  <2> TAKE j \in 1 .. n
  <2>1. offset + j - 1 \in cells
    BY <1>1
  <2> QED  BY <1>1, <2>1
<1>4. buffer \in Seq(0 .. MaxLen)
  <2>1. n \in Nat
    BY <1>1
  <2>2. [j \in 1 .. n |-> bytes[offset + j - 1]] \in Seq(0 .. MaxLen)
    BY <1>3, <2>1
  <2>3. <<>> \in Seq(0 .. MaxLen)
    OBVIOUS
  <2> QED  BY <2>2, <2>3
<1> HIDE DEF buffer
<1>5. /\ job'.call = call /\ job'.n = n /\ job'.at = offset /\ job'.left = 0
      /\ job'.i = 0 /\ job'.buf = buffer
  BY <1>2
<1>6. job' \in P!Jobs
  BY <1>1, <1>2, <1>4 DEF P!Jobs, P!Reads, P!Writes
<1>7. job' # P!NoJob /\ job'.call # "none"
  BY <1>5 DEF P!NoJob
<1>8. P!Moved' = n
  BY <1>1, <1>5 DEF P!Moved
<1>9. bytes' \in [cells -> 0 .. MaxLen]
  <2>1. CASE call = "pread"
    BY <1>1, <1>2, <2>1
  <2>2. CASE call = "pwrite"
    <3>1. bytes' = [p \in cells |-> IF p \in offset .. offset + n - 1
                                    THEN p - offset + 1 ELSE bytes[p]]
      BY <1>2, <2>2
    <3>2. ASSUME NEW p \in cells, p \in offset .. offset + n - 1
          PROVE  p - offset + 1 \in 0 .. MaxLen
      BY <1>1, <3>2
    <3> QED  BY <1>1, <3>1, <3>2
  <2> QED  BY <2>1, <2>2
<1>10. P!TypeOK'
  <2>1. exists' \in BOOLEAN /\ busy' \in BOOLEAN
    BY <1>1, <1>2 DEF P!LoopInv, P!TypeOK
  <2>2. fd' \in Int /\ opened' \subseteq Nat /\ cursor' \in 0 .. MaxLen
    BY <1>1, <1>2 DEF P!LoopInv, P!TypeOK
  <2>3. job'.left \in 0 .. job'.n /\ job'.i \in 0 .. MAX_DISK_TIMES /\ job'.at \in 0 .. MaxLen
    BY <1>1, <1>5
  <2> QED  BY <1>9, <2>1, <2>2, <2>3, Zenon DEF P!TypeOK, P!Positions
<1>11. P!HandleInv'
  BY <1>1, <1>2, <1>6, <1>7 DEF P!HandleInv, P!NoDescriptorLost, P!LoopInv
<1>12. P!JobInv'
  <2>1. was'.bytes = bytes /\ was'.size = size'
    BY <1>2
  <2>2. fd' \in Int /\ fd' >= 0
    BY <1>1, <1>2 DEF P!LoopInv, P!TypeOK
  <2> QED  BY <1>1, <1>2, <1>5, <2>1, <2>2 DEF P!JobInv, P!Positions
<1>13. call = "pwrite" => P!Overlaid'
  <2> SUFFICES ASSUME call = "pwrite" PROVE P!Overlaid'
    OBVIOUS
  <2>1. was'.bytes = bytes /\ was'.size = size'
    BY <1>2
  <2>2. P!Max({size', offset + n}) = size'
    <3>1. size' \in Int /\ offset + n \in Int /\ size' >= offset + n
      BY <1>1
    <3>2. P!Max({size', offset + n})
            = IF size' >= offset + n THEN size' ELSE offset + n
      BY <3>1, AssumptionMet, P!LargerOfTwo
    <3> QED  BY <3>1, <3>2
  <2>3. bytes' = [p \in P!Positions |-> IF p \in offset .. offset + n - 1
                                        THEN p - offset + 1 ELSE bytes[p]]
    BY <1>2 DEF P!Positions
  <2>4. bytes' = [p \in P!Positions |-> IF p \in job'.at .. job'.at + P!Moved' - 1
                                        THEN p - job'.at + 1 ELSE was'.bytes[p]]
    BY <1>5, <1>8, <2>1, <2>3
  <2>5. size' = IF P!Moved' = 0 THEN was'.size ELSE P!Max({was'.size, job'.at + P!Moved'})
    BY <1>5, <1>8, <2>1, <2>2
  <2> QED  BY <2>4, <2>5 DEF P!Overlaid, P!Positions
<1>14. call = "pread" => P!Filled'
  <2> SUFFICES ASSUME call = "pread" PROVE P!Filled'
    OBVIOUS
  <2>1. job'.buf = [j \in 1 .. n |-> bytes[offset + j - 1]] /\ bytes' = bytes
    BY <1>2, <1>5 DEF buffer
  <2>2. job'.buf = [j \in 1 .. P!Moved' |-> bytes'[job'.at + j - 1]]
    BY <1>5, <1>8, <2>1
  <2> QED  BY <1>2, <1>5, <1>8, <2>2 DEF P!Filled
<1> QED  BY <1>5, <1>10, <1>11, <1>12, <1>13, <1>14 DEF P!LoopInv, P!Reads, P!Writes

LEMMA AccessStep ==
  ASSUME Mapped, NEW call \in {"pread", "pwrite"}, NEW n \in Lengths, NEW offset \in Offsets,
         offset + n <= MaxLen, Access(call, n, offset)
  PROVE  MapInv'
<1>1. PICK r \in Remaps(n, offset) :
        /\ map_size' = r.map_size /\ size' = r.size
        /\ IF Covers(n, offset, r.map_size)
           THEN Copy(call, n, offset)
           ELSE UNCHANGED bytes /\ File!Begin(call, n, offset)
  BY DEF Access
<1>2. ~ busy /\ UNCHANGED <<map_file, data, is_mapped>>
  BY DEF Access
<1>3. /\ size' \in 0 .. MaxLen /\ map_size' \in 0 .. MaxMap
      /\ is_mapped => map_size' \in 1 .. size'
  BY <1>1, RemapsSafely
<1>4. n \in 0 .. MaxLen /\ offset \in 0 .. MaxLen
  OBVIOUS
<1>5. fd >= 0 => fd' = fd
  <2>1. CASE Copy(call, n, offset)
    BY <2>1 DEF Copy
  <2>2. CASE File!Begin(call, n, offset)
    <3>1. PICK h \in File!Checks : File!SetHandle(h)
      BY <2>2 DEF File!Begin
    <3> QED  BY <3>1, CheckedHandle DEF File!SetHandle
  <2> QED  BY <1>1, <2>1, <2>2
<1>6. P!LoopInv'
  <2>1. CASE Covers(n, offset, r.map_size)
    <3>1. is_mapped /\ offset + n <= map_size' /\ Copy(call, n, offset)
      BY <1>1, <2>1 DEF Covers
    <3>2. offset + n <= size'
      BY <1>3, <1>4, <3>1
    <3> QED  BY <1>2, <1>3, <3>1, <3>2, CopySound
  <2>2. CASE ~ Covers(n, offset, r.map_size)
    <3>1. P!Begin(call, n, offset) /\ UNCHANGED bytes
      BY <1>1, <2>2, SameBegin
    <3>2. P!FileTyped'
      BY <1>3, <3>1, Given DEF P!FileTyped, File!Positions, P!Positions
    <3>3. call \in P!Reads \cup P!Writes /\ call \notin {"read", "write"}
      BY DEF P!Reads, P!Writes
    <3> QED  BY <1>4, <3>1, <3>2, <3>3, Given, P!BeginSound
  <2> QED  BY <2>1, <2>2
<1>7. MapOK'
  <2>1. is_mapped' => map_file' = "live" /\ data' /\ map_size' \in 1 .. size' /\ fd' >= 0
    BY <1>2, <1>3, <1>5, Given
  <2> QED  BY <1>2, <1>3, <2>1, Given DEF MapOK
<1> QED  BY <1>6, <1>7, Assembled
-----------------------------------------------------------------------------
LEMMA InitMapped ==
  ASSUME Init
  PROVE  MapInv
<1>1. P!Init
  BY SameTerms DEF Init, File!Init, P!Init
<1>2. File!LoopInv
  BY <1>1, AssumptionMet, P!InitSound, SameInv
<1>3. TypeOK
  <2>1. File!TypeOK
    BY <1>2 DEF File!LoopInv
  <2>2. map_size \in 0 .. MaxMap
    BY DEF Init
  <2>3. map_file = "null" /\ data = FALSE /\ is_mapped = FALSE
    BY DEF Init
  <2> QED  BY <2>1, <2>2, <2>3, Zenon DEF TypeOK
<1> QED  BY <1>2, <1>3 DEF MapInv, MappingInsideFile, Init

LEMMA StutterMapped ==
  ASSUME Mapped, UNCHANGED vars
  PROVE  MapInv'
<1>1. P!LoopInv'
  BY Given, AssumptionMet, P!StutterSound DEF vars, fileVars, P!vars, P!fileVars, P!handleVars
<1>2. MapOK'
  BY Given DEF MapOK, vars, fileVars, mapVars
<1> QED  BY <1>1, <1>2, Assembled

(* The inductive invariant: mapping, file, descriptor and transfer fit     *)
(* together after every step, also when an extension failed in the middle, *)
(* a descriptor was opened again or a process ended.                       *)
THEOREM MappedSound == ASSUME FirstFd > 0 PROVE Spec => []MapInv
<1>1. ASSUME MapInv, Next PROVE MapInv'
  <2>1. Mapped
    BY <1>1 DEF Mapped
  <2>2. CASE Accesses
    BY <2>1, <2>2, AccessStep DEF Accesses
  <2> QED  BY <1>1, <2>1, <2>2, MmapFileStep, LoopMappedStep, FlushFileStep, GetFileSizeStep,
              RemoveStep, EndStep DEF Next
<1>2. MapInv /\ [Next]_vars => MapInv'
  BY <1>1, StutterMapped DEF Mapped
<1> QED  BY <1>2, InitMapped, PTL DEF Spec

(* No access through the mapping hits a page behind the end of the file.   *)
THEOREM MappingStaysInside == ASSUME FirstFd > 0 PROVE Spec => []MappingInsideFile
<1>1. MapInv => MappingInsideFile
  BY DEF MapInv
<1> QED  BY <1>1, MappedSound, PTL

(* A write through the mapping, through its extension or through the loops *)
(* stores a prefix of its buffer and nothing else.                         *)
THEOREM MappedPrefixWritten == ASSUME FirstFd > 0 PROVE Spec => []WritesPrefix
<1>1. File!WritesPrefix <=> P!WritesPrefix
  BY SameTerms, Zenon DEF File!WritesPrefix, P!WritesPrefix, File!Done, P!Done, File!Max, P!Max
<1>2. MapInv => WritesPrefix
  BY <1>1, AssumptionMet, SameInv, P!InvImpliesWritesPrefix DEF MapInv, WritesPrefix
<1> QED  BY <1>2, MappedSound, PTL

(* A read delivers the bytes of the file, whichever way it took.           *)
THEOREM MappedBufferFilled == ASSUME FirstFd > 0 PROVE Spec => []ReadsExactly
<1>1. File!ReadsExactly <=> P!ReadsExactly
  BY SameTerms, Zenon DEF File!ReadsExactly, P!ReadsExactly, File!Done, P!Done
<1>2. MapInv => ReadsExactly
  BY <1>1, AssumptionMet, SameInv, P!InvImpliesReadsExactly DEF MapInv, ReadsExactly
<1> QED  BY <1>2, MappedSound, PTL
-----------------------------------------------------------------------------
(* What IndexHandle assumes of an access.                                  *)

(* An access through a mapping leaves behind how it began.                 *)
LEMMA AccessBegun ==
  ASSUME Mapped, NEW call \in {"pread", "pwrite"}, NEW n \in Lengths, NEW offset \in Offsets,
         offset + n <= MaxLen, Access(call, n, offset)
  PROVE  BegunInv'
<1>0. /\ map_size \in 0 .. MaxMap /\ size \in 0 .. MaxLen /\ n \in 0 .. MaxLen
      /\ offset \in 0 .. MaxLen /\ is_mapped \in BOOLEAN
      /\ is_mapped => data /\ map_size \in 1 .. size /\ fd >= 0
  BY Given
<1>1. PICK r \in Remaps(n, offset) :
        /\ map_size' = r.map_size /\ size' = r.size
        /\ IF Covers(n, offset, r.map_size)
           THEN Copy(call, n, offset)
           ELSE UNCHANGED bytes /\ File!Begin(call, n, offset)
  BY DEF Access
<1>2. /\ before' = [mapped |-> IF is_mapped THEN map_size ELSE 0, size |-> size]
      /\ is_mapped' = is_mapped
  BY DEF Access
<1>3. before'.mapped \in 0 .. MaxMap /\ before'.size \in 0 .. MaxLen
  BY <1>0, <1>2
<1>4. ASSUME is_mapped
      PROVE  /\ job'.call = call /\ job'.n = n /\ job'.at = offset /\ was'.size = size'
             /\ offset + n <= map_size' => ~ busy' /\ ret' = "TFS_SUCCESS"
  <2>1. CASE Covers(n, offset, r.map_size)
    <3>1. Copy(call, n, offset) /\ ~ busy
      BY <1>1, <2>1 DEF Access
    <3> QED  BY <3>1 DEF Copy
  <2>2. CASE ~ Covers(n, offset, r.map_size)
    <3>1. File!Begin(call, n, offset) /\ ~ (offset + n <= map_size')
      BY <1>1, <1>4, <2>2 DEF Covers
    <3> QED  BY <3>1 DEF File!Begin
  <2> QED  BY <2>1, <2>2
<1>5. ASSUME is_mapped
      PROVE  /\ \/ map_size' = map_size /\ size' = size
                \/ /\ map_size < offset + n /\ map_size # MaxMap /\ RemappedSize <= MaxLen
                   /\ map_size' \in {map_size, RemappedSize}
                   /\ size' = Max({size, RemappedSize})
             /\ map_size' <= size'
  <2>1. map_size' \in 1 .. size' /\ RemappedSize \in 1 .. MaxMap
    BY <1>1, <1>5, RemapsSafely, ClampedSize
  <2>2. CASE \/ ~ is_mapped \/ offset + n <= map_size
             \/ ~ data \/ map_size = 0 \/ map_size = MaxMap \/ RemappedSize > MaxLen
    <3>1. r = [map_size |-> map_size, size |-> size]
      BY <2>2 DEF Remaps
    <3> QED  BY <1>1, <2>1, <3>1
  <2>3. CASE ~ (\/ ~ is_mapped \/ offset + n <= map_size
                \/ ~ data \/ map_size = 0 \/ map_size = MaxMap \/ RemappedSize > MaxLen)
    <3>1. r \in {[map_size |-> map_size, size |-> size],
                 [map_size |-> map_size, size |-> Extended(RemappedSize)],
                 [map_size |-> RemappedSize, size |-> Extended(RemappedSize)]}
      BY <2>3, Zenon DEF Remaps
    <3>2. \/ map_size' = map_size /\ size' = size
          \/ map_size' \in {map_size, RemappedSize} /\ size' = Extended(RemappedSize)
      BY <1>1, <3>1
    <3>3. map_size < offset + n /\ map_size # MaxMap /\ RemappedSize <= MaxLen
      BY <1>0, <2>1, <2>3
    <3> QED  BY <2>1, <3>2, <3>3 DEF Extended
  <2> QED  BY <2>2, <2>3
<1>6. CASE is_mapped
  <2>1. before'.mapped = map_size /\ before'.size = size
    BY <1>2, <1>6
  <2>2. Min({before'.mapped + PerMap, MaxMap}) = RemappedSize
    BY <2>1 DEF RemappedSize
  <2> QED  BY <1>2, <1>3, <1>4, <1>5, <1>6, <2>1, <2>2, Zenon DEF BegunInv
<1>7. CASE ~ is_mapped
  BY <1>2, <1>3, <1>7 DEF BegunInv
<1> QED  BY <1>6, <1>7

(* Its loop changes nothing of that.                                       *)
LEMMA LoopBegun ==
  ASSUME Mapped, BegunInv, Loop
  PROVE  BegunInv'
<1>1. File!Loop /\ UNCHANGED <<map_size, is_mapped, before>> /\ busy
  BY DEF Loop, mapVars, File!Loop, File!Finish, File!GiveUp, File!SysError, File!ReadSome,
         File!EndOfFile, File!WriteSome, File!TriesAgain
<1>2. job \in P!Jobs
  BY Given DEF P!LoopInv, P!HandleInv
<1>3. was' = was /\ job'.call = job.call /\ job'.n = job.n /\ job'.at = job.at
  BY <1>1, <1>2
     DEF P!Jobs, File!Loop, File!Finish, File!GiveUp, File!SysError, File!ReadSome,
         File!EndOfFile, File!WriteSome, File!Return, File!Transferred
<1>4. job.call = "pread" => size' = size
  BY <1>1
     DEF File!Loop, File!Finish, File!GiveUp, File!SysError, File!ReadSome,
         File!EndOfFile, File!WriteSome, File!Writes, File!fileVars
<1> QED  BY <1>1, <1>3, <1>4 DEF BegunInv

LEMMA BegunStep ==
  ASSUME Mapped, BegunInv, [Next]_vars
  PROVE  BegunInv'
<1>1. ASSUME before' = Unmapped PROVE BegunInv'
  BY <1>1 DEF Unmapped, BegunInv
<1>2. CASE Accesses
  BY <1>2, AccessBegun DEF Accesses
<1>3. CASE Loop
  BY <1>3, LoopBegun
<1>4. CASE (\E first \in FirstMappings : MmapFile(first)) \/ FlushFile \/ GetFileSize \/ Remove \/ End
  BY <1>1, <1>4 DEF MmapFile, FlushFile, GetFileSize, Remove, End
<1>5. CASE UNCHANGED vars
  BY <1>5 DEF vars, fileVars, mapVars, BegunInv
<1> QED  BY <1>2, <1>3, <1>4, <1>5 DEF Next

(* In bytes, which IndexHandle counts.                                     *)
LEMMA InBytes ==
  ASSUME BegunInv, Mapped, before.mapped > 0, job.n = 6
  PROVE  [mapped |-> 4 * map_size, fsize |-> 4 * was.size] \in Index!Remapped(4 * job.at)
<1> DEFINE longer == Min({before.mapped + PerMap, MaxMap})
<1>1. /\ before.mapped \in Int /\ before.size \in Int /\ longer \in Int
      /\ longer = IF before.mapped + PerMap <= MaxMap THEN before.mapped + PerMap ELSE MaxMap
      /\ Max({before.size, longer}) = IF before.size >= longer THEN before.size ELSE longer
  <2>1. before.mapped \in Nat /\ before.size \in Nat /\ MaxMap \in Int
    BY DEF BegunInv
  <2>2. PICK s \in Int : s = before.mapped + PerMap
    BY <2>1
  <2>3. Min({s, MaxMap}) = IF s <= MaxMap THEN s ELSE MaxMap
    BY <2>1, Two, Zenon
  <2>4. longer = Min({s, MaxMap})
    BY <2>2
  <2>5. longer \in Int /\ longer = IF s <= MaxMap THEN s ELSE MaxMap
    BY <2>3, <2>4
  <2> HIDE DEF longer
  <2> QED  BY <2>1, <2>2, <2>5, Two
<1>2. /\ Index!Smaller(4 * before.mapped + 4 * PerMap, 4 * MaxMap) = 4 * longer
      /\ Index!Larger(4 * before.size, 4 * longer) = 4 * Max({before.size, longer})
  BY <1>1 DEF Index!Smaller, Index!Larger
<1>3. job.at \in Int
  BY Given DEF P!LoopInv, P!HandleInv, P!Jobs
<1> HIDE DEF longer
<1> DEFINE stays == [mapped |-> 4 * before.mapped, fsize |-> 4 * before.size]
           short == [mapped |-> 4 * before.mapped,
                     fsize  |-> Index!Larger(4 * before.size, 4 * longer)]
           long  == [mapped |-> 4 * longer,
                     fsize  |-> Index!Larger(4 * before.size, 4 * longer)]
           kept  == \/ 4 * job.at + 24 <= 4 * before.mapped \/ 4 * before.mapped = 4 * MaxMap
                    \/ 4 * longer > 4 * MaxLen
<1>4. Index!Remapped(4 * job.at) = IF kept THEN {stays} ELSE {stays, short, long}
  BY <1>2 DEF Index!Remapped, Index!META_SIZE, Index!Capacity
<1>5. \/ map_size = before.mapped /\ was.size = before.size
      \/ /\ ~ kept
         /\ map_size \in {before.mapped, longer} /\ was.size = Max({before.size, longer})
  BY <1>1, <1>3 DEF BegunInv, longer
<1> QED  BY <1>2, <1>4, <1>5

(* An access to a node extends mapping and file, and may succeed, exactly  *)
(* as Preads, Pwrites, Fails and FailsStoring of IndexHandle say: what the *)
(* proofs about the index assume of MMapFileOperation is what it does.     *)
THEOREM AccessIsAsAssumed == ASSUME FirstFd > 0 PROVE Spec => []AccessAsAssumed
<1>1. Init => BegunInv
  BY DEF Init, Unmapped, BegunInv
<1>2. MapInv /\ BegunInv /\ [Next]_vars => BegunInv'
  BY BegunStep DEF Mapped
<1>3. MapInv /\ BegunInv => AccessAsAssumed
  <2> SUFFICES ASSUME Mapped, BegunInv, ~ busy, job.n = 6, before.mapped > 0
               PROVE  AccessAsAssumed
    BY DEF AccessAsAssumed, Mapped
  <2> DEFINE o == 4 * job.at
             r == [mapped |-> 4 * map_size, fsize |-> 4 * was.size]
  <2>1. r \in Index!Remapped(o)
    BY InBytes
  <2>2. /\ map_size \in Int /\ size \in Int /\ job.at \in Nat /\ job.left \in 0 .. 6
        /\ job.call \in {"pread", "pwrite"} /\ job # P!NoJob /\ fd >= 0
        /\ ret = "TFS_SUCCESS" <=> job.left = 0
        /\ was.size \in Int /\ P!LoopInv
    <3>1. /\ P!LoopInv /\ map_size \in Int /\ size \in Int /\ fd >= 0
          /\ job.call \in {"pread", "pwrite"}
      BY Given DEF BegunInv
    <3>2. job # P!NoJob /\ job.at \in Nat /\ job.left \in 0 .. 6
      BY <3>1 DEF P!LoopInv, P!TypeOK, P!HandleInv, P!Jobs, P!NoJob
    <3>3. P!JobInv
      BY <3>1, <3>2 DEF P!LoopInv
    <3> QED  BY <3>1, <3>2, <3>3 DEF P!JobInv
  <2>3. ret # "TFS_SUCCESS" => job.at + 6 > map_size
    BY <2>2 DEF BegunInv
  <2>4. P!Moved = 6 - job.left
    BY DEF P!Moved
  <2>5. CASE job.call = "pread"
    <3>1. size = was.size /\ (job.left = 0 => job.at + 6 <= size)
      BY <2>2, <2>4, <2>5 DEF BegunInv, P!LoopInv, P!Reads, P!Filled
    <3>2. CASE ret = "TFS_SUCCESS"
      <4>1. o + 24 <= Index!Larger(r.mapped, r.fsize) /\ 4 * size = r.fsize
        BY <2>2, <3>1, <3>2 DEF Index!Larger
      <4> QED  BY <2>1, <2>5, <3>2, <4>1 DEF AccessAsAssumed
    <3>3. CASE ret # "TFS_SUCCESS"
      <4>1. o + 24 > r.mapped /\ 4 * size = r.fsize
        BY <2>2, <2>3, <3>1, <3>3
      <4> QED  BY <2>1, <2>5, <3>3, <4>1 DEF AccessAsAssumed
    <3> QED  BY <3>2, <3>3
  <2>6. CASE job.call = "pwrite"
    <3>1. size = IF job.left = 6 THEN was.size ELSE Max({was.size, job.at + (6 - job.left)})
      <4>1. size = IF P!Moved = 0 THEN was.size ELSE P!Max({was.size, job.at + P!Moved})
        BY <2>2, <2>6 DEF P!LoopInv, P!Writes, P!Overlaid
      <4>2. P!Max({was.size, job.at + P!Moved}) = Max({was.size, job.at + P!Moved})
        BY Zenon DEF P!Max, Max
      <4> QED  BY <2>2, <2>4, <4>1, <4>2
    <3>2. PICK s \in Int : s = job.at + (6 - job.left)
      BY <2>2
    <3>3. size = IF job.left = 6 THEN was.size ELSE IF was.size >= s THEN was.size ELSE s
      <4>1. Max({was.size, s}) = IF was.size >= s THEN was.size ELSE s
        BY <2>2, Two
      <4> QED  BY <3>1, <3>2, <4>1
    <3>4. CASE ret = "TFS_SUCCESS"
      <4>1. 4 * size = Index!Larger(r.fsize, o + 24)
        BY <2>2, <3>2, <3>3, <3>4 DEF Index!Larger
      <4> QED  BY <2>1, <2>6, <3>4, <4>1 DEF AccessAsAssumed
    <3>5. CASE ret # "TFS_SUCCESS"
      <4>1. PICK n \in 0 .. 5 : n = 6 - job.left
        BY <2>2, <3>5
      <4>2. 4 * size = IF n = 0 THEN r.fsize ELSE Index!Larger(r.fsize, o + 4 * n)
        BY <2>2, <3>2, <3>3, <4>1 DEF Index!Larger
      <4>3. o + 24 > r.mapped
        BY <2>2, <2>3, <3>5
      <4> QED  BY <2>1, <2>6, <3>5, <4>2, <4>3 DEF AccessAsAssumed
    <3> QED  BY <3>4, <3>5
  <2> QED  BY <2>2, <2>5, <2>6
<1> QED  BY <1>1, <1>2, <1>3, MappedSound, PTL DEF Spec
=============================================================================
