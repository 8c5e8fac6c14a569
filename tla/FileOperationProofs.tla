------------------------- MODULE FileOperationProofs -------------------------
(***************************************************************************)
(* One file behind one descriptor: for every length of file and transfer   *)
(* and every number of attempts, the loops move a prefix of the buffer and *)
(* no descriptor is lost, when standard input is open (FirstFd > 0).       *)
(***************************************************************************)
EXTENDS FileOperation, FiniteSetTheorems, SequenceTheorems, TLAPS

USE FileOperationAssumption

LEMMA LargerOfTwo ==
  ASSUME NEW a \in Int, NEW b \in Int
  PROVE  Max({a, b}) = IF a >= b THEN a ELSE b
<1>1. CASE a >= b
  <2>1. \A y \in {a, b} : a >= y
    BY <1>1
  <2>2. \A x \in {a, b} : (\A y \in {a, b} : x >= y) => x = a
    BY <1>1
  <2> QED  BY <1>1, <2>1, <2>2 DEF Max
<1>2. CASE b > a
  <2>1. \A y \in {a, b} : b >= y
    BY <1>2
  <2>2. \A x \in {a, b} : (\A y \in {a, b} : x >= y) => x = b
    BY <1>2
  <2> QED  BY <1>2, <2>1, <2>2 DEF Max
<1> QED  BY <1>1, <1>2

(* open returns the lowest free descriptor.                                *)
LEMMA FirstFree == FreeFd({}) = FirstFd
<1>1. Cardinality({}) = 0
  BY FS_EmptySet
<1>2. (FirstFd .. FirstFd + Cardinality({})) \ {} = {FirstFd}
  BY <1>1
<1>3. Min({FirstFd}) = FirstFd
  BY DEF Min
<1> QED  BY <1>2, <1>3 DEF FreeFd
-----------------------------------------------------------------------------
(* Descriptors.                                                            *)

GoodHandle(h) ==
  /\ h.opened = (IF h.fd >= 0 THEN {h.fd} ELSE {})
  /\ h.fd \in {-1} \cup (Nat \ {0})
  /\ h.cursor \in 0 .. MaxLen /\ h.exists \in BOOLEAN

Standing == LoopInv /\ FirstFd > 0

LEMMA ClosedIsEmpty ==
  ASSUME Standing
  PROVE  Closed = {} /\ (fd > 0 \/ fd = -1)
BY DEF Standing, LoopInv, HandleInv, NoDescriptorLost, Closed

LEMMA OpensGood ==
  ASSUME Standing, NEW h \in Opens
  PROVE  GoodHandle(h) /\ h.cursor = 0
<1> DEFINE none == [fd |-> -1, opened |-> {}, cursor |-> 0, exists |-> exists]
           new  == [fd |-> FirstFd, opened |-> {FirstFd}, cursor |-> 0, exists |-> TRUE]
<1>1. h = none \/ h = new
  <2>1. Closed = {} /\ Closed \cup {FreeFd(Closed)} = {FirstFd} /\ FreeFd(Closed) = FirstFd
    BY ClosedIsEmpty, FirstFree
  <2> QED  BY <2>1 DEF Opens
<1>2. exists \in BOOLEAN /\ FirstFd \in Nat \ {0}
  BY DEF Standing, LoopInv, TypeOK
<1>3. (h.fd = -1 /\ h.opened = {}) \/ (h.fd = FirstFd /\ h.opened = {FirstFd})
  BY <1>1
<1>4. h.exists \in BOOLEAN
  <2>1. none.exists \in BOOLEAN /\ new.exists \in BOOLEAN
    BY <1>2, Zenon
  <2> QED  BY <1>1, <2>1, Zenon
<1>5. h.cursor = 0
  BY <1>1
<1> QED  BY <1>2, <1>3, <1>4, <1>5 DEF GoodHandle

LEMMA ChecksGood ==
  ASSUME Standing, NEW h \in Checks
  PROVE  GoodHandle(h) /\ h.cursor \in {0, cursor}
<1>1. CASE fd < 0
  BY <1>1, OpensGood DEF Checks
<1>2. CASE fd >= 0
  BY <1>2 DEF Checks, GoodHandle, Standing, LoopInv, TypeOK, HandleInv, NoDescriptorLost
<1> QED  BY <1>1, <1>2 DEF Standing, LoopInv, TypeOK

FileTyped == bytes \in [Positions -> 0 .. MaxLen] /\ size \in 0 .. MaxLen

(* Whatever leaves no transfer and a good handle.                          *)
LEMMA ResetSound ==
  ASSUME Standing, busy' = FALSE, job' = NoJob, FileTyped',
         NEW h, GoodHandle(h), SetHandle(h)
  PROVE  LoopInv'
<1>1. NoJob \in Jobs
  BY EmptySeq DEF NoJob, Jobs
<1>2. HandleInv'
  BY <1>1 DEF HandleInv, NoDescriptorLost, SetHandle, GoodHandle, NoJob
<1>3. TypeOK'
  <2>1. exists' \in BOOLEAN
    BY DEF SetHandle, GoodHandle
  <2>2. fd' \in Int /\ opened' \subseteq Nat /\ cursor' \in 0 .. MaxLen
    BY DEF SetHandle, GoodHandle
  <2>3. busy' = FALSE /\ job'.left = 0 /\ job'.n = 0 /\ job'.i = 0 /\ job'.at = 0
    BY DEF NoJob
  <2>4. job'.left \in 0 .. job'.n /\ job'.i \in 0 .. MAX_DISK_TIMES /\ job'.at \in 0 .. MaxLen
    BY <2>3
  <2>5. busy' \in BOOLEAN
    BY <2>3
  <2> QED  BY <2>1, <2>2, <2>4, <2>5, Zenon DEF TypeOK, FileTyped
<1> QED  BY <1>2, <1>3 DEF LoopInv

(* An operation without a loop.                                            *)
LEMMA AtOnceSound ==
  ASSUME Standing, NEW r, AtOnce(r), FileTyped', NEW h, GoodHandle(h), SetHandle(h)
  PROVE  LoopInv'
BY ResetSound DEF AtOnce

(* close_file forgets no descriptor.                                       *)
LEMMA ClosingGood ==
  ASSUME Standing, NEW e \in BOOLEAN
  PROVE  GoodHandle([fd |-> IF fd > 0 THEN -1 ELSE fd, opened |-> Closed,
                     cursor |-> cursor, exists |-> e])
BY ClosedIsEmpty DEF GoodHandle, Standing, LoopInv, TypeOK
-----------------------------------------------------------------------------
(* The loops.                                                              *)

(* An empty prefix: what a transfer has moved when it begins.              *)
LEMMA BeginSound ==
  ASSUME Standing, NEW call \in Reads \cup Writes, NEW n \in 0 .. MaxLen,
         NEW offset \in 0 .. MaxLen, offset + n <= MaxLen,
         call \in {"read", "write"} => cursor + n <= MaxLen,
         FileTyped', Begin(call, n, offset)
  PROVE  LoopInv'
<1>1. PICK h \in Checks :
        /\ SetHandle(h)
        /\ busy' = (h.fd >= 0)
        /\ ret' = IF h.fd < 0 THEN "-1" ELSE "none"
        /\ job' = [call |-> call, n |-> n, left |-> n, i |-> 0, buf |-> <<>>,
                   at |-> IF call \in {"pread", "pwrite"} THEN offset ELSE h.cursor]
  BY DEF Begin
<1>2. GoodHandle(h) /\ h.cursor \in {0, cursor}
  BY ChecksGood
<1> DEFINE start == IF call \in {"pread", "pwrite"} THEN offset ELSE h.cursor
<1>3. start \in 0 .. MaxLen /\ start + n <= MaxLen
  <2>1. CASE call \in {"pread", "pwrite"}
    BY <2>1
  <2>2. CASE call \in {"read", "write"}
    BY <1>2, <2>2 DEF GoodHandle
  <2> QED  BY <2>1, <2>2 DEF Reads, Writes
<1>4. /\ job'.call = call /\ job'.n = n /\ job'.left = n /\ job'.i = 0
      /\ job'.at = start /\ job'.buf = <<>> /\ job'.left - job'.n = 0
  BY <1>1
<1>5. job' \in Jobs
  <2>1. <<>> \in Seq(0 .. MaxLen)
    BY EmptySeq
  <2> QED  BY <1>1, <1>3, <2>1 DEF Jobs
<1>6. job' # NoJob /\ job'.call # "none"
  BY <1>4 DEF NoJob, Reads, Writes
<1>7. (busy' <=> fd' >= 0) /\ busy' \in BOOLEAN
  <2>1. fd' = h.fd
    BY <1>1 DEF SetHandle
  <2>2. busy' = (h.fd >= 0) /\ (h.fd >= 0) \in BOOLEAN
    <3>1. (h.fd >= 0) \in BOOLEAN
      OBVIOUS
    <3> QED  BY <1>1, <3>1, Zenon
  <2>3. h.fd >= 0 <=> fd' >= 0
    BY <2>1
  <2> QED  BY <2>2, <2>3, Zenon
<1>8. ret' = IF fd' < 0 THEN "-1" ELSE "none"
  BY <1>1 DEF SetHandle
<1>9. HandleInv'
  <2>1. NoDescriptorLost' /\ fd' \in {-1} \cup (Nat \ {0})
    BY <1>1, <1>2 DEF SetHandle, GoodHandle, NoDescriptorLost
  <2> QED  BY <2>1, <1>4, <1>5, <1>6, <1>7, <1>8 DEF HandleInv
<1>10. TypeOK'
  <2>1. exists' \in BOOLEAN
    BY <1>1, <1>2 DEF SetHandle, GoodHandle
  <2>2. fd' \in Int /\ opened' \subseteq Nat /\ cursor' \in 0 .. MaxLen
    BY <1>1, <1>2 DEF SetHandle, GoodHandle
  <2>3. job'.left \in 0 .. job'.n /\ job'.i \in 0 .. MAX_DISK_TIMES /\ job'.at \in 0 .. MaxLen
    BY <1>3, <1>4
  <2> QED  BY <1>7, <2>1, <2>2, <2>3, Zenon DEF TypeOK, FileTyped
<1>11. was'.bytes = bytes' /\ was'.size = size'
  BY DEF Begin
<1>12. JobInv'
  <2>1. fd' \in Int
    BY <1>10 DEF TypeOK
  <2> QED  BY <1>3, <1>4, <1>7, <1>8, <1>11, <2>1 DEF JobInv, FileTyped
<1>13. call \in {"read", "write"} => cursor' = job'.at + Moved'
  BY <1>1, <1>2, <1>4 DEF SetHandle, Moved, GoodHandle
<1>14. Moved' = 0 /\ job'.at \in Int
  BY <1>3, <1>4 DEF Moved
<1>15. Overlaid'
  BY <1>11, <1>14 DEF Overlaid, FileTyped
<1>16. Filled'
  <2>1. job'.buf = [j \in 1 .. 0 |-> bytes[job.at + j - 1]']
    BY <1>4
  <2> QED  BY <1>8, <1>14, <2>1 DEF Filled
<1> QED  BY <1>4, <1>9, <1>10, <1>12, <1>13, <1>15, <1>16 DEF LoopInv

(* What holds of a transfer while its loop runs.                           *)
LEMMA Running ==
  ASSUME Standing, busy
  PROVE  /\ job \in Jobs /\ job # NoJob /\ job.call \in Reads \cup Writes /\ JobInv
         /\ fd \in Nat \ {0} /\ ret = "none"
         /\ job.left \in 0 .. job.n /\ job.at + job.n <= MaxLen
         /\ job.i \in 0 .. MAX_DISK_TIMES - 1 /\ job.n \in 0 .. MaxLen /\ job.at \in 0 .. MaxLen
         /\ Moved \in 0 .. job.n /\ Here = job.at + Moved
         /\ job.call \in {"read", "write"} => cursor = Here
<1>1. /\ job \in Jobs /\ job # NoJob /\ JobInv /\ job.call # "none" /\ ret = "none"
      /\ fd \in Nat \ {0}
  BY DEF Standing, LoopInv, HandleInv
<1>2. /\ job.call \in Reads \cup Writes /\ job.n \in 0 .. MaxLen
      /\ job.left \in 0 .. job.n /\ job.i \in 0 .. MAX_DISK_TIMES - 1 /\ job.at \in 0 .. MaxLen
  BY <1>1 DEF Standing, LoopInv, HandleInv, TypeOK, Jobs
<1>3. Moved \in 0 .. job.n
  BY <1>2 DEF Moved
<1>4. job.call \in {"read", "write"} => cursor = job.at + Moved
  BY <1>1 DEF Standing, LoopInv
<1> QED  BY <1>1, <1>2, <1>3, <1>4 DEF JobInv, Here, Moved, Reads, Writes

(* A pass of a loop that moves c bytes, and goes on or returns.            *)
Pass(c) ==
  /\ job' \in Jobs /\ job'.call = job.call /\ job'.n = job.n /\ job'.at = job.at
  /\ job'.left = job.left - c
  /\ UNCHANGED <<fd, opened, exists, was>> /\ FileTyped'
  /\ cursor' = IF job.call \in {"read", "write"} THEN cursor + c ELSE cursor
  /\ \/ busy' = TRUE /\ ret' = "none" /\ job'.i < MAX_DISK_TIMES
     \/ busy' = FALSE /\ (ret' = "TFS_SUCCESS" <=> job'.left = 0)

LEMMA PassSound ==
  ASSUME Standing, busy, NEW c \in 0 .. job.left, Pass(c),
         job.call \in Writes => Overlaid', job.call \in Reads => Filled'
  PROVE  LoopInv'
<1> USE Running
<1>1. Moved' = Moved + c /\ job'.left \in 0 .. job.n /\ job'.i \in 0 .. MAX_DISK_TIMES
  <2>1. /\ job'.left = job.left - c /\ job'.n = job.n
        /\ job.left \in 0 .. job.n /\ job.n \in 0 .. MaxLen
    BY DEF Pass
  <2>2. job'.i \in 0 .. MAX_DISK_TIMES
    BY DEF Pass, Jobs
  <2> QED  BY <2>1, <2>2 DEF Moved
<1>2. cursor' \in 0 .. MaxLen /\ (job.call \in {"read", "write"} => cursor' = job'.at + Moved')
  <2>1. CASE job.call \in {"read", "write"}
    BY <1>1, <2>1 DEF Pass, Moved
  <2>2. CASE job.call \notin {"read", "write"}
    BY <2>2 DEF Pass, Standing, LoopInv, TypeOK
  <2> QED  BY <2>1, <2>2
<1>3. job' # NoJob /\ job'.call # "none"
  BY DEF Pass, NoJob, Reads, Writes
<1>4. HandleInv'
  BY <1>3 DEF HandleInv, Standing, LoopInv, Pass, NoDescriptorLost
<1>5. TypeOK'
  <2>1. exists' \in BOOLEAN /\ busy' \in BOOLEAN
    BY DEF Standing, LoopInv, TypeOK, Pass
  <2>2. fd' \in Int /\ opened' \subseteq Nat
    BY DEF Standing, LoopInv, TypeOK, Pass
  <2>3. job'.left \in 0 .. job'.n /\ job'.at \in 0 .. MaxLen
    BY <1>1 DEF Pass
  <2> QED  BY <1>1, <1>2, <2>1, <2>2, <2>3, Zenon DEF TypeOK, FileTyped, Pass
<1>6. JobInv'
  BY DEF JobInv, Pass
<1> QED  BY <1>2, <1>4, <1>5, <1>6 DEF LoopInv, Pass

LEMMA Returns ==
  ASSUME Standing, busy, UNCHANGED <<fileVars, handleVars, job>>, NEW r, Return(r),
         r # "EXIT_DISK_OPER_INCOMPLETE", r = "TFS_SUCCESS" <=> job.left = 0
  PROVE  LoopInv'
<1> USE Running
<1>1. Pass(0)
  <2>1. FileTyped'
    BY DEF Standing, LoopInv, TypeOK, FileTyped, fileVars, Positions
  <2> QED  BY <2>1 DEF Pass, Return, fileVars, handleVars
<1>2. Overlaid' = Overlaid
  BY DEF Overlaid, Return, fileVars, Moved, Positions
<1>3. job.call \in Writes => Overlaid
  BY DEF Standing, LoopInv
<1>4. job.call \in Reads => Filled'
  BY DEF Standing, LoopInv, Filled, Moved, Return, fileVars
<1>5. 0 \in 0 .. job.left
  OBVIOUS
<1> QED  BY <1>1, <1>2, <1>3, <1>4, <1>5, PassSound

LEMMA FinishStep ==
  ASSUME Standing, Finish
  PROVE  LoopInv'
BY Returns DEF Finish

LEMMA GiveUpStep ==
  ASSUME Standing, GiveUp
  PROVE  LoopInv'
BY Returns DEF GiveUp

(* The loop's locals after c bytes.                                        *)
LEMMA Advanced ==
  ASSUME Standing, TriesAgain, NEW c \in 0 .. job.left
  PROVE  /\ Transferred(c) \in Jobs
         /\ Transferred(c) = [job EXCEPT !.i = job.i + 1, !.left = job.left - c]
         /\ Transferred(c).call = job.call /\ Transferred(c).n = job.n
         /\ Transferred(c).at = job.at /\ Transferred(c).buf = job.buf
         /\ Transferred(c).left = job.left - c /\ Transferred(c).i = job.i + 1
         /\ Transferred(c).i < MAX_DISK_TIMES
<1>1. busy /\ job.i + 1 < MAX_DISK_TIMES
  BY DEF TriesAgain
<1>2. /\ job \in Jobs /\ job.left \in 0 .. job.n /\ job.n \in 0 .. MaxLen
      /\ job.i \in 0 .. MAX_DISK_TIMES - 1
  BY <1>1, Running
<1> DEFINE j == [job EXCEPT !.i = job.i + 1, !.left = job.left - c]
<1>3. Transferred(c) = j
  BY DEF Transferred
<1>4. /\ j.call = job.call /\ j.n = job.n /\ j.at = job.at /\ j.buf = job.buf
      /\ j.left = job.left - c /\ j.i = job.i + 1
  BY <1>2 DEF Jobs
<1>5. j \in Jobs
  <2>1. job.left - c \in 0 .. MaxLen /\ job.i + 1 \in 0 .. MAX_DISK_TIMES
    BY <1>1, <1>2
  <2> QED  BY <1>2, <2>1 DEF Jobs
<1>6. j.i < MAX_DISK_TIMES
  BY <1>1, <1>4
<1> HIDE DEF j
<1> QED  BY <1>3, <1>4, <1>5, <1>6 DEF j

(* A call that fails moves nothing.                                        *)
LEMMA NothingMoved ==
  ASSUME Standing, TriesAgain, job' = Transferred(0),
         UNCHANGED <<fileVars, handleVars, was>>,
         \/ busy' = TRUE /\ ret' = "none"
         \/ /\ busy' = FALSE /\ ret' # "TFS_SUCCESS"
            /\ ret' = "EXIT_DISK_OPER_INCOMPLETE" => Here >= size
  PROVE  LoopInv'
<1>0. busy /\ 0 \in 0 .. job.left /\ job.left > 0 /\ job.left \in Int
  BY Running DEF TriesAgain
<1>1. /\ job' \in Jobs /\ job'.call = job.call /\ job'.n = job.n /\ job'.at = job.at
      /\ job'.buf = job.buf /\ job'.left = job.left /\ job'.i < MAX_DISK_TIMES
  <2>1. /\ Transferred(0) \in Jobs /\ Transferred(0).call = job.call
        /\ Transferred(0).n = job.n /\ Transferred(0).at = job.at
        /\ Transferred(0).buf = job.buf /\ Transferred(0).left = job.left - 0
        /\ Transferred(0).i < MAX_DISK_TIMES
    BY <1>0, Advanced
  <2>2. job.left - 0 = job.left
    BY <1>0
  <2> QED  BY <2>1, <2>2
<1>2. FileTyped'
  BY DEF Standing, LoopInv, TypeOK, FileTyped, fileVars, Positions
<1>3. cursor \in Int
  BY DEF Standing, LoopInv, TypeOK
<1>4. Pass(0)
  BY <1>0, <1>1, <1>2, <1>3 DEF Pass, fileVars, handleVars
<1>5. job.call \in Writes => Overlaid'
  BY <1>0, <1>1, Running DEF Standing, LoopInv, Overlaid, Moved, fileVars, Positions
<1>6. job.call \in Reads => Filled'
  BY <1>0, <1>1, Running DEF Standing, LoopInv, Filled, Moved, fileVars
<1> QED  BY <1>0, <1>4, <1>5, <1>6, PassSound

LEMMA SysErrorStep ==
  ASSUME Standing, SysError
  PROVE  LoopInv'
<1>1. TriesAgain /\ job' = Transferred(0) /\ UNCHANGED <<fileVars, handleVars, was>>
  BY DEF SysError, Return
<1>2. busy /\ ret = "none"
  BY <1>1, Running DEF TriesAgain
<1>3. \/ busy' = busy /\ ret' = ret
      \/ busy' = FALSE /\ ret' \in {"-1", "-errno"}
  BY DEF SysError, Return
<1>4. \/ busy' = TRUE /\ ret' = "none"
      \/ busy' = FALSE /\ ret' \in {"-1", "-errno"}
  <2>1. busy = TRUE
    BY <1>2 DEF Standing, LoopInv, TypeOK
  <2> QED  BY <1>2, <1>3, <2>1
<1> QED  BY <1>1, <1>4, NothingMoved

LEMMA EndOfFileStep ==
  ASSUME Standing, EndOfFile
  PROVE  LoopInv'
BY NothingMoved DEF EndOfFile, Return

(* A buffer that is filled with the next c bytes.                          *)
LEMMA GrownBuffer ==
  ASSUME Standing, busy, job.call \in Reads, NEW c \in 1 .. job.left
  PROVE  LET t == [j \in 1 .. c |-> bytes[Here + j - 1]]
         IN  /\ job.buf \o t \in Seq(0 .. MaxLen)
             /\ job.buf \o t = [j \in 1 .. Moved + c |-> bytes[job.at + j - 1]]
<1> USE Running
<1> DEFINE t == [j \in 1 .. c |-> bytes[Here + j - 1]]
           u == [j \in 1 .. Moved + c |-> bytes[job.at + j - 1]]
<1>1. c \in Nat /\ Moved + c \in 0 .. job.n
  BY DEF Moved
<1>2. \A j \in 1 .. Moved + c : bytes[job.at + j - 1] \in 0 .. MaxLen
  <2> TAKE j \in 1 .. Moved + c
  <2>1. job.at + j - 1 \in Positions
    BY <1>1 DEF Positions
  <2> QED  BY <2>1 DEF Standing, LoopInv, TypeOK
<1>3. t \in Seq(0 .. MaxLen) /\ Len(t) = c
  <2>1. \A j \in 1 .. c : bytes[Here + j - 1] \in 0 .. MaxLen
    <3> TAKE j \in 1 .. c
    <3>1. Moved + j \in 1 .. Moved + c /\ Here + j - 1 = job.at + (Moved + j) - 1
      BY <1>1
    <3> QED  BY <1>2, <3>1
  <2> QED  BY <1>1, <2>1
<1>4. u \in Seq(0 .. MaxLen) /\ Len(u) = Moved + c
  <2>1. PICK m \in Nat : m = Moved + c
    BY <1>1
  <2>2. u = [j \in 1 .. m |-> bytes[job.at + j - 1]]
    BY <2>1
  <2>3. \A j \in 1 .. m : bytes[job.at + j - 1] \in 0 .. MaxLen
    BY <1>2, <2>1
  <2>4. /\ [j \in 1 .. m |-> bytes[job.at + j - 1]] \in Seq(0 .. MaxLen)
        /\ Len([j \in 1 .. m |-> bytes[job.at + j - 1]]) = m
    BY <2>3
  <2> HIDE DEF u
  <2> QED  BY <2>1, <2>2, <2>4, Zenon
<1>5. job.buf \in Seq(0 .. MaxLen) /\ Len(job.buf) = Moved
  <2>1. job.buf \in Seq(0 .. MaxLen)
    BY DEF Jobs
  <2>2. job.buf = [j \in 1 .. Moved |-> bytes[job.at + j - 1]]
    BY DEF Standing, LoopInv, Filled
  <2> QED  BY <2>1, <2>2, LenProperties
<1>6. \A j \in 1 .. Moved : job.buf[j] = bytes[job.at + j - 1]
  BY DEF Standing, LoopInv, Filled
<1> HIDE DEF t, u
<1>7. /\ job.buf \o t \in Seq(0 .. MaxLen) /\ Len(job.buf \o t) = Moved + c
      /\ \A i \in 1 .. Moved + c : (job.buf \o t)[i] = IF i <= Moved THEN job.buf[i]
                                                        ELSE t[i - Moved]
  <2>1. /\ job.buf \o t \in Seq(0 .. MaxLen) /\ Len(job.buf \o t) = Len(job.buf) + Len(t)
        /\ \A i \in 1 .. Len(job.buf) + Len(t) :
             (job.buf \o t)[i] = IF i <= Len(job.buf) THEN job.buf[i] ELSE t[i - Len(job.buf)]
    BY <1>3, <1>5, ConcatProperties, Zenon
  <2> QED  BY <2>1, <1>3, <1>5
<1>8. ASSUME NEW i \in 1 .. Moved + c
      PROVE  (job.buf \o t)[i] = u[i]
  <2>1. CASE i <= Moved
    BY <1>6, <1>7, <2>1 DEF u
  <2>2. CASE i > Moved
    <3>1. i - Moved \in 1 .. c /\ Here + (i - Moved) - 1 = job.at + i - 1
      BY <2>2
    <3>2. t[i - Moved] = bytes[job.at + i - 1]
      BY <3>1 DEF t
    <3>3. (job.buf \o t)[i] = t[i - Moved]
      BY <1>7, <2>2
    <3> QED  BY <3>2, <3>3 DEF u
  <2>3. i <= Moved \/ i > Moved
    OBVIOUS
  <2> QED  BY <2>1, <2>2, <2>3, Zenon
<1>9. job.buf \o t = u
  BY <1>4, <1>7, <1>8, SeqEqual
<1> QED  BY <1>7, <1>9 DEF t, u

LEMMA ReadSomeStep ==
  ASSUME Standing, ReadSome
  PROVE  LoopInv'
<1>1. TriesAgain /\ busy /\ job.call \in Reads
  BY DEF ReadSome, TriesAgain
<1> USE <1>1, Running
<1>2. PICK c \in 1 .. job.left :
        /\ Here + c <= size
        /\ job' = [Transferred(c) EXCEPT !.buf = @ \o [j \in 1 .. c |-> bytes[Here + j - 1]]]
        /\ cursor' = IF job.call = "read" THEN cursor + c ELSE cursor
  BY DEF ReadSome
<1>3. c \in 0 .. job.left /\ c \in Nat /\ Moved + c \in 0 .. job.n
  BY DEF Moved
<1>4. /\ Transferred(c) \in Jobs /\ Transferred(c).call = job.call
      /\ Transferred(c).n = job.n /\ Transferred(c).at = job.at
      /\ Transferred(c).buf = job.buf /\ Transferred(c).left = job.left - c
      /\ Transferred(c).i < MAX_DISK_TIMES
  BY <1>3, Advanced
<1> DEFINE t == [j \in 1 .. c |-> bytes[Here + j - 1]]
           b == job.buf \o t
<1>5. b \in Seq(0 .. MaxLen) /\ b = [j \in 1 .. Moved + c |-> bytes[job.at + j - 1]]
  BY GrownBuffer
<1> HIDE DEF b
<1>6. job' = [Transferred(c) EXCEPT !.buf = b]
  BY <1>2, <1>4 DEF b
<1>7. /\ job' \in Jobs /\ job'.call = job.call /\ job'.n = job.n /\ job'.at = job.at
      /\ job'.left = job.left - c /\ job'.i < MAX_DISK_TIMES /\ job'.buf = b
  BY <1>4, <1>5, <1>6 DEF Jobs
<1>8. Pass(c)
  <2>1. FileTyped'
    BY DEF Standing, LoopInv, TypeOK, FileTyped, fileVars, Positions, ReadSome
  <2>2. UNCHANGED <<fd, opened, exists, was, busy, ret>> /\ busy = TRUE
    BY DEF ReadSome, fileVars, Standing, LoopInv, TypeOK
  <2>3. cursor' = IF job.call \in {"read", "write"} THEN cursor + c ELSE cursor
    BY <1>2 DEF Reads
  <2> QED  BY <1>7, <2>1, <2>2, <2>3 DEF Pass
<1>9. Filled'
  <2>1. Moved' = Moved + c
    BY <1>3, <1>7 DEF Moved
  <2>2. UNCHANGED <<bytes, size>> /\ ret' = "none"
    BY DEF ReadSome, fileVars
  <2>3. job'.buf = [j \in 1 .. Moved' |-> bytes'[job'.at + j - 1]]
    BY <1>5, <1>7, <2>1, <2>2
  <2>4. job'.at + Moved' <= size'
    BY <1>2, <1>3, <1>7, <2>1, <2>2
  <2> QED  BY <2>2, <2>3, <2>4 DEF Filled
<1>10. job.call \notin Writes
  BY DEF Reads, Writes
<1> QED  BY <1>3, <1>8, <1>9, <1>10, PassSound

LEMMA WriteSomeStep ==
  ASSUME Standing, WriteSome
  PROVE  LoopInv'
<1>1. TriesAgain /\ busy /\ job.call \in Writes
  BY DEF WriteSome, TriesAgain
<1> USE <1>1, Running
<1>2. PICK c \in 1 .. job.left :
        /\ bytes' = [p \in Positions |-> IF p \in Here .. Here + c - 1
                                         THEN Payload(p - Here + 1) ELSE bytes[p]]
        /\ size' = Max({size, Here + c})
        /\ job' = Transferred(c)
        /\ cursor' = IF job.call = "write" THEN cursor + c ELSE cursor
  BY DEF WriteSome
<1>3. c \in 0 .. job.left /\ c \in Nat /\ Moved + c \in 0 .. job.n
  BY DEF Moved
<1>4. /\ job' \in Jobs /\ job'.call = job.call /\ job'.n = job.n /\ job'.at = job.at
      /\ job'.left = job.left - c /\ job'.i < MAX_DISK_TIMES
  BY <1>2, <1>3, Advanced
<1>5. Moved' = Moved + c
  BY <1>3, <1>4 DEF Moved
<1>6. UNCHANGED <<exists, opened, fd, was, busy, ret>> /\ busy = TRUE
  BY DEF WriteSome, Standing, LoopInv, TypeOK
<1>7. was.size \in 0 .. MaxLen /\ was.bytes \in [Positions -> 0 .. MaxLen]
  BY DEF JobInv
<1>8. Overlaid
  BY DEF Standing, LoopInv
<1>9. size' = Max({was.size, job.at + (Moved + c)}) /\ size' \in 0 .. MaxLen
  <2>1. size \in 0 .. MaxLen
    BY DEF Standing, LoopInv, TypeOK
  <2>2. size' = IF size >= Here + c THEN size ELSE Here + c
    BY <1>2, <1>3, <2>1, LargerOfTwo
  <2>3. Max({was.size, job.at + Moved}) = IF was.size >= job.at + Moved THEN was.size
                                          ELSE job.at + Moved
    BY <1>7, LargerOfTwo
  <2>4. Max({was.size, job.at + (Moved + c)})
          = IF was.size >= job.at + (Moved + c) THEN was.size ELSE job.at + (Moved + c)
    BY <1>3, <1>7, LargerOfTwo
  <2>5. size = IF Moved = 0 THEN was.size ELSE Max({was.size, job.at + Moved})
    BY <1>8 DEF Overlaid
  <2>6. CASE Moved = 0
    BY <1>3, <1>7, <2>1, <2>2, <2>4, <2>5, <2>6
  <2>7. CASE Moved > 0
    <3>1. size = IF was.size >= job.at + Moved THEN was.size ELSE job.at + Moved
      BY <2>3, <2>5, <2>7
    <3> QED  BY <1>3, <1>7, <2>1, <2>2, <2>4, <3>1
  <2> QED  BY <2>6, <2>7
<1>10. bytes' = [p \in Positions |-> IF p \in job.at .. job.at + (Moved + c) - 1
                                     THEN p - job.at + 1 ELSE was.bytes[p]]
  <2>1. ASSUME NEW p \in Positions
        PROVE  (IF p \in Here .. Here + c - 1 THEN Payload(p - Here + 1) ELSE bytes[p])
                 = IF p \in job.at .. job.at + (Moved + c) - 1
                   THEN p - job.at + 1 ELSE was.bytes[p]
    <3>1. p \in Int
      BY DEF Positions
    <3>2. bytes[p] = IF p \in job.at .. job.at + Moved - 1 THEN p - job.at + 1 ELSE was.bytes[p]
      BY <1>8 DEF Overlaid
    <3>3. Payload(p - Here + 1) = p - job.at + 1
      BY <3>1 DEF Payload, Moved
    <3> QED  BY <1>3, <3>1, <3>2, <3>3
  <2> QED  BY <1>2, <2>1
<1>11. bytes' \in [Positions -> 0 .. MaxLen]
  <2>1. ASSUME NEW p \in Positions, p \in job.at .. job.at + (Moved + c) - 1
        PROVE  p - job.at + 1 \in 0 .. MaxLen
    BY <1>3, <2>1
  <2>2. \A p \in Positions : was.bytes[p] \in 0 .. MaxLen
    BY <1>7
  <2> QED  BY <1>10, <2>1, <2>2
<1>12. Overlaid'
  <2>1. Moved' # 0
    BY <1>3, <1>5
  <2>2. size' = IF Moved' = 0 THEN was'.size ELSE Max({was'.size, job'.at + Moved'})
    BY <1>4, <1>5, <1>6, <1>9, <2>1
  <2>3. bytes' = [p \in Positions |-> IF p \in job'.at .. job'.at + Moved' - 1
                                      THEN p - job'.at + 1 ELSE was'.bytes[p]]
    BY <1>4, <1>5, <1>6, <1>10
  <2> QED  BY <2>2, <2>3 DEF Overlaid, Positions
<1>13. Pass(c)
  <2>1. FileTyped'
    BY <1>9, <1>11 DEF FileTyped, Positions
  <2>2. cursor' = IF job.call \in {"read", "write"} THEN cursor + c ELSE cursor
    BY <1>2 DEF Writes
  <2> QED  BY <1>4, <1>6, <2>1, <2>2 DEF Pass
<1>14. job.call \notin Reads
  BY DEF Reads, Writes
<1> QED  BY <1>3, <1>12, <1>13, <1>14, PassSound

LEMMA LoopStep ==
  ASSUME Standing, Loop
  PROVE  LoopInv'
BY FinishStep, GiveUpStep, SysErrorStep, ReadSomeStep, EndOfFileStep, WriteSomeStep DEF Loop
(* A loop neither changes the descriptor nor shortens the file.            *)
LEMMA LoopGrows ==
  ASSUME Standing, Loop
  PROVE  fd' = fd /\ size' >= size
<1>1. size \in 0 .. MaxLen
  BY DEF Standing, LoopInv, TypeOK
<1>2. CASE WriteSome
  <2>1. PICK c \in 1 .. job.left : size' = Max({size, Here + c})
    BY <1>2 DEF WriteSome
  <2>2. Here + c \in Int
    BY <1>2, Running DEF WriteSome, TriesAgain
  <2>3. size' = IF size >= Here + c THEN size ELSE Here + c
    BY <1>1, <2>1, <2>2, LargerOfTwo
  <2> QED  BY <1>1, <1>2, <2>2, <2>3 DEF WriteSome
<1> QED  BY <1>1, <1>2
         DEF Loop, Finish, GiveUp, SysError, ReadSome, EndOfFile, fileVars, handleVars
-----------------------------------------------------------------------------
(* The operations without a loop.                                          *)

LEMMA FileStays ==
  ASSUME Standing, UNCHANGED <<bytes, size>>
  PROVE  FileTyped'
BY DEF Standing, LoopInv, TypeOK, FileTyped, Positions

LEMMA OpenFileStep ==
  ASSUME Standing, OpenFile
  PROVE  LoopInv'
BY OpensGood, AtOnceSound, FileStays DEF OpenFile

LEMMA CloseFileStep ==
  ASSUME Standing, CloseFile
  PROVE  LoopInv'
<1> DEFINE h == [fd |-> IF fd > 0 THEN -1 ELSE fd, opened |-> Closed,
                 cursor |-> cursor, exists |-> exists]
<1>1. exists \in BOOLEAN
  BY DEF Standing, LoopInv, TypeOK
<1>2. GoodHandle(h)
  BY <1>1, ClosingGood
<1>3. SetHandle(h) /\ UNCHANGED <<bytes, size>> /\ AtOnce("none")
  BY DEF CloseFile, SetHandle, fileVars
<1> HIDE DEF h
<1> QED  BY <1>2, <1>3, FileStays, AtOnceSound

LEMMA InspectStep ==
  ASSUME Standing, Inspect
  PROVE  LoopInv'
BY ChecksGood, AtOnceSound, FileStays DEF Inspect

LEMMA ChecksRecord ==
  ASSUME NEW h \in Checks
  PROVE  h = [fd |-> h.fd, opened |-> h.opened, cursor |-> h.cursor, exists |-> h.exists]
BY DEF Checks, Opens

LEMMA SeekFileStep ==
  ASSUME Standing, NEW p \in Positions, SeekFile(p)
  PROVE  LoopInv'
<1>1. PICK h \in Checks :
        /\ SetHandle(IF h.fd < 0 THEN h ELSE [h EXCEPT !.cursor = p])
        /\ AtOnce(IF h.fd < 0 THEN "-1" ELSE "ok")
        /\ UNCHANGED <<bytes, size>>
  BY DEF SeekFile
<1>2. GoodHandle(h)
  BY ChecksGood
<1> DEFINE g == [fd |-> h.fd, opened |-> h.opened, cursor |-> p, exists |-> h.exists]
<1>3. GoodHandle(g)
  BY <1>2 DEF GoodHandle, Positions
<1>4. [h EXCEPT !.cursor = p] = g
  BY ChecksRecord
<1> HIDE DEF g
<1>5. GoodHandle(IF h.fd < 0 THEN h ELSE [h EXCEPT !.cursor = p])
  BY <1>2, <1>3, <1>4
<1> QED  BY <1>1, <1>5, FileStays, AtOnceSound

LEMMA TruncateFileStep ==
  ASSUME Standing, NEW length \in Positions, TruncateFile(length)
  PROVE  LoopInv'
<1>1. PICK h \in Checks :
        /\ SetHandle(h)
        /\ \/ AtOnce("-1") /\ UNCHANGED <<bytes, size>>
           \/ /\ AtOnce("ok") /\ size' = length
              /\ bytes' = [p \in Positions |-> IF p < length THEN bytes[p] ELSE 0]
  BY DEF TruncateFile
<1>2. FileTyped'
  <2>1. CASE UNCHANGED <<bytes, size>>
    BY <2>1, FileStays
  <2>2. CASE size' = length /\ bytes' = [p \in Positions |-> IF p < length THEN bytes[p] ELSE 0]
    BY <2>2 DEF Standing, LoopInv, TypeOK, FileTyped, Positions
  <2> QED  BY <1>1, <2>1, <2>2
<1> QED  BY <1>1, <1>2, ChecksGood, AtOnceSound

LEMMA UnlinkFileStep ==
  ASSUME Standing, UnlinkFile
  PROVE  LoopInv'
<1> DEFINE h == [fd |-> IF fd > 0 THEN -1 ELSE fd, opened |-> Closed,
                 cursor |-> cursor, exists |-> FALSE]
<1>1. GoodHandle(h)
  BY ClosingGood
<1>2. SetHandle(h) /\ AtOnce(IF exists THEN "ok" ELSE "-1")
  BY DEF UnlinkFile, SetHandle
<1>3. FileTyped'
  BY DEF UnlinkFile, FileTyped, Positions
<1> HIDE DEF h
<1> QED  BY <1>1, <1>2, <1>3, AtOnceSound

LEMMA TransferStep ==
  ASSUME Standing, Transfer
  PROVE  LoopInv'
<1>1. PICK call \in Reads \cup Writes, n \in Lengths, offset \in 0 .. MaxLen :
        /\ offset + n <= MaxLen
        /\ call \in {"read", "write"} => cursor + n <= MaxLen
        /\ UNCHANGED <<bytes, size>> /\ Begin(call, n, offset)
  BY DEF Transfer
<1> QED  BY <1>1, FileStays, BeginSound
-----------------------------------------------------------------------------
LEMMA InitSound ==
  ASSUME Init
  PROVE  LoopInv
<1>1. NoJob \in Jobs
  BY EmptySeq DEF NoJob, Jobs
<1>2. HandleInv
  BY <1>1 DEF Init, HandleInv, NoDescriptorLost, NoJob
<1>3. TypeOK
  <2>1. job.left = 0 /\ job.n = 0 /\ job.i = 0 /\ job.at = 0
    BY DEF Init, NoJob
  <2>2. bytes \in [Positions -> 0 .. MaxLen]
    BY DEF Init, Positions
  <2>3. /\ job.left \in 0 .. job.n /\ job.i \in 0 .. MAX_DISK_TIMES /\ job.at \in 0 .. MaxLen
        /\ size \in 0 .. MaxLen /\ fd \in Int /\ cursor \in 0 .. MaxLen /\ opened \subseteq Nat
    BY <2>1 DEF Init
  <2>4. exists \in BOOLEAN /\ busy \in BOOLEAN
    BY DEF Init
  <2> QED  BY <2>2, <2>3, <2>4, Zenon DEF TypeOK
<1> QED  BY <1>2, <1>3 DEF LoopInv, Init

LEMMA StutterSound ==
  ASSUME LoopInv, UNCHANGED vars
  PROVE  LoopInv'
BY DEF LoopInv, TypeOK, HandleInv, NoDescriptorLost, JobInv, Overlaid, Filled, Moved, Positions,
       vars, fileVars, handleVars, Jobs

(* The inductive invariant: the descriptor, the loop's locals, the buffer, *)
(* the cursor and the file fit together after every system call, whatever  *)
(* part of a transfer it did.                                              *)
THEOREM LoopSound == ASSUME FirstFd > 0 PROVE Spec => []LoopInv
<1>1. ASSUME LoopInv, Next PROVE LoopInv'
  <2>1. Standing
    BY <1>1 DEF Standing
  <2> QED  BY <1>1, <2>1, OpenFileStep, CloseFileStep, InspectStep, UnlinkFileStep,
              SeekFileStep, TruncateFileStep, TransferStep, LoopStep DEF Next
<1>2. LoopInv /\ [Next]_vars => LoopInv'
  BY <1>1, StutterSound
<1> QED  BY <1>2, InitSound, PTL DEF Spec

THEOREM FileTypeCorrect == ASSUME FirstFd > 0 PROVE Spec => []TypeOK
<1>1. LoopInv => TypeOK
  BY DEF LoopInv
<1> QED  BY <1>1, LoopSound, PTL

(* No order of open, close, unlink, failing opens and transfers loses a    *)
(* descriptor, when standard input is open.                                *)
THEOREM DescriptorKept == ASSUME FirstFd > 0 PROVE Spec => []NoDescriptorLost
<1>1. LoopInv => NoDescriptorLost
  BY DEF LoopInv, HandleInv
<1> QED  BY <1>1, LoopSound, PTL

LEMMA InvImpliesWritesPrefix ==
  ASSUME LoopInv
  PROVE  WritesPrefix
<1> SUFFICES ASSUME NEW call \in Writes, Done(call)
             PROVE  /\ ret = "TFS_SUCCESS" <=> Moved = job.n /\ fd >= 0
                    /\ Overlaid
                    /\ call = "write" /\ fd >= 0 => cursor = job.at + Moved
  BY DEF WritesPrefix, Overlaid
<1>1. ~ busy /\ job.call = call /\ job # NoJob /\ JobInv
  BY DEF Done, LoopInv
<1>2. /\ job.left \in 0 .. job.n /\ job.n \in 0 .. MaxLen /\ fd \in Int
  BY DEF LoopInv, TypeOK, HandleInv, Jobs
<1> QED  BY <1>1, <1>2 DEF LoopInv, JobInv, Moved

(* What a write leaves in the file, for every length and every pattern of  *)
(* short transfers, interruptions and errors.                              *)
THEOREM PrefixWritten == ASSUME FirstFd > 0 PROVE Spec => []WritesPrefix
BY LoopSound, InvImpliesWritesPrefix, PTL

LEMMA InvImpliesReadsExactly ==
  ASSUME LoopInv
  PROVE  ReadsExactly
<1> SUFFICES ASSUME NEW call \in Reads, Done(call)
             PROVE  /\ job.buf = [j \in 1 .. Moved |-> bytes[job.at + j - 1]]
                    /\ ret = "TFS_SUCCESS" => Moved = job.n /\ (Moved = 0 \/ job.at + Moved <= size)
                    /\ ret = "EXIT_DISK_OPER_INCOMPLETE" =>
                         job.at + Moved >= size /\ Moved < job.n
                    /\ call = "read" /\ fd >= 0 => cursor = job.at + Moved
  BY DEF ReadsExactly
<1>1. ~ busy /\ job.call = call /\ job # NoJob /\ JobInv /\ Filled
  BY DEF Done, LoopInv
<1>2. /\ job.left \in 0 .. job.n /\ job.n \in 0 .. MaxLen /\ fd \in Int
  BY DEF LoopInv, TypeOK, HandleInv, Jobs
<1> QED  BY <1>1, <1>2 DEF LoopInv, JobInv, Moved, Filled

(* What a read delivers, in the same generality.                           *)
THEOREM BufferFilled == ASSUME FirstFd > 0 PROVE Spec => []ReadsExactly
BY LoopSound, InvImpliesReadsExactly, PTL
=============================================================================
