---------------------------- MODULE FileOperation ----------------------------
(***************************************************************************)
(* FileOperation: one file behind one descriptor, opened on first use, and *)
(* the four loops that transfer a buffer in as many system calls as it     *)
(* takes.  The kernel is modelled from how the loops use it (external): a  *)
(* call transfers a part of what was asked for, or fails with an errno.    *)
(* The bytes a write takes from its buffer are 1, 2, ..., n.               *)
(***************************************************************************)
EXTENDS Integers, Sequences, FiniteSets, FiniteSetsExt

CONSTANTS
  MAX_DISK_TIMES,  \* 5 in file_op.h
  FirstFd,         \* lowest descriptor that open may return
  O_CREAT,         \* whether open_flags_ has it
  MaxLen,          \* bound: length of the file
  Lengths          \* bound: nbytes of the transfers

ASSUME FileOperationAssumption ==
  /\ MAX_DISK_TIMES \in Nat \ {0} /\ FirstFd \in Nat /\ O_CREAT \in BOOLEAN
  /\ MaxLen \in Nat /\ Lengths \subseteq 0 .. MaxLen

VARIABLES
  bytes,   \* what the file holds, 0 beyond its end
  size,    \* its length
  exists,  \* the name leads to it
  opened,  \* descriptors this object has opened and not closed
  fd,      \* fd_
  cursor,  \* position of the open descriptor
  busy,    \* a transfer loop runs
  job,     \* the loop's locals: the call, nbytes, where it began, left, i, buf
  was,     \* the file when the loop began
  ret      \* what the last operation returned

fileVars   == <<bytes, size, exists>>
handleVars == <<opened, fd, cursor>>
vars       == <<fileVars, handleVars, busy, job, was, ret>>

Positions == 0 .. MaxLen - 1
Reads  == {"pread", "read"}
Writes == {"pwrite", "write"}
Errnos == {"EINTR", "EAGAIN", "EBADF", "EIO"}

NoFile == [bytes |-> <<>>, size |-> 0]
NoJob == [call |-> "none", n |-> 0, at |-> 0, left |-> 0, i |-> 0, buf |-> <<>>]

Init ==
  /\ bytes = [p \in Positions |-> 0] /\ size = 0 /\ exists = FALSE
  /\ opened = {} /\ fd = -1 /\ cursor = 0
  /\ busy = FALSE /\ job = NoJob /\ was = NoFile /\ ret = "none"
-----------------------------------------------------------------------------
(* open(2) and what the class makes of it.                                 *)

FreeFd(s) == Min((FirstFd .. FirstFd + Cardinality(s)) \ s)

(* Both open_file and close_file spare descriptor 0.                       *)
NotClosed == opened  \* mutant of Closed
Closed    == IF fd > 0 THEN opened \ {fd} ELSE opened

(* What open_file may leave: a new descriptor, or none.                    *)
Opens ==
  {[fd |-> -1, opened |-> Closed, cursor |-> 0, exists |-> exists]} \cup
  (IF exists \/ O_CREAT
   THEN {[fd |-> FreeFd(Closed), opened |-> Closed \cup {FreeFd(Closed)},
          cursor |-> 0, exists |-> TRUE]}
   ELSE {})

(* check_file opens only when there is no descriptor.                      *)
Checks ==
  IF fd < 0 THEN Opens
  ELSE {[fd |-> fd, opened |-> opened, cursor |-> cursor, exists |-> exists]}

SetHandle(h) == fd' = h.fd /\ opened' = h.opened /\ cursor' = h.cursor /\ exists' = h.exists

(* An operation without a loop: it returns r at once.                      *)
AtOnce(r) ==
  /\ ~ busy /\ busy' = FALSE
  /\ job' = NoJob /\ was' = NoFile /\ ret' = r

OpenFile ==
  \E h \in Opens :
    /\ SetHandle(h)
    /\ AtOnce(IF h.fd < 0 THEN "-errno" ELSE "fd")
    /\ UNCHANGED <<bytes, size>>

(* close_file, and the destructor.                                         *)
CloseFile ==
  /\ opened' = Closed /\ fd' = IF fd > 0 THEN -1 ELSE fd
  /\ AtOnce("none")
  /\ UNCHANGED <<fileVars, cursor>>

(* get_file_size and flush_file (without O_SYNC): only check_file counts.   *)
Inspect ==
  \E h \in Checks, r \in {"-1", "ok"} :
    /\ h.fd < 0 => r = "-1"
    /\ SetHandle(h) /\ AtOnce(r)
    /\ UNCHANGED <<bytes, size>>

SeekFile(p) ==
  \E h \in Checks :
    /\ SetHandle(IF h.fd < 0 THEN h ELSE [h EXCEPT !.cursor = p])
    /\ AtOnce(IF h.fd < 0 THEN "-1" ELSE "ok")
    /\ UNCHANGED <<bytes, size>>

TruncateFile(length) ==
  \E h \in Checks :
    /\ SetHandle(h)
    /\ \/ /\ AtOnce("-1")
          /\ UNCHANGED <<bytes, size>>
       \/ /\ h.fd >= 0 /\ AtOnce("ok")
          /\ size' = length
          /\ bytes' = [p \in Positions |-> IF p < length THEN bytes[p] ELSE 0]

(* unlink_file closes first: the next operation opens another file, or     *)
(* fails when open_flags_ lacks O_CREAT.                                   *)
UnlinkFile ==
  /\ opened' = Closed /\ fd' = IF fd > 0 THEN -1 ELSE fd
  /\ bytes' = [p \in Positions |-> 0] /\ size' = 0 /\ exists' = FALSE
  /\ AtOnce(IF exists THEN "ok" ELSE "-1")
  /\ UNCHANGED cursor
-----------------------------------------------------------------------------
(* pread_file, pwrite_file, read_file, write_file.                         *)

Begin(call, n, offset) ==
  /\ ~ busy
  /\ \E h \in Checks :
       /\ SetHandle(h)
       /\ busy' = (h.fd >= 0)
       /\ ret' = IF h.fd < 0 THEN "-1" ELSE "none"
       /\ job' = [call |-> call, n |-> n, left |-> n, i |-> 0, buf |-> <<>>,
                  at |-> IF call \in {"pread", "pwrite"} THEN offset ELSE h.cursor]
  /\ was' = [bytes |-> bytes', size |-> size']

(* Where the next byte goes: read_offset, or the cursor of the descriptor. *)
Here == IF job.call \in {"pread", "pwrite"} THEN job.at + (job.n - job.left) ELSE cursor

Return(r) == busy' = FALSE /\ ret' = r /\ UNCHANGED was

Finish ==
  /\ busy /\ job.left = 0
  /\ Return("TFS_SUCCESS")
  /\ UNCHANGED <<fileVars, handleVars, job>>

GiveUp ==
  /\ busy /\ job.left > 0 /\ job.i + 1 >= MAX_DISK_TIMES
  /\ Return("-1")
  /\ UNCHANGED <<fileVars, handleVars, job>>

TriesAgain == busy /\ job.left > 0 /\ job.i + 1 < MAX_DISK_TIMES

(* The loops after c bytes were transferred.  The first three are mutants. *)
LeftKept(c)     == [job EXCEPT !.i = @ + 1]
OneTooMany(c)   == [job EXCEPT !.i = @ + 1, !.left = IF c + 1 < @ THEN @ - c - 1 ELSE 0]
StartsOver(c)   == [job EXCEPT !.i = IF @ + 2 >= MAX_DISK_TIMES THEN 0 ELSE @ + 1, !.left = @ - c]
Transferred(c)  == [job EXCEPT !.i = @ + 1, !.left = @ - c]

(* Which errors each loop answers with another call.                       *)
Retried == {"EINTR", "EAGAIN"} \cup IF job.call \in Writes THEN {"EBADF"} ELSE {}

SysError ==
  /\ TriesAgain
  /\ \E e \in Errnos :
       IF e \in Retried
       THEN UNCHANGED <<busy, ret, was>>
       ELSE Return(IF job.call = "read" /\ e = "EBADF" THEN "-1" ELSE "-errno")
  /\ job' = Transferred(0)
  /\ UNCHANGED <<fileVars, handleVars>>

ReadSome ==
  /\ TriesAgain /\ job.call \in Reads
  /\ \E c \in 1 .. job.left :
       /\ Here + c <= size
       /\ job' = [Transferred(c) EXCEPT !.buf = @ \o [j \in 1 .. c |-> bytes[Here + j - 1]]]
       /\ cursor' = IF job.call = "read" THEN cursor + c ELSE cursor
  /\ UNCHANGED <<fileVars, opened, fd, busy, was, ret>>

EndOfFile ==
  /\ TriesAgain /\ job.call \in Reads /\ Here >= size
  /\ job' = Transferred(0)
  /\ Return("EXIT_DISK_OPER_INCOMPLETE")
  /\ UNCHANGED <<fileVars, handleVars>>

(* A mutant of Payload: p_tmp is not advanced.                             *)
FirstPayload(j) == j
Payload(j)      == job.n - job.left + j

WriteSome ==
  /\ TriesAgain /\ job.call \in Writes
  /\ \E c \in 1 .. job.left :
       /\ bytes' = [p \in Positions |-> IF p \in Here .. Here + c - 1
                                        THEN Payload(p - Here + 1) ELSE bytes[p]]
       /\ size' = Max({size, Here + c})
       /\ job' = Transferred(c)
       /\ cursor' = IF job.call = "write" THEN cursor + c ELSE cursor
  /\ UNCHANGED <<exists, opened, fd, busy, was, ret>>

Loop == Finish \/ GiveUp \/ SysError \/ ReadSome \/ EndOfFile \/ WriteSome

(* Bound: transfers that stay within MaxLen.                               *)
Transfer ==
  \E call \in Reads \cup Writes, n \in Lengths, offset \in 0 .. MaxLen :
    /\ offset + n <= MaxLen
    /\ call \in {"read", "write"} => cursor + n <= MaxLen /\ offset = 0
    /\ UNCHANGED <<bytes, size>>
    /\ Begin(call, n, offset)

Next ==
  \/ OpenFile \/ CloseFile \/ Inspect \/ UnlinkFile
  \/ \E p \in Positions : SeekFile(p) \/ TruncateFile(p)
  \/ Transfer \/ Loop

Spec == Init /\ [][Next]_vars

(* A process that runs goes on running.                                    *)
FairSpec == Spec /\ WF_vars(Loop)
-----------------------------------------------------------------------------
TypeOK ==
  /\ bytes \in [Positions -> 0 .. MaxLen] /\ size \in 0 .. MaxLen
  /\ exists \in BOOLEAN /\ busy \in BOOLEAN
  /\ fd \in Int /\ opened \subseteq Nat /\ cursor \in 0 .. MaxLen
  /\ job.left \in 0 .. job.n /\ job.i \in 0 .. MAX_DISK_TIMES /\ job.at \in 0 .. MaxLen

Done(call) == ~ busy /\ job.call = call /\ job # NoJob
Moved      == job.n - job.left

(* A write stores a prefix of its buffer where it was told to, all of it   *)
(* exactly when it reports success, and touches nothing else, whatever     *)
(* short transfers and interruptions there were.                           *)
WritesPrefix ==
  \A call \in Writes : Done(call) =>
    /\ ret = "TFS_SUCCESS" <=> Moved = job.n /\ fd >= 0
    /\ bytes = [p \in Positions |-> IF p \in job.at .. job.at + Moved - 1
                                    THEN p - job.at + 1 ELSE was.bytes[p]]
    /\ size = IF Moved = 0 THEN was.size ELSE Max({was.size, job.at + Moved})
    /\ call = "write" /\ fd >= 0 => cursor = job.at + Moved

(* A read that reports success filled its buffer with the bytes at its     *)
(* offset, all of them from inside the file; one that reports an incomplete*)
(* operation met the end of the file, and only then.                       *)
ReadsExactly ==
  \A call \in Reads : Done(call) =>
    /\ job.buf = [j \in 1 .. Moved |-> bytes[job.at + j - 1]]
    /\ ret = "TFS_SUCCESS" => Moved = job.n /\ (Moved = 0 \/ job.at + Moved <= size)
    /\ ret = "EXIT_DISK_OPER_INCOMPLETE" =>
         job.at + Moved >= size /\ Moved < job.n
    /\ call = "read" /\ fd >= 0 => cursor = job.at + Moved

(* The object never holds a descriptor it has forgotten, and never one it  *)
(* has closed: opening again, unlinking and failing opens included.        *)
NoDescriptorLost == opened = IF fd >= 0 THEN {fd} ELSE {}

(* A transfer ends, even when every call is interrupted.                   *)
Ends == busy ~> ~ busy
-----------------------------------------------------------------------------
(* The inductive invariant of the proofs.                                  *)

Jobs == [call : Reads \cup Writes \cup {"none"}, n : 0 .. MaxLen, at : 0 .. MaxLen,
         left : 0 .. MaxLen, i : 0 .. MAX_DISK_TIMES, buf : Seq(0 .. MaxLen)]

HandleInv ==
  /\ NoDescriptorLost /\ fd \in {-1} \cup (Nat \ {0})
  /\ job \in Jobs /\ (job.call = "none" <=> job = NoJob)
  /\ busy => fd >= 0 /\ job # NoJob /\ ret = "none" /\ job.i < MAX_DISK_TIMES

JobInv ==
  /\ job.at + job.n <= MaxLen
  /\ was.bytes \in [Positions -> 0 .. MaxLen] /\ was.size \in 0 .. MaxLen
  /\ fd < 0 => job.left = job.n /\ ret = "-1"
  /\ ~ busy /\ fd >= 0 => (ret = "TFS_SUCCESS" <=> job.left = 0)

(* In the middle of a write the file is the old one with the first Moved   *)
(* bytes of the buffer laid over it.                                       *)
Overlaid ==
  /\ bytes = [p \in Positions |-> IF p \in job.at .. job.at + Moved - 1
                                  THEN p - job.at + 1 ELSE was.bytes[p]]
  /\ size = IF Moved = 0 THEN was.size ELSE Max({was.size, job.at + Moved})

(* In the middle of a read the buffer holds the Moved bytes at the offset. *)
Filled ==
  /\ job.buf = [j \in 1 .. Moved |-> bytes[job.at + j - 1]]
  /\ Moved = 0 \/ job.at + Moved <= size
  /\ ret = "EXIT_DISK_OPER_INCOMPLETE" => job.left > 0 /\ job.at + Moved >= size

(* A transfer that ran, or runs, moved a prefix, and the cursor follows it *)
(* when the call uses the cursor.                                          *)
LoopInv ==
  /\ TypeOK /\ HandleInv
  /\ job # NoJob =>
       /\ JobInv
       /\ job.call \in {"read", "write"} /\ fd >= 0 => cursor = job.at + Moved
       /\ job.call \in Writes => Overlaid
       /\ job.call \in Reads => Filled
=============================================================================
