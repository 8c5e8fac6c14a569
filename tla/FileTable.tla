------------------------------ MODULE FileTable ------------------------------
(***************************************************************************)
(* What a block promises its users: a set of files and a counter.  A new   *)
(* file gets the counter's value as its id, ids are never given twice, and *)
(* a file stays until its own deletion was asked for.                      *)
(***************************************************************************)
EXTENDS Naturals

VARIABLES
  files,  \* ids of the files that can be found
  next,   \* id of the next file
  asked   \* id of the file whose deletion was asked for, 0 for none

vars == <<files, next, asked>>

Init == files = {} /\ next = 1 /\ asked = 0

Put == files' = files \cup {next} /\ next' = next + 1 /\ UNCHANGED asked

Ask == asked' \in Nat /\ UNCHANGED <<files, next>>

Remove == asked \in files /\ files' = files \ {asked} /\ UNCHANGED <<next, asked>>

Next == Put \/ Ask \/ Remove

Spec == Init /\ [][Next]_vars
=============================================================================
