------------------------------ MODULE BlockStore ------------------------------
(***************************************************************************)
(* What the tools promise of all blocks together: a run of a tool touches  *)
(* the block it was asked for and no other; only block_init makes a block  *)
(* or, on one that exists, discards it; files come and go only by          *)
(* block_write and block_delete.                                           *)
(***************************************************************************)
EXTENDS Naturals

CONSTANT Ids

VARIABLES
  table,  \* per block: whether it exists, its files, and its next file id
  job     \* what was asked for: the tool, the block id, the file id

vars == <<table, job>>

NoTable    == [made |-> FALSE, files |-> {}, next |-> 0]
FreshTable == [made |-> TRUE,  files |-> {}, next |-> 1]

Init == table = [b \in Ids |-> NoTable] /\ job \in [op : {"none"}, block : Ids, file : {0}]

Ask == job'.block \in Ids /\ UNCHANGED table

(* The table of the block that was asked for goes from t to u.             *)
Becomes(t, u) == table[job.block] = t /\ table' = [table EXCEPT ![job.block] = u]

Make    == job.op = "init" /\ Becomes(NoTable, FreshTable)
Discard == job.op = "init" /\ table[job.block].made /\ Becomes(table[job.block], NoTable)

Put ==
  LET t == table[job.block]
  IN  /\ job.op = "write" /\ t.made
      /\ Becomes(t, [t EXCEPT !.files = @ \cup {t.next}, !.next = @ + 1])

Remove ==
  LET t == table[job.block]
  IN  /\ job.op = "delete" /\ job.file \in t.files
      /\ Becomes(t, [t EXCEPT !.files = @ \ {job.file}])

Next == Ask \/ ((Make \/ Discard \/ Put \/ Remove) /\ UNCHANGED job)

Spec == Init /\ [][Next]_vars
=============================================================================
