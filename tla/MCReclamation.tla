---------------------------- MODULE MCReclamation ----------------------------
(***************************************************************************)
(* All four tools that work on a block, checked by TLC with the properties *)
(* of SpaceReclamation and those of the index.  The property stated here   *)
(* is what the code's comments say of a compaction, and it does not hold.  *)
(***************************************************************************)
EXTENDS SpaceReclamation, MCIndex

(* "hash_find then continue": an id whose file was deleted is passed over, *)
(* it does not end the compaction (block_reclamation.cpp:15 and :128).     *)
DeletedIdsPassedOver ==
  AtRest /\ op = "recla" => ret # "EXIT_MEFA_NOT_FOUND_ERROR"
=============================================================================
