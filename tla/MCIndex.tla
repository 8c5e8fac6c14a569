------------------------------- MODULE MCIndex -------------------------------
(***************************************************************************)
(* The index checked by TLC: what the repository states of it and the code *)
(* does not keep.                                                          *)
(***************************************************************************)
EXTENDS IndexProperties

(* The nodes met on the way from o along next links, o included.           *)
Chain(o) ==
  LET reach[n \in 0 .. Cardinality(NodeOffsets)] ==
        IF n = 0 THEN {o} \ {0}
        ELSE reach[n - 1] \cup ({NextOf(p) : p \in reach[n - 1] \cap NodeOffsets} \ {0})
  IN  reach[Cardinality(NodeOffsets)]

(* hash_insert puts the node into the hash chain: once a write reports     *)
(* success, some node of its bucket's chain has its id.                    *)
InsertedIntoChain ==
  AtRest /\ op = "write" /\ ret = "TFS_SUCCESS" =>
    \E o \in Chain(BucketHead(key)) \cap NodeOffsets : HasKey(ReadMeta(mem, o), key)

(* inner_offset_ is the offset of the file in the block: a reader that     *)
(* follows it gets the file's own bytes.                                   *)
InnerOffsetsTrue ==
  \A k \in Indexed : block[ReadMeta(mem, BucketHead(k)).inner_offset] = k
=============================================================================
