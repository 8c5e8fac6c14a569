----------------------------- MODULE MCFileAccess -----------------------------
(***************************************************************************)
(* MMapFileOperation in words of four bytes, compared with what the model  *)
(* of IndexHandle assumes of it.                                           *)
(***************************************************************************)
EXTENDS MMapFileOperation

Index == INSTANCE IndexHandle WITH
  BucketSize <- 6, FileWords <- MaxLen, MaxId <- 0, FileSize <- 1,
  FirstMap <- 4 * FirstMap, PerMap <- 4 * PerMap, MaxMap <- 4 * MaxMap,
  MaxDeletes <- 0, MaxKills <- 0, TornBytes <- 0 .. 23,
  mem <- bytes, fsize <- 4 * before.size, mapped <- 4 * before.mapped,
  block <- bytes, op <- ret, pc <- ret, key <- 0, pos <- 0, prev <- 0, cur <- 0,
  meta <- job, step <- 1, kills <- 0

(* What an access to a node does to the lengths of mapping and file, and   *)
(* whether it may succeed, is what Preads, Pwrites, Fails and FailsStoring *)
(* of IndexHandle say.                                                     *)
AccessAsAssumed ==
  LET o == 4 * job.at
  IN  ~ busy /\ job.n = 6 /\ before.mapped > 0 =>
        \E r \in Index!Remapped(o) :
          /\ r.mapped = 4 * map_size
          /\ CASE ret = "TFS_SUCCESS" /\ job.call = "pread" ->
                    /\ o + 24 <= Index!Larger(r.mapped, r.fsize)
                    /\ 4 * size = r.fsize
               [] ret = "TFS_SUCCESS" /\ job.call = "pwrite" ->
                    4 * size = Index!Larger(r.fsize, o + 24)
               [] ret # "TFS_SUCCESS" /\ job.call = "pread" ->
                    o + 24 > r.mapped /\ 4 * size = r.fsize
               [] ret # "TFS_SUCCESS" /\ job.call = "pwrite" ->
                    /\ o + 24 > r.mapped
                    /\ \E n \in 0 .. 5 :
                         4 * size = IF n = 0 THEN r.fsize ELSE Index!Larger(r.fsize, o + 4 * n)
=============================================================================
