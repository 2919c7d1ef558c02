---------------------------- MODULE MCCacheStore ----------------------------
(* Instances of CacheStore for TLC. *)
EXTENDS CacheStore, TLC

Interchangeable == Permutations(Worker) \cup Permutations(Key) \cup Permutations(File)

=============================================================================
