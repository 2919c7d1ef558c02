---------------------------- MODULE MCCacheProxy ----------------------------
(* Instances of CacheProxy for TLC.  Keys and files are numbers so that the
   functions over them can be written down here; what the .cfg files choose
   between is defined once. *)
EXTENDS CacheProxy

Seconds == [v \in Version |-> v]               \* every write in a second of its own

AllFiles == [k \in Key |-> File]               \* every key reads every file

WithMtimes == [k \in Key |-> "mtimes"]

EachKey == {{k} : k \in Key}

=============================================================================
