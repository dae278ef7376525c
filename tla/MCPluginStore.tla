--------------------------- MODULE MCPluginStore ---------------------------
(***************************************************************************)
(* Two workers over three keys, two of which have an entry; one of these   *)
(* expires.  The three largest entries together are past the quota, also   *)
(* with what writers that decide together may add to it.                   *)
(***************************************************************************)
EXTENDS PluginStore, TLC

MCWorkers == {"w1", "w2"}
MCOps == "w1" :> 2 @@ "w2" :> 1
MCNever == 3
MCLoaded == 1 :> [size |-> 1, expires |-> 1] @@ 2 :> [size |-> 1, expires |-> MCNever]

\* The comments of the store say that a write which would push the total past
\* KV_MAX_TOTAL_BYTES is refused, and that what a concurrent write does between
\* the reads of kv_set and its insert makes the verdict conservative only
\* (host_state.rs 58-61, 149-151).
QuotaHolds == MapThenSumSet(Bytes, DOMAIN kv) <= MaxTotal
=============================================================================
