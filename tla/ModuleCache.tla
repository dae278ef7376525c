---------------------------- MODULE ModuleCache ----------------------------
(***************************************************************************)
(* How a dynamic module gets from its file to a request (openrusty-wasm,   *)
(* dynamic.rs: DynamicRegistry::resolve; openrusty-server,                 *)
(* dynamic_admin.rs: store_module): uploads that write a temporary file    *)
(* and rename it, and requests that look at the version of the file, at    *)
(* the cache, and compile behind a gate.                                   *)
(*                                                                         *)
(* One name.  A version is the modification time of the file, set when it  *)
(* is written and not when it is renamed, so that uploads that overlap can *)
(* be installed in the opposite order.  No two files share a version; how  *)
(* a rolled back file with an old version fares is said in the README.     *)
(***************************************************************************)
EXTENDS Naturals, FiniteSets

CONSTANTS
  Requests,  \* the requests that resolve the module
  Uploads,   \* the files that are delivered
  MaxRemoves \* bound on the removals

VARIABLES
  disk,    \* the file, with the position of its installation
  seq,     \* files installed so far
  clock,   \* modification times so far
  up,      \* what each upload is at
  removes, \* removals so far
  cache,   \* the entry of the cache
  gate,    \* the request that holds the gate, or none
  req      \* what each request is at

cacheVars == <<disk, seq, clock, up, removes, cache, gate, req>>

NoFile == [at |-> "none"]
Nobody == "nobody"

CacheInit ==
  /\ disk = NoFile /\ cache = NoFile
  /\ seq = 0 /\ clock = 0 /\ removes = 0
  /\ gate = Nobody
  /\ up = [u \in Uploads |-> [at |-> "idle"]]
  /\ req = [r \in Requests |-> [at |-> "idle"]]

-----------------------------------------------------------------------------
(***************************************************************************)
(* The file.                                                               *)
(***************************************************************************)
\* store_module writes the temporary file; register has compiled and checked
\* the bytes (validate_bytes), a file that is copied in by hand may be broken.
Write(u, valid) ==
  /\ up[u].at = "idle"
  /\ clock' = clock + 1
  /\ up' = [up EXCEPT ![u] = [at |-> "written", version |-> clock + 1, valid |-> valid]]
  /\ UNCHANGED <<disk, seq, removes, cache, gate, req>>

Rename(u) ==
  /\ up[u].at = "written"
  /\ seq' = seq + 1
  /\ disk' = [at |-> "file", version |-> up[u].version, valid |-> up[u].valid, seq |-> seq + 1]
  /\ up' = [up EXCEPT ![u] = [at |-> "done"]]
  /\ UNCHANGED <<clock, removes, cache, gate, req>>

\* The write or the rename fails: the temporary file is removed.
StoreFails(u) ==
  /\ up[u].at = "written"
  /\ up' = [up EXCEPT ![u] = [at |-> "done"]]
  /\ UNCHANGED <<disk, seq, clock, removes, cache, gate, req>>

\* unregister, or rm.
RemoveFile ==
  /\ removes < MaxRemoves /\ disk # NoFile
  /\ disk' = NoFile
  /\ removes' = removes + 1
  /\ UNCHANGED <<seq, clock, up, cache, gate, req>>

-----------------------------------------------------------------------------
(***************************************************************************)
(* resolve.                                                                *)
(***************************************************************************)
GoOn(r, c) == req' = [req EXCEPT ![r] = c]

\* file_version: the version that is looked for; without a file the entry goes.
Stat(r) ==
  /\ req[r].at = "idle"
  /\ IF disk = NoFile
     THEN cache' = NoFile /\ GoOn(r, [at |-> "refused"])
     ELSE /\ GoOn(r, [at |-> "look", version |-> disk.version, since |-> disk.seq])
          /\ UNCHANGED cache
  /\ UNCHANGED <<disk, seq, clock, up, removes, gate>>

\* Mutation: an entry that is newer than the file will do.
HitNewer(r) == cache # NoFile /\ cache.version >= req[r].version

\* The entry is of the version that was looked for.
Hit(r) == cache # NoFile /\ cache.version = req[r].version

Served(r, s) == [at |-> "served", since |-> req[r].since, seq |-> s]

Look(r) ==
  /\ req[r].at = "look"
  /\ GoOn(r, IF Hit(r) THEN Served(r, cache.seq) ELSE [req[r] EXCEPT !.at = "wait"])
  /\ UNCHANGED <<disk, seq, clock, up, removes, cache, gate>>

\* The gate, then the cache again.
Acquire(r) ==
  /\ req[r].at = "wait" /\ gate = Nobody
  /\ IF Hit(r)
     THEN GoOn(r, Served(r, cache.seq)) /\ UNCHANGED gate
     ELSE GoOn(r, [req[r] EXCEPT !.at = "compile"]) /\ gate' = r
  /\ UNCHANGED <<disk, seq, clock, up, removes, cache>>

\* compile_file reads whatever file there is by now.  A failure is not cached.
Compile(r) ==
  /\ req[r].at = "compile"
  /\ IF disk # NoFile /\ disk.valid
     THEN GoOn(r, [at |-> "built", version |-> req[r].version, since |-> req[r].since,
                   seq |-> disk.seq]) /\ UNCHANGED gate
     ELSE GoOn(r, [at |-> "refused"]) /\ gate' = Nobody
  /\ UNCHANGED <<disk, seq, clock, up, removes, cache>>

\* The entry is filed under the version that was looked for.
InsertEntry(r) ==
  /\ req[r].at = "built"
  /\ cache' = [at |-> "entry", version |-> req[r].version, seq |-> req[r].seq]
  /\ gate' = Nobody
  /\ GoOn(r, Served(r, req[r].seq))
  /\ UNCHANGED <<disk, seq, clock, up, removes>>

\* The client is gone: the future is dropped where it waits, the gate is free
\* and a compiler that still runs has nobody to answer.
Cancel(r) ==
  /\ req[r].at \in {"wait", "compile", "built"}
  /\ gate' = IF gate = r THEN Nobody ELSE gate
  /\ GoOn(r, [at |-> "refused"])
  /\ UNCHANGED <<disk, seq, clock, up, removes, cache>>

CacheNext ==
  \/ \E u \in Uploads : (\E valid \in BOOLEAN : Write(u, valid)) \/ Rename(u) \/ StoreFails(u)
  \/ RemoveFile
  \/ \E r \in Requests :
       Stat(r) \/ Look(r) \/ Acquire(r) \/ Compile(r) \/ InsertEntry(r) \/ Cancel(r)

CacheSpec == CacheInit /\ [][CacheNext]_cacheVars
-----------------------------------------------------------------------------
\* A request runs a module that was installed no earlier than the file it saw
\* when it began, whichever uploads, removals and compiles overlap with it, and
\* although the entry it finds can hold a later file than its key says
\* (resolve).
CacheIsFresh ==
  \A r \in Requests : req[r].at = "served" => req[r].seq >= req[r].since

=============================================================================
