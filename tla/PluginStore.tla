---------------------------- MODULE PluginStore ----------------------------
(***************************************************************************)
(* The state all instances of one plugin share (openrusty-wasm,            *)
(* host_state.rs): a key-value store with expiry and a byte quota, and the *)
(* cursors of its scans; reached through the imports of linker_kv.rs and,  *)
(* in the guest, the wrappers of openrusty-sdk (host.rs, ffi.rs).          *)
(*                                                                         *)
(* A worker is a thread that runs an instance.  Every access to the map,   *)
(* to the total and to the cursors is a step of its own: the map is        *)
(* sharded, the total is an atomic, the cursors have a mutex.  A value is  *)
(* its length; keys are numbers, in the order of their bytes, and a shard  *)
(* holds one key.                                                          *)
(***************************************************************************)
EXTENDS Integers, FiniteSets, Sequences, FiniteSetsExt

CONSTANTS
  Workers,    \* threads that run instances of the plugin
  Keys,       \* 1..n
  Sizes,      \* lengths of the values that are written
  MaxValue,   \* KV_MAX_VALUE_BYTES
  MaxTotal,   \* KV_MAX_TOTAL_BYTES
  Word,       \* 2^64: the total is a usize and wraps
  MaxCursors, \* MAX_CURSORS
  SweepEvery, \* SWEEP_EVERY
  CursorTtl,  \* CURSOR_TTL_MS
  Ttl,        \* the positive ttl_ms that writers use
  StartLen,   \* the first buffer of a guest's read, 256 bytes
  MaxRead,    \* MAX_READ_LEN, the guest's arena
  Loaded,     \* the entries that earlier calls have left
  MaxTime,    \* bound on the clock
  MaxOps      \* bound on the calls of each worker

ASSUME StoreAssumption ==
  /\ Keys \subseteq Nat /\ Sizes \subseteq Nat
  /\ {MaxRead, StartLen, CursorTtl, MaxCursors} \subseteq Nat
  /\ \A k \in DOMAIN Loaded : k \in Keys /\ Loaded[k].size \in Nat

VARIABLES
  kv,      \* the entries, a function on the keys that have one
  total,   \* total_bytes
  cursors, \* the live cursors by id
  ids,     \* next_cursor
  stale,   \* stale_ops
  now,     \* now_ms()
  call,    \* the call each worker is in
  ops      \* calls each worker has made

storeVars == <<kv, total, cursors, ids, stale, now, call, ops>>

Never == MaxTime + Ttl + 1
NoCall == [at |-> "idle"]

\* The length of a key is 1 (KvLedger).
Bytes(k) == IF k \in DOMAIN kv THEN 1 + kv[k].size ELSE 0

\* The counter of the sweep stands anywhere; here the next scan makes one.
StoreInit ==
  /\ kv = Loaded /\ total = MapThenSumSet(Bytes, DOMAIN Loaded)
  /\ cursors = << >> /\ ids = 0 /\ stale = SweepEvery
  /\ now = 0
  /\ call = [w \in Workers |-> NoCall]
  /\ ops = [w \in Workers |-> 0]

IsExpired(expires, t) == expires # Never /\ t >= expires

Drop(f, S) == [x \in DOMAIN f \ S |-> f[x]]
Put(f, k, e) == [x \in DOMAIN f \cup {k} |-> IF x = k THEN e ELSE f[x]]

At(w, place) == call[w].at = place

\* Worker w goes on as c; a call that ends leaves it idle.
Goto(w, c) == call' = [call EXCEPT ![w] = c]
Return(w) == Goto(w, NoCall)

Enter(w, c) ==
  /\ At(w, "idle") /\ ops[w] < MaxOps[w]
  /\ ops' = [ops EXCEPT ![w] = @ + 1]
  /\ Goto(w, c)

\* Time passes between any two steps.
Tick ==
  /\ now < MaxTime
  /\ now' = now + 1
  /\ UNCHANGED <<kv, total, cursors, ids, stale, call, ops>>

-----------------------------------------------------------------------------
(***************************************************************************)
(* account(added, removed): a step of its own after the change it accounts *)
(* for; the call then goes on as c.                                        *)
(***************************************************************************)
Accounting(added, removed, c) ==
  [at |-> "account", added |-> added, removed |-> removed, then |-> c]

Account(w) ==
  /\ At(w, "account")
  /\ total' = (total + call[w].added - call[w].removed + Word) % Word
  /\ Goto(w, call[w].then)
  /\ UNCHANGED <<kv, cursors, ids, stale, now, ops>>

-----------------------------------------------------------------------------
(***************************************************************************)
(* kv_set: what an overwrite releases, the total, the verdict, the insert. *)
(***************************************************************************)
SetReleased(w, k, v, ttl) ==
  /\ Enter(w, [at |-> "total", key |-> k, size |-> v, ttl |-> ttl, released |-> Bytes(k)])
  /\ UNCHANGED <<kv, total, cursors, ids, stale, now>>

SaturatingSub(a, b) == IF a > b THEN a - b ELSE 0
SaturatingAdd(a, b) == IF a + b < Word THEN a + b ELSE Word - 1

\* Mutation: only the size of the value is checked.
SetVerdictAnyTotal(v, t) == v <= MaxValue

\* kv_set_verdict.
SetVerdict(v, t) == v <= MaxValue /\ SaturatingAdd(t, 1 + v) <= MaxTotal

SetTotal(w) ==
  /\ At(w, "total")
  /\ LET c == call[w]
     IN IF SetVerdict(c.size, SaturatingSub(total, c.released))
        THEN Goto(w, [c EXCEPT !.at = "insert"])
        ELSE Return(w)
  /\ UNCHANGED <<kv, total, cursors, ids, stale, now, ops>>

SetInsert(w) ==
  /\ At(w, "insert")
  /\ LET c == call[w]
         e == [size |-> c.size, expires |-> IF c.ttl <= 0 THEN Never ELSE now + c.ttl]
     IN /\ kv' = Put(kv, c.key, e)
        /\ Goto(w, Accounting(1 + c.size, Bytes(c.key), NoCall))
  /\ UNCHANGED <<total, cursors, ids, stale, now, ops>>

\* kv_del.
Del(w, k) ==
  /\ k \in DOMAIN kv
  /\ kv' = Drop(kv, {k})
  /\ Enter(w, Accounting(0, Bytes(k), NoCall))
  /\ UNCHANGED <<total, cursors, ids, stale, now>>

-----------------------------------------------------------------------------
(***************************************************************************)
(* kv_get of the guest: read_two_phase calls the import with a buffer it   *)
(* lets grow to the length the host asks for, three times at most.  An     *)
(* expired entry is dropped if it still is one, by the clock read first.   *)
(***************************************************************************)
GuestGet(w, k) ==
  /\ Enter(w, [at |-> "get", key |-> k, cap |-> StartLen, tries |-> 1])
  /\ UNCHANGED <<kv, total, cursors, ids, stale, now>>

\* write_out: it fits, or the length that is needed is reported.
Grows(need, cap) == need > cap /\ need <= MaxRead

Get(w) ==
  /\ At(w, "get")
  /\ LET c == call[w]
     IN IF c.key \in DOMAIN kv /\ ~IsExpired(kv[c.key].expires, now)
        THEN IF Grows(kv[c.key].size, c.cap) /\ c.tries < 3
             THEN Goto(w, [c EXCEPT !.cap = kv[c.key].size, !.tries = @ + 1])
             ELSE Return(w)
        ELSE Goto(w, [at |-> "reap", key |-> c.key, clock |-> now])
  /\ UNCHANGED <<kv, total, cursors, ids, stale, now, ops>>

\* remove_if.
Reap(w) ==
  /\ At(w, "reap")
  /\ LET k == call[w].key
     IN IF k \in DOMAIN kv /\ IsExpired(kv[k].expires, call[w].clock)
        THEN kv' = Drop(kv, {k}) /\ Goto(w, Accounting(0, Bytes(k), NoCall))
        ELSE Return(w) /\ UNCHANGED kv
  /\ UNCHANGED <<total, cursors, ids, stale, now, ops>>

-----------------------------------------------------------------------------
(***************************************************************************)
(* scan_begin: now and then a sweep, then the snapshot, shard by shard,    *)
(* then the cursor, under the lock.                                        *)
(***************************************************************************)
Snapshotting == [at |-> "snapshot", key |-> 1, clock |-> now, entries |-> << >>]

Sweeping(scan) == [at |-> "sweep", key |-> 1, clock |-> now, bytes |-> 0, scan |-> scan]

ScanBegin(w) ==
  /\ Enter(w, IF stale >= SweepEvery THEN [at |-> "reset"] ELSE Snapshotting)
  /\ stale' = stale + 1
  /\ UNCHANGED <<kv, total, cursors, ids, now>>

ScanReset(w) ==
  /\ At(w, "reset")
  /\ stale' = 0
  /\ Goto(w, Sweeping(TRUE))
  /\ UNCHANGED <<kv, total, cursors, ids, now, ops>>

\* The periodic sweeper of the process sweeps too.
SweeperTick(w) ==
  /\ Enter(w, Sweeping(FALSE))
  /\ UNCHANGED <<kv, total, cursors, ids, stale, now>>

\* sweep: retain on the next shard of the map.
Sweep(w) ==
  /\ At(w, "sweep") /\ call[w].key \in Keys
  /\ LET c == call[w]
         gone == c.key \in DOMAIN kv /\ IsExpired(kv[c.key].expires, c.clock)
     IN /\ kv' = IF gone THEN Drop(kv, {c.key}) ELSE kv
        /\ Goto(w, [c EXCEPT !.key = @ + 1, !.bytes = IF gone THEN c.bytes + Bytes(c.key) ELSE c.bytes])
  /\ UNCHANGED <<total, cursors, ids, stale, now, ops>>

\* The bytes of all shards are accounted for together.
SweepAccount(w) ==
  /\ At(w, "sweep") /\ call[w].key \notin Keys
  /\ Goto(w, Accounting(0, call[w].bytes,
                      [at |-> "reclaim", clock |-> call[w].clock, scan |-> call[w].scan]))
  /\ UNCHANGED <<kv, total, cursors, ids, stale, now, ops>>

\* Mutation: a cursor on its last entry counts as consumed.
ReclaimedEarly(c, t) == c.pos + 1 >= Len(c.entries) \/ t - c.created >= CursorTtl

\* Fully consumed, or abandoned: saturating_sub of the sweep's clock.
Reclaimed(c, t) == c.pos >= Len(c.entries) \/ t - c.created >= CursorTtl

SweepCursors(w) ==
  /\ At(w, "reclaim")
  /\ cursors' = Drop(cursors, {i \in DOMAIN cursors : Reclaimed(cursors[i], call[w].clock)})
  /\ IF call[w].scan THEN Goto(w, Snapshotting) ELSE Return(w)
  /\ UNCHANGED <<kv, total, ids, stale, now, ops>>

\* kv_scan: the live entry of the next shard.
Snapshot(w) ==
  /\ At(w, "snapshot") /\ call[w].key \in Keys
  /\ LET c == call[w]
         live == c.key \in DOMAIN kv /\ ~IsExpired(kv[c.key].expires, c.clock)
     IN Goto(w, [c EXCEPT !.key = @ + 1,
                          !.entries = IF live THEN Append(c.entries, <<c.key, kv[c.key].size>>)
                                      ELSE c.entries])
  /\ UNCHANGED <<kv, total, cursors, ids, stale, now, ops>>

\* The guest has a cursor, or -1 and an iterator that yields nothing.  What
\* the iterator yielded and what the snapshot holds is kept for ScanIsComplete.
ScanOpen(w) ==
  /\ At(w, "snapshot") /\ call[w].key \notin Keys
  /\ IF Cardinality(DOMAIN cursors) >= MaxCursors
     THEN Return(w) /\ UNCHANGED <<cursors, ids>>
     ELSE /\ cursors' = Put(cursors, ids, [entries |-> call[w].entries, pos |-> 0, created |-> now])
          /\ ids' = ids + 1
          /\ Goto(w, [at |-> "valid", cursor |-> ids, cap |-> StartLen, first |-> TRUE,
                      got |-> << >>, all |-> call[w].entries, born |-> now])
  /\ UNCHANGED <<kv, total, stale, now, ops>>

-----------------------------------------------------------------------------
(***************************************************************************)
(* KvScan::next: the import checks the cursor, peeks at it, writes the     *)
(* entry out and advances it, each under the lock, not together.           *)
(***************************************************************************)
\* -1 ends the iteration: in the first call it marks the cursor dead, so that
\* its drop makes no call; in a retry it is not recognised.
ScanValid(w) ==
  /\ At(w, "valid")
  /\ LET c == call[w]
     IN Goto(w, [c EXCEPT !.at = IF c.cursor \in DOMAIN cursors THEN "peek"
                                 ELSE IF c.first THEN "dead" ELSE "drop"])
  /\ UNCHANGED <<kv, total, cursors, ids, stale, now, ops>>

\* encode_kv_pair: two length words, here 1 byte, the key and the value.
PairLen(e) == 2 + 1 + e[2]

\* scan_peek and write_out.  A pair that does not fit is asked for again; one
\* that no buffer holds ends the iteration.  None: a reclaimed cursor, or an
\* empty snapshot, which scan_next removes.
ScanPeek(w) ==
  /\ At(w, "peek")
  /\ LET c == call[w]
         cur == cursors[c.cursor]
         need == PairLen(cur.entries[cur.pos + 1])
     IN IF c.cursor \notin DOMAIN cursors \/ cur.pos >= Len(cur.entries)
        THEN cursors' = Drop(cursors, {c.cursor}) /\ Goto(w, [c EXCEPT !.at = "drop"])
        ELSE /\ Goto(w, CASE need <= c.cap -> [c EXCEPT !.at = "advance",
                                                 !.got = Append(@, cur.entries[cur.pos + 1])]
                          [] Grows(need, c.cap) ->
                                [c EXCEPT !.at = "valid", !.cap = need, !.first = FALSE]
                          [] OTHER -> [c EXCEPT !.at = "drop"])
             /\ UNCHANGED cursors
  /\ UNCHANGED <<kv, total, ids, stale, now, ops>>

\* scan_advance; the last entry takes the cursor with it.
ScanAdvance(w) ==
  /\ At(w, "advance")
  /\ LET c == call[w]
         cur == cursors[c.cursor]
     IN /\ cursors' = IF c.cursor \notin DOMAIN cursors THEN cursors
                      ELSE IF cur.pos + 1 >= Len(cur.entries) THEN Drop(cursors, {c.cursor})
                      ELSE [cursors EXCEPT ![c.cursor].pos = @ + 1]
        /\ Goto(w, [c EXCEPT !.at = "valid", !.cap = StartLen, !.first = TRUE])
  /\ UNCHANGED <<kv, total, ids, stale, now, ops>>

\* scan_end_if_live when the iterator is dropped, exhausted or not.
ScanEnd(w) ==
  /\ \/ At(w, "drop") /\ cursors' = Drop(cursors, {call[w].cursor})
     \/ At(w, "dead") /\ UNCHANGED cursors
  /\ Return(w)
  /\ UNCHANGED <<kv, total, ids, stale, now, ops>>

\* The guest traps or times out in a scan: nothing is dropped.
Abandon(w) ==
  /\ At(w, "valid")
  /\ Return(w)
  /\ UNCHANGED <<kv, total, cursors, ids, stale, now, ops>>

StoreNext ==
  \/ Tick
  \/ \E w \in Workers :
       \/ \E k \in Keys, v \in Sizes, ttl \in {0, Ttl} : SetReleased(w, k, v, ttl)
       \/ \E k \in Keys : GuestGet(w, k) \/ Del(w, k)
       \/ SetTotal(w) \/ SetInsert(w) \/ Account(w) \/ Get(w) \/ Reap(w)
       \/ ScanBegin(w) \/ ScanReset(w) \/ SweeperTick(w)
       \/ Sweep(w) \/ SweepAccount(w) \/ SweepCursors(w)
       \/ Snapshot(w) \/ ScanOpen(w)
       \/ ScanValid(w) \/ ScanPeek(w) \/ ScanAdvance(w) \/ ScanEnd(w) \/ Abandon(w)

StoreSpec == StoreInit /\ [][StoreNext]_storeVars
-----------------------------------------------------------------------------
(***************************************************************************)
(* The ledger: the total and the deltas of the calls that have changed the *)
(* map and not yet accounted for it.                                       *)
(***************************************************************************)
Pending(w) ==
  LET c == call[w]
  IN CASE c.at = "account" -> c.added - c.removed
       [] c.at = "sweep" -> 0 - c.bytes
       [] OTHER -> 0

\* Every writer but one can have decided on a total that misses the entry of
\* another, or on the release of an entry that is gone by then.
Overshoot == (Cardinality(Workers) - 1) * (1 + MaxValue)

Ledger == INSTANCE KvLedger WITH
  Limit <- MaxTotal + Overshoot,
  held <- kv,
  ledger <- (total + MapThenSumSet(Pending, Workers) + Word) % Word

\* The store implements the ledger: the total never drifts from the map, whoever
\* displaces, deletes or reaps an entry between the reads of a set and its
\* insert, and writers that pass the quota together exceed it by less than an
\* entry each (kv_set, account).
StoreRefinesLedger == Ledger!Spec

\* An iteration that ends while its cursor is younger than CURSOR_TTL_MS has
\* yielded the whole snapshot, whatever the sweeps of other instances reclaim
\* between the steps of its reads (scan_step, kv_scan_next, sweep).
WholeSnapshot ==
  \A w \in Workers :
    LET c == call[w]
    IN /\ c.at \in {"drop", "dead"}
       /\ now - c.born < CursorTtl
       /\ \A i \in 1..Len(c.all) : PairLen(c.all[i]) <= MaxRead
       => c.got = c.all

\* No interleaving of scans, refused, abandoned or ended, holds more snapshots
\* than MAX_CURSORS (scan_begin).
CursorsBounded == Cardinality(DOMAIN cursors) <= MaxCursors

\* A guest that is not interrupted reads a whole snapshot, unless its cursor was
\* abandoned for longer than its time to live, and the snapshots held at one time
\* stay within MAX_CURSORS (scan_begin, sweep).
ScanIsComplete == WholeSnapshot /\ CursorsBounded
=============================================================================
