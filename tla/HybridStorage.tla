--------------------------- MODULE HybridStorage ---------------------------
(***************************************************************************)
(* The hybrid storage engine of storage/hybrid.rs: a cache in front of the *)
(* persistent layer, for one collection whose schema fixes the cache       *)
(* strategy.  Client tasks, the write-behind processor, the cache warmer   *)
(* and flush interleave between their accesses to the cache, the database  *)
(* and the queue, each of which is atomic (a DashMap, RocksDB, an RwLock). *)
(*                                                                         *)
(* An operation is the list of accesses its strategy makes, in order.  The *)
(* value None stands for an absent document.                               *)
(***************************************************************************)
EXTENDS Integers, Sequences

CONSTANTS Clients, Docs, Values, None,
          Strategies,   \* strategies the schema may choose
          Ops,          \* operations clients call
          Deployments,  \* ways the engine is used: see below
          Lossy,        \* the cache evicts or expires entries
          NoEviction,   \* its policy: a full cache refuses new entries
          MaxOps,       \* bound: operations begun
          MaxCrashes,   \* bound: crashes
          MaxIoErrors   \* bound: failing accesses to the database

ASSUME BoundsAssumption == MaxOps \in Nat /\ MaxCrashes \in Nat /\ MaxIoErrors \in Nat
ASSUME NoneAssumption == None \notin Values

VARIABLES
  deployment,          \* how the engine is used
  strategy,            \* schema.cache_config.strategy
  db, cache, queue,    \* persistent layer, cache layer, write-behind queue
  batch,               \* entries the processor took off the queue
  warm, warm_left,     \* the warmer's scan, and the documents still to cache
  op,                  \* per client: the operation in progress
  possible,            \* history: per document the values that may be current
  outrun,              \* history: documents cached although the database had changed
                       \* since they were loaded, or deleted after they were uncached
  dropped,             \* history: drop_collection was called
  ops, crashes, io_errors

cacheVars == <<cache, outrun>>
storeVars == <<db, cacheVars, queue>>
warmVars == <<warm, warm_left>>
countVars == <<dropped, ops, crashes, io_errors>>
vars == <<deployment, strategy, storeVars, batch, warmVars, op, possible, countVars>>

\* Callers flush a "server", where no background task was started; "background"
\* tasks make it unnecessary, and may fill the cache, too, if the schema asks for it.
Flushing == deployment = "server"
Background == deployment = "background"

Contents == Values \cup {None}

Idle == [kind |-> "idle", doc |-> None, val |-> None, plan |-> << >>, entries |-> << >>,
         left |-> {}, alone |-> FALSE]

Init ==
  /\ deployment \in Deployments
  /\ strategy \in Strategies
  /\ db = [d \in Docs |-> None] /\ cache = [d \in Docs |-> None] /\ queue = << >>
  /\ batch = << >>
  /\ warm = [d \in Docs |-> None] /\ warm_left = {}
  /\ op = [c \in Clients |-> Idle]
  /\ possible = [d \in Docs |-> {None}] /\ outrun = {}
  /\ dropped = FALSE /\ ops = 0 /\ crashes = 0 /\ io_errors = 0

-----------------------------------------------------------------------------
(* The accesses of each operation, in the order of the code. *)

\* Mutated form: a write that reaches the cache only.
write_plan_cache_only ==
  [None |-> <<"cache">>, WriteThrough |-> <<"cache">>,
   WriteBehind |-> <<"cache">>, ReadThrough |-> <<"cache">>]

\* What a delete leaves of the document.
deleted == None

\* insert_document and update_document.
write_plan ==
  [None |-> <<"db">>, WriteThrough |-> <<"db", "cache">>,
   WriteBehind |-> <<"cache", "queue">>, ReadThrough |-> <<"db", "uncache">>]

\* Mutated form: ReadThrough uncaches before it deletes.
delete_plan_early ==
  [None |-> <<"db">>, WriteThrough |-> <<"uncache", "db">>,
   WriteBehind |-> <<"uncache", "queue">>, ReadThrough |-> <<"uncache", "db">>]

\* delete_document.
delete_plan ==
  [None |-> <<"db">>, WriteThrough |-> <<"uncache", "db">>,
   WriteBehind |-> <<"uncache", "queue">>, ReadThrough |-> <<"db", "uncache">>]

\* get_document.
get_plan == IF strategy = "None" THEN <<"load">> ELSE <<"lookup", "load", "populate">>

Plan(kind) ==
  CASE kind = "write"  -> write_plan[strategy]
    [] kind = "delete" -> delete_plan[strategy]
    [] kind = "get"    -> get_plan
    [] kind = "drop"   -> <<"clear", "collect", "dropkeys">>
    [] kind = "flush"  -> <<"drain", "apply">>

Mutates(kind) == kind \in {"write", "delete", "drop"}
Touches(o, d) == Mutates(o.kind) /\ (o.doc = d \/ o.kind = "drop")

\* A client calls an operation.  Its value becomes a possible one, and operations
\* that change the same document are not alone any more.
Begin(c, kind, d, v) ==
  LET o == [Idle EXCEPT !.kind = kind, !.doc = d, !.val = v, !.plan = Plan(kind),
                        !.alone = \A e \in Clients : ~ \E f \in Docs :
                                    Touches(op[e], f) /\ (f = d \/ kind = "drop")]
      Meets(e) == \E f \in Docs : Touches(o, f) /\ op[e].kind # "idle"
                                  /\ (op[e].doc = f \/ op[e].kind = "drop")
  IN  /\ op[c].kind = "idle"
      /\ kind \in Ops /\ (kind = "flush" => Flushing) /\ ops < MaxOps
      /\ ops' = ops + 1 /\ dropped' = (dropped \/ kind = "drop")
      /\ op' = [e \in Clients |->
                  IF e = c THEN o
                  ELSE IF ~Meets(e) THEN op[e]
                  ELSE [op[e] EXCEPT !.alone = FALSE]]
      /\ possible' = [f \in Docs |-> IF Touches(o, f) THEN possible[f] \cup {v} ELSE possible[f]]
      /\ UNCHANGED <<deployment, strategy, storeVars, batch, warmVars, crashes, io_errors>>

\* The next access of c's operation; the rest of its plan follows.
Doing(c, access) == op[c].kind # "idle" /\ op[c].plan # << >> /\ Head(op[c].plan) = access
Then(c) == op' = [op EXCEPT ![c].plan = Tail(@)]

\* The database loses the documents D, and the cache has been seen to already.
Outran(D) == outrun' = outrun \cup {d \in D : cache[d] # None}

WriteDb(c) ==
  /\ Doing(c, "db") /\ Then(c)
  /\ db' = [db EXCEPT ![op[c].doc] = op[c].val]
  /\ Outran(IF strategy = "WriteThrough" /\ op[c].kind = "delete" THEN {op[c].doc} ELSE {})
  /\ UNCHANGED <<deployment, strategy, cache, queue, batch, warmVars, possible, countVars>>

\* populate_cache.
WriteCache(c) ==
  /\ Doing(c, "cache") /\ Then(c)
  /\ cache' = [cache EXCEPT ![op[c].doc] = op[c].val] /\ outrun' = outrun \ {op[c].doc}
  /\ UNCHANGED <<deployment, strategy, db, queue, batch, warmVars, possible, countVars>>

\* set_with_ttl finds the cache full and evicts nothing: the operation returns an
\* error, a write with the database already written, a read with what it loaded.
CacheRefuses(c) ==
  /\ NoEviction
  /\ Doing(c, "cache") \/ Doing(c, "populate")
  /\ op' = [op EXCEPT ![c] = Idle]
  /\ UNCHANGED <<deployment, strategy, storeVars, batch, warmVars, possible, countVars>>

\* invalidate_cache_entry, or cache_layer.remove.
Uncache(c) ==
  /\ Doing(c, "uncache") /\ Then(c)
  /\ cache' = [cache EXCEPT ![op[c].doc] = None] /\ outrun' = outrun \ {op[c].doc}
  /\ UNCHANGED <<deployment, strategy, db, queue, batch, warmVars, possible, countVars>>

queue_write_behind(c) ==
  /\ Doing(c, "queue") /\ Then(c)
  /\ queue' = Append(queue, [doc |-> op[c].doc, val |-> op[c].val])
  /\ UNCHANGED <<deployment, strategy, db, cacheVars, batch, warmVars, possible, countVars>>

\* A hit ends the read.
Lookup(c) ==
  /\ Doing(c, "lookup")
  /\ op' = [op EXCEPT ![c].val = cache[op[c].doc],
                      ![c].plan = IF cache[op[c].doc] = None THEN Tail(@) ELSE << >>]
  /\ UNCHANGED <<deployment, strategy, storeVars, batch, warmVars, possible, countVars>>

\* Only a document that exists is put into the cache.
Load(c) ==
  /\ Doing(c, "load")
  /\ op' = [op EXCEPT ![c].val = db[op[c].doc],
                      ![c].plan = IF db[op[c].doc] = None THEN << >> ELSE Tail(@)]
  /\ UNCHANGED <<deployment, strategy, storeVars, batch, warmVars, possible, countVars>>

\* A copy v of d is put into the cache, loaded at an earlier step.
Cached(d, v) ==
  /\ cache' = [cache EXCEPT ![d] = v]
  /\ outrun' = IF v = db[d] THEN outrun \ {d} ELSE outrun \cup {d}

Populate(c) ==
  /\ Doing(c, "populate") /\ Then(c)
  /\ Cached(op[c].doc, op[c].val)
  /\ UNCHANGED <<deployment, strategy, db, queue, batch, warmVars, possible, countVars>>

\* drop_collection: the cache is cleared, the keys are collected, then deleted.
ClearCache(c) ==
  /\ Doing(c, "clear") /\ Then(c)
  /\ cache' = [d \in Docs |-> None] /\ outrun' = {}
  /\ UNCHANGED <<deployment, strategy, db, queue, batch, warmVars, possible, countVars>>

CollectKeys(c) ==
  /\ Doing(c, "collect")
  /\ op' = [op EXCEPT ![c].plan = Tail(@), ![c].left = {d \in Docs : db[d] # None}]
  /\ UNCHANGED <<deployment, strategy, storeVars, batch, warmVars, possible, countVars>>

DropKey(c, d) ==
  /\ Doing(c, "dropkeys") /\ d \in op[c].left
  /\ db' = [db EXCEPT ![d] = None] /\ Outran({d})
  /\ op' = [op EXCEPT ![c].left = @ \ {d}]
  /\ UNCHANGED <<deployment, strategy, cache, queue, batch, warmVars, possible, countVars>>

\* flush: the queue is drained, then the entries are applied one by one.
Drain(c) ==
  /\ Doing(c, "drain")
  /\ op' = [op EXCEPT ![c].plan = Tail(@), ![c].entries = queue]
  /\ queue' = << >>
  /\ UNCHANGED <<deployment, strategy, db, cacheVars, batch, warmVars, possible, countVars>>

\* process_write_behind_entry.
Applied(e) == [db EXCEPT ![e.doc] = e.val]

FlushEntry(c) ==
  /\ Doing(c, "apply") /\ op[c].entries # << >>
  /\ db' = Applied(Head(op[c].entries))
  /\ op' = [op EXCEPT ![c].entries = Tail(@)]
  /\ UNCHANGED <<deployment, strategy, cacheVars, queue, batch, warmVars, possible, countVars>>

Finished(c) ==
  /\ op[c].kind # "idle"
  /\ op[c].plan \in {<< >>, <<"apply">>, <<"dropkeys">>}
  /\ op[c].entries = << >> /\ op[c].left = {}

\* The operation returns.  One that changed a document while no other did
\* settles its value.
Return(c) ==
  /\ Finished(c)
  /\ op' = [op EXCEPT ![c] = Idle]
  /\ possible' = [d \in Docs |-> IF Touches(op[c], d) /\ op[c].alone
                                 THEN {op[c].val} ELSE possible[d]]
  /\ UNCHANGED <<deployment, strategy, storeVars, batch, warmVars, countVars>>

\* An access to the database fails: the operation returns an error.  A flush
\* loses the entries it has drained, a drop leaves the keys it has not deleted.
OpFails(c) ==
  /\ \/ Doing(c, "db") \/ Doing(c, "load") \/ Doing(c, "collect")
     \/ Doing(c, "apply") /\ op[c].entries # << >>
     \/ Doing(c, "dropkeys") /\ op[c].left # {}
  /\ io_errors < MaxIoErrors
  /\ io_errors' = io_errors + 1
  /\ op' = [op EXCEPT ![c] = Idle]
  /\ UNCHANGED <<deployment, strategy, storeVars, batch, warmVars, possible, dropped, ops, crashes>>

-----------------------------------------------------------------------------
(* Background tasks. *)

\* process_write_behind_queue: entries old enough are taken off.  All have the
\* delay of one schema, so they are the oldest ones.
TakeBatch(n) ==
  /\ Background /\ batch = << >> /\ n \in 1..Len(queue)
  /\ batch' = SubSeq(queue, 1, n)
  /\ queue' = SubSeq(queue, n + 1, Len(queue))
  /\ UNCHANGED <<deployment, strategy, db, cacheVars, warmVars, op, possible, countVars>>

\* Mutated form: the newest entry of the batch first.
NextInBatchLast == Len(batch)

NextInBatch == 1

Without(s, i) == SubSeq(s, 1, i - 1) \o SubSeq(s, i + 1, Len(s))

ProcessEntry ==
  /\ batch # << >>
  /\ db' = Applied(batch[NextInBatch])
  /\ batch' = Without(batch, NextInBatch)
  /\ UNCHANGED <<deployment, strategy, cacheVars, queue, warmVars, op, possible, countVars>>

\* An error is reported and the entry is gone.
EntryFails ==
  /\ batch # << >> /\ io_errors < MaxIoErrors
  /\ io_errors' = io_errors + 1
  /\ batch' = Tail(batch)
  /\ UNCHANGED <<deployment, strategy, storeVars, warmVars, op, possible, dropped, ops, crashes>>

\* preload_collection and refresh_collection_cache: scan, then put into the
\* cache what the scan returned.
WarmScan ==
  /\ Background /\ warm_left = {}
  /\ warm' = db
  /\ warm_left' = {d \in Docs : db[d] # None}
  /\ warm_left' # {}
  /\ UNCHANGED <<deployment, strategy, storeVars, batch, op, possible, countVars>>

WarmPut(d) ==
  /\ d \in warm_left
  /\ Cached(d, warm[d])
  /\ warm_left' = warm_left \ {d}
  /\ UNCHANGED <<deployment, strategy, db, queue, batch, warm, op, possible, countVars>>

\* The limit of a preload is reached, or the cache refuses a document.
WarmEnds ==
  /\ warm_left # {} /\ warm_left' = {}
  /\ UNCHANGED <<deployment, strategy, storeVars, batch, warm, op, possible, countVars>>

\* The cache layer expires or evicts an entry.
Evict(d) ==
  /\ Lossy /\ cache[d] # None
  /\ cache' = [cache EXCEPT ![d] = None] /\ outrun' = outrun \ {d}
  /\ UNCHANGED <<deployment, strategy, db, queue, batch, warmVars, op, possible, countVars>>

\* A crash and a restart: the database, built with RocksDB, survives.
Crash ==
  /\ crashes < MaxCrashes
  /\ crashes' = crashes + 1
  /\ cache' = [d \in Docs |-> None] /\ outrun' = {} /\ queue' = << >> /\ batch' = << >>
  /\ warm_left' = {}
  /\ op' = [c \in Clients |-> Idle]
  /\ UNCHANGED <<deployment, strategy, db, warm, possible, dropped, ops, io_errors>>

-----------------------------------------------------------------------------
ClientStep(c) ==
  \/ WriteDb(c) \/ WriteCache(c) \/ Uncache(c) \/ queue_write_behind(c)
  \/ Lookup(c) \/ Load(c) \/ Populate(c)
  \/ ClearCache(c) \/ CollectKeys(c) \/ (\E d \in Docs : DropKey(c, d))
  \/ Drain(c) \/ FlushEntry(c) \/ Return(c)

Call(c) ==
  \/ \E d \in Docs, v \in Values : Begin(c, "write", d, v)
  \/ \E d \in Docs : Begin(c, "delete", d, deleted) \/ Begin(c, "get", d, None)
  \/ Begin(c, "drop", None, None) \/ Begin(c, "flush", None, None)

Processor == ProcessEntry \/ \E n \in 1..Len(queue) : TakeBatch(n)

Next ==
  \/ \E c \in Clients : Call(c) \/ ClientStep(c) \/ CacheRefuses(c) \/ OpFails(c)
  \/ Processor \/ EntryFails
  \/ WarmScan \/ WarmEnds \/ (\E d \in Docs : WarmPut(d) \/ Evict(d))
  \/ Crash

Spec == Init /\ [][Next]_vars

\* Tasks under way are polled again and again, and the processor, once started,
\* wakes up every 50 ms and finds entries whose delay has passed.
FairSpec == Spec /\ WF_vars(Processor) /\ \A c \in Clients : WF_vars(ClientStep(c))

-----------------------------------------------------------------------------
Entries == [doc : Docs, val : Contents]

\* Every variable keeps its type.
TypeOK ==
  /\ strategy \in Strategies
  /\ db \in [Docs -> Contents] /\ cache \in [Docs -> Contents]
  /\ warm \in [Docs -> Contents] /\ warm_left \subseteq Docs
  /\ \A s \in {queue, batch} : \A i \in 1..Len(s) : s[i] \in Entries
  /\ \A c \in Clients : /\ op[c].kind \in Ops \cup {"idle"}
                        /\ op[c].val \in Contents /\ op[c].left \subseteq Docs
  /\ possible \in [Docs -> SUBSET Contents] /\ dropped \in BOOLEAN

Quiet == (\A c \in Clients : op[c].kind = "idle") /\ warm_left = {}
AtRest == Quiet /\ queue = << >> /\ batch = << >>

\* "No stale data returned after writes" (ARCHITECTURE.md:138) is true of the cache up
\* to three races, each of which lasts until the next change of the cached copy: a read
\* that missed, or the warmer, caches what it loaded although the database has changed
\* since; and a delete of WriteThrough or a drop uncaches a document before it is deleted,
\* and a read between the two caches it again (hybrid.rs:139-158, 225-279, 298-304,
\* 530-564).  Whatever else overlaps, fails, is refused or evicted, a cached copy is what
\* the last write made of the document, or one that is under way or met another.  With
\* WriteBehind the database itself is behind, and with None no read asks the cache.
NoStaleRead ==
  strategy \in {"WriteThrough", "ReadThrough"} =>
    \A d \in Docs \ outrun : cache[d] # None => cache[d] \in possible[d]

\* When nothing is under way, the database holds what the last acknowledged
\* write left; write-behind promises it only where no crash and no failing
\* database cut the queue short, and no collection is dropped under the queue.
DurableAtRest ==
  AtRest /\ (strategy = "WriteBehind" => crashes = 0 /\ io_errors = 0 /\ ~dropped)
    => \A d \in Docs : db[d] \in possible[d]

\* With the processor running, what is queued reaches the database or is
\* written again, unless a crash comes first.
QueueDrains ==
  \A d \in Docs, v \in Contents :
    (Background /\ possible[d] = {v} /\ Quiet)
      ~> (db[d] = v \/ possible[d] # {v} \/ dropped \/ crashes + io_errors > 0)
=============================================================================
