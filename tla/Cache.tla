-------------------------------- MODULE Cache --------------------------------
(***************************************************************************)
(* CacheLayer: the concurrent map of cached values, the heap of expiry     *)
(* times beside it and the counter of bytes.  The three are updated one    *)
(* after the other without a common lock, so a call is interrupted between *)
(* any two of its accesses.  A value is known by its size.                 *)
(***************************************************************************)
EXTENDS Integers, Sequences, FiniteSets, FiniteSetsExt, TLC

CONSTANTS
    Tasks,
    Keys,
    Sizes,     \* sizes of values
    MaxSize,   \* max_size_bytes
    Word,      \* usize holds 0..Word-1
    Ttls,      \* times to live a caller may ask for, in seconds
    MaxTime,   \* bound: seconds that pass
    MaxCalls,  \* bound: calls in a behaviour
    None

ASSUME CacheAssumption ==
    /\ Sizes \subseteq Nat \ {0} /\ MaxSize \in Nat /\ Ttls \subseteq Nat
    /\ Word \in Nat /\ \A s \in Sizes : (MaxCalls + 1) * s < Word

Policies == {"LRU", "LFU", "TTL", "NoEviction"}

VARIABLES
    policy,  \* the configured eviction policy
    cache,   \* the map: key -> [size, expires, used, hits] or None
    heap,    \* TtlManager.heap: a set of [key, at]
    size,    \* current_size
    now,     \* the clock, in seconds
    task,    \* per task: the call under way
    calls,   \* number of calls so far
    raced,   \* history: keys on which two calls overlapped
    lost,    \* history: keys whose entry in the heap an eviction took with it
    crowded  \* history: two calls that store a value overlapped

vars == <<policy, cache, heap, size, now, task, calls, raced, lost, crowded>>

-----------------------------------------------------------------------------
Idle == [pc |-> "idle"]

\* CachedValue::new and with_ttl.
NewValue(s, ttl) ==
    [size |-> s, expires |-> IF ttl = None THEN None ELSE now + ttl, used |-> now, hits |-> 0]

\* is_expired is strict, get_expired_keys is not.
is_expired(v) == v.expires # None /\ now > v.expires
due(e) == e.at <= now

Held == {k \in Keys : cache[k] # None}
Bytes == MapThenSumSet(LAMBDA k : cache[k].size, Held)

\* fetch_add and fetch_sub wrap.
Plus(a, b) == (a + b) % Word
Minus(a, b) == (a - b) % Word

Forget(k) == cache' = [cache EXCEPT ![k] = None]
Untrack(k) == {e \in heap : e.key # k}

-----------------------------------------------------------------------------
(* Eviction order *)

calculate_score(v) ==
    CASE policy = "LRU" -> -(now - v.used)
      [] policy = "LFU" -> v.hits
      [] policy = "TTL" -> IF v.expires = None THEN MaxTime + Max(Ttls) + 1 ELSE v.expires - now

\* The orders in which select_victims may list the candidates: ties fall anyhow.
select_victims(cands) ==
    IF policy = "NoEviction" THEN {<<>>}
    ELSE {s \in [1..Cardinality(cands) -> cands] :
            /\ {s[i] : i \in DOMAIN s} = cands
            /\ \A i, j \in DOMAIN s : i < j =>
                  calculate_score(cache[s[i]]) <= calculate_score(cache[s[j]])}

-----------------------------------------------------------------------------
(* Calls *)

Goto(t, state) == task' = [task EXCEPT ![t] = state]

\* The keys a call under way reads or writes in several steps.
Touches(t) ==
    (IF "key" \in DOMAIN task[t] THEN {task[t].key} ELSE {})
    \cup (IF task[t].pc \in {"evict_sub", "evict_heap"} THEN {Head(task[t].victims)} ELSE {})

Meets(t, k) == \E u \in Tasks \ {t} : k \in Touches(u) \/ task[u].pc \in {"clear_heap", "clear_size"}

Collide(t, k) == raced' = IF Meets(t, k) THEN raced \cup {k} ELSE raced

Storing == {"space", "order", "evict", "evict_sub", "evict_heap", "subtract", "insert", "add"}

Begin(t) ==
    /\ task[t].pc = "idle" /\ calls < MaxCalls
    /\ calls' = calls + 1

Init ==
    /\ policy \in Policies
    /\ cache = [k \in Keys |-> None] /\ heap = {} /\ size = 0
    /\ now = 0
    /\ task = [t \in Tasks |-> Idle] /\ calls = 0
    /\ raced = {} /\ lost = {} /\ crowded = FALSE

-----------------------------------------------------------------------------
(* set_with_ttl *)

\* The entry of the heap is made first.
BeginSet(t, k, s, ttl) ==
    LET v == NewValue(s, ttl) IN
    /\ Begin(t)
    /\ heap' = IF ttl = None THEN heap ELSE heap \cup {[key |-> k, at |-> v.expires]}
    /\ Goto(t, [pc |-> "space", key |-> k, val |-> v])
    /\ Collide(t, k)
    /\ crowded' = (crowded \/ \E u \in Tasks \ {t} : task[u].pc \in Storing)
    /\ lost' = lost \ {k}
    /\ UNCHANGED <<policy, cache, size, now>>

\* Mutant: evicts a fifth less than is needed.
evict_size_short(target) == (target * 8) \div 10

\* Evicts a fifth more than is needed.
evict_size(target) == (target * 12) \div 10

\* ensure_space counts the value that is about to be replaced as well.
EnsureSpace(t) ==
    LET need == Plus(size, task[t].val.size) IN
    /\ task[t].pc = "space"
    /\ IF need <= MaxSize THEN Goto(t, [task[t] EXCEPT !.pc = "subtract"])
       ELSE IF policy = "NoEviction" THEN Goto(t, Idle)
       ELSE Goto(t, [pc |-> "order", key |-> task[t].key, val |-> task[t].val,
                     left |-> evict_size(need - MaxSize)])
    /\ UNCHANGED <<policy, cache, heap, size, now, calls, raced, lost, crowded>>

\* Mutant: the size of the old value is not taken off.
SubtractNothing(t) ==
    /\ task[t].pc = "subtract"
    /\ Goto(t, [task[t] EXCEPT !.pc = "insert"])
    /\ UNCHANGED <<policy, cache, heap, size, now, calls, raced, lost, crowded>>

\* The old value is found and its size taken off while the entry is locked.
Subtract(t) ==
    LET k == task[t].key
        old == IF cache[k] = None THEN 0 ELSE cache[k].size
    IN /\ task[t].pc = "subtract"
       /\ size' = Minus(size, old)
       /\ Goto(t, [task[t] EXCEPT !.pc = "insert"])
       /\ UNCHANGED <<policy, cache, heap, now, calls, raced, lost, crowded>>

Insert(t) ==
    /\ task[t].pc = "insert"
    /\ cache' = [cache EXCEPT ![task[t].key] = task[t].val]
    /\ Goto(t, [task[t] EXCEPT !.pc = "add"])
    /\ UNCHANGED <<policy, heap, size, now, calls, raced, lost, crowded>>

Add(t) ==
    /\ task[t].pc = "add"
    /\ size' = Plus(size, task[t].val.size)
    /\ Goto(t, Idle)
    /\ UNCHANGED <<policy, cache, heap, now, calls, raced, lost, crowded>>

-----------------------------------------------------------------------------
(* evict_by_policy, for a set and for evict_percentage *)

BeginEvict(t, percent) ==
    /\ Begin(t)
    /\ Goto(t, [pc |-> "order", left |-> (size * percent) \div 100])
    /\ UNCHANGED <<policy, cache, heap, size, now, raced, lost, crowded>>

\* What follows the eviction: the insertion of a set, or nothing.
Evicted(t) ==
    IF "key" \in DOMAIN task[t]
    THEN [pc |-> "subtract", key |-> task[t].key, val |-> task[t].val]
    ELSE Idle

Order(t) ==
    /\ task[t].pc = "order"
    /\ \E s \in select_victims(Held) :
          Goto(t, [task[t] EXCEPT !.pc = "evict"] @@ [victims |-> s, gone |-> 0])
    /\ UNCHANGED <<policy, cache, heap, size, now, calls, raced, lost, crowded>>

\* Takes one victim out of the map, or stops when enough bytes are gone.
Evict(t) ==
    /\ task[t].pc = "evict"
    /\ IF task[t].victims = <<>> \/ task[t].gone >= task[t].left
       THEN Goto(t, Evicted(t)) /\ UNCHANGED <<cache, raced>>
       ELSE LET k == Head(task[t].victims) IN
            IF cache[k] = None
            THEN Goto(t, [task[t] EXCEPT !.victims = Tail(@)]) /\ UNCHANGED <<cache, raced>>
            ELSE /\ Forget(k) /\ Collide(t, k)
                 /\ Goto(t, [task[t] EXCEPT !.pc = "evict_sub", !.gone = @ + cache[k].size]
                            @@ [bytes |-> cache[k].size])
    /\ UNCHANGED <<policy, heap, size, now, calls, lost, crowded>>

EvictSub(t) ==
    /\ task[t].pc = "evict_sub"
    /\ size' = Minus(size, task[t].bytes)
    /\ Goto(t, [task[t] EXCEPT !.pc = "evict_heap"])
    /\ UNCHANGED <<policy, cache, heap, now, calls, raced, lost, crowded>>

\* All entries of the key go, also one that was made for a value yet to be stored.
EvictHeap(t) ==
    LET k == Head(task[t].victims) IN
    /\ task[t].pc = "evict_heap"
    /\ heap' = Untrack(k)
    /\ lost' = IF "key" \in DOMAIN task[t] /\ task[t].key = k THEN lost \cup {k} ELSE lost
    /\ Collide(t, k)
    /\ Goto(t, [f \in DOMAIN task[t] \ {"bytes"} |->
                  CASE f = "pc" -> "evict" [] f = "victims" -> Tail(task[t].victims)
                    [] OTHER -> task[t][f]])
    /\ UNCHANGED <<policy, cache, size, now, calls, crowded>>

-----------------------------------------------------------------------------
(* remove, and get, which first removes what has expired *)

BeginRemove(t, k) ==
    /\ Begin(t)
    /\ Goto(t, [pc |-> "remove", key |-> k])
    /\ Collide(t, k)
    /\ UNCHANGED <<policy, cache, heap, size, now, lost, crowded>>

Remove(t) ==
    LET k == task[t].key IN
    /\ task[t].pc = "remove"
    /\ IF cache[k] = None THEN Goto(t, Idle) /\ cache' = cache
       ELSE Forget(k) /\ Goto(t, [pc |-> "remove_sub", key |-> k, bytes |-> cache[k].size])
    /\ UNCHANGED <<policy, heap, size, now, calls, raced, lost, crowded>>

RemoveSub(t) ==
    /\ task[t].pc = "remove_sub"
    /\ size' = Minus(size, task[t].bytes)
    /\ Goto(t, [task[t] EXCEPT !.pc = "remove_heap"])
    /\ UNCHANGED <<policy, cache, heap, now, calls, raced, lost, crowded>>

RemoveHeap(t) ==
    /\ task[t].pc = "remove_heap"
    /\ heap' = Untrack(task[t].key)
    /\ Goto(t, Idle)
    /\ UNCHANGED <<policy, cache, size, now, calls, raced, lost, crowded>>

\* get_expired_keys pops everything that is due.
BeginGet(t, k) ==
    /\ Begin(t)
    /\ heap' = {e \in heap : ~due(e)}
    /\ Goto(t, [pc |-> "expire", key |-> k, expired |-> {e.key : e \in {x \in heap : due(x)}}])
    /\ Collide(t, k)
    /\ UNCHANGED <<policy, cache, size, now, lost, crowded>>

\* Whatever value the key has by now is removed.
ExpireOne(t) ==
    /\ task[t].pc = "expire"
    /\ \E k \in task[t].expired :
          /\ Collide(t, k)
          /\ IF cache[k] = None
             THEN cache' = cache /\ Goto(t, [task[t] EXCEPT !.expired = @ \ {k}])
             ELSE /\ Forget(k)
                  /\ Goto(t, [task[t] EXCEPT !.pc = "expire_sub", !.expired = @ \ {k}]
                             @@ [bytes |-> cache[k].size])
    /\ UNCHANGED <<policy, heap, size, now, calls, lost, crowded>>

ExpireSub(t) ==
    /\ task[t].pc = "expire_sub"
    /\ size' = Minus(size, task[t].bytes)
    /\ Goto(t, [pc |-> "expire", key |-> task[t].key, expired |-> task[t].expired])
    /\ UNCHANGED <<policy, cache, heap, now, calls, raced, lost, crowded>>

\* A hit marks the value; an expired value is removed once its entry is unlocked.
Look(t) ==
    LET k == task[t].key IN
    /\ task[t].pc = "expire" /\ task[t].expired = {}
    /\ IF cache[k] # None /\ is_expired(cache[k])
       THEN Goto(t, [pc |-> "remove", key |-> k]) /\ cache' = cache
       ELSE /\ Goto(t, Idle)
            /\ cache' = IF cache[k] = None THEN cache
                        ELSE [cache EXCEPT ![k].used = now, ![k].hits = @ + 1]
    /\ UNCHANGED <<policy, heap, size, now, calls, raced, lost, crowded>>

-----------------------------------------------------------------------------
(* expire, persist and clear *)

\* Mutant: the heap's entry is added before the old ones are removed.
ExpireSwapped(t, k, ttl) ==
    /\ Begin(t) /\ cache[k] # None
    /\ cache' = [cache EXCEPT ![k].expires = now + ttl]
    /\ heap' = Untrack(k)
    /\ Collide(t, k)
    /\ UNCHANGED <<policy, size, now, task, lost, crowded>>

\* The entry stays locked while the heap is brought up to date.
Expire(t, k, ttl) ==
    /\ Begin(t) /\ cache[k] # None
    /\ cache' = [cache EXCEPT ![k].expires = now + ttl]
    /\ heap' = Untrack(k) \cup {[key |-> k, at |-> now + ttl]}
    /\ Collide(t, k)
    /\ UNCHANGED <<policy, size, now, task, lost, crowded>>

Persist(t, k) ==
    /\ Begin(t) /\ cache[k] # None
    /\ cache' = [cache EXCEPT ![k].expires = None]
    /\ heap' = Untrack(k)
    /\ Collide(t, k)
    /\ UNCHANGED <<policy, size, now, task, lost, crowded>>

\* Every call under way meets a clear.
ClearCache(t) ==
    /\ Begin(t)
    /\ cache' = [k \in Keys |-> None]
    /\ Goto(t, [pc |-> "clear_heap"])
    /\ raced' = IF \E u \in Tasks \ {t} : task[u].pc # "idle" THEN Keys ELSE raced
    /\ UNCHANGED <<policy, heap, size, now, lost, crowded>>

ClearHeap(t) ==
    /\ task[t].pc = "clear_heap"
    /\ heap' = {}
    /\ Goto(t, [pc |-> "clear_size"])
    /\ UNCHANGED <<policy, cache, size, now, calls, raced, lost, crowded>>

ClearSize(t) ==
    /\ task[t].pc = "clear_size"
    /\ size' = 0
    /\ Goto(t, Idle)
    /\ UNCHANGED <<policy, cache, heap, now, calls, raced, lost, crowded>>

Tick ==
    /\ now < MaxTime /\ now' = now + 1
    /\ UNCHANGED <<policy, cache, heap, size, task, calls, raced, lost, crowded>>

-----------------------------------------------------------------------------
Call(t) ==
    \/ \E k \in Keys :
          \/ \E s \in Sizes, ttl \in Ttls \cup {None} : BeginSet(t, k, s, ttl)
          \/ BeginRemove(t, k) \/ BeginGet(t, k) \/ Persist(t, k)
          \/ \E ttl \in Ttls : Expire(t, k, ttl)
    \/ \E percent \in {50, 100} : BeginEvict(t, percent)
    \/ ClearCache(t)

Continue(t) ==
    \/ EnsureSpace(t) \/ Subtract(t) \/ Insert(t) \/ Add(t)
    \/ Order(t) \/ Evict(t) \/ EvictSub(t) \/ EvictHeap(t)
    \/ Remove(t) \/ RemoveSub(t) \/ RemoveHeap(t)
    \/ ExpireOne(t) \/ ExpireSub(t) \/ Look(t)
    \/ ClearHeap(t) \/ ClearSize(t)

Next == Tick \/ \E t \in Tasks : Call(t) \/ Continue(t)

Spec == Init /\ [][Next]_vars

-----------------------------------------------------------------------------
(* Properties *)

\* The type of every variable.
TypeOK ==
    /\ policy \in Policies /\ size \in 0..Word-1 /\ now \in 0..MaxTime
    /\ DOMAIN cache = Keys
    /\ \A k \in Held : cache[k].size \in Sizes /\ cache[k].used \in 0..now /\ cache[k].hits \in Nat
    /\ \A e \in heap : e.key \in Keys /\ e.at \in Nat
    /\ DOMAIN task = Tasks /\ calls \in 0..MaxCalls
    /\ raced \subseteq Keys /\ lost \subseteq Keys /\ crowded \in BOOLEAN

AtRest == \A t \in Tasks : task[t].pc = "idle"

\* Once no call is under way the counter of bytes is the sum of the cached sizes,
\* after any number of overwrites, evictions, expiries and removals, unless two calls
\* met on one key or a call met a clear (cache_layer.rs:94-130, 202-272).
SizeExact == (AtRest /\ raced = {}) => size = Bytes

\* Once no call is under way the cache is within its limit, or holds a single value
\* that is larger than the limit, unless two calls met on one key, a call met a
\* clear, or two sets passed the check together, also one behind evict_percentage
\* (cache_layer.rs:94-130 and 213-272).
WithinLimit ==
    (AtRest /\ raced = {} /\ ~crowded) => Bytes <= MaxSize \/ Cardinality(Held) = 1

\* A value with a time to live is in the heap with that time, so that it goes when
\* it is due even if nobody asks for it, unless calls met on its key or a set
\* evicted the former value of its own key (cache_layer.rs:94-101, 256-268).
Tracked ==
    \A k \in Held \ (raced \cup lost) :
       (cache[k].expires # None /\ AtRest) => [key |-> k, at |-> cache[k].expires] \in heap
=============================================================================
