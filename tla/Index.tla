-------------------------------- MODULE Index --------------------------------
(***************************************************************************)
(* The indexes of one collection: IndexManager, its BTreeIndex objects and *)
(* the IndexBuilder.  A task that inserts, updates or removes a document   *)
(* visits the indexes one after the other; each visit is atomic, because   *)
(* it holds the lock of that index's tree, and other tasks run between two *)
(* visits.  The lock on the map of indexes is held for the whole visit,    *)
(* and is taken a second time by a rollback.                               *)
(*                                                                         *)
(* The caller, which keeps the documents, is external: it stores a         *)
(* document after its indexing succeeded, and hands the builder a copy of  *)
(* what it stores.                                                         *)
(***************************************************************************)
EXTENDS Integers, Sequences, FiniteSets

CONSTANTS
    Tasks,
    Ids,         \* document ids
    Fields,      \* names of fields
    Contents,    \* contents a document may have: functions from Fields to values
    Names,       \* names of indexes
    Def,         \* per name: [fields, unique, sparse]
    MaxObjects,  \* bound: index objects made in a behaviour
    MaxCalls,    \* bound: calls of the manager in a behaviour
    None

ASSUME IndexAssumption ==
    /\ \A nm \in Names : /\ Def[nm].fields \in Seq(Fields)
                         /\ {Def[nm].unique, Def[nm].sparse} \subseteq BOOLEAN
    /\ None \notin Contents /\ None \notin Tasks

VARIABLES
    objs,     \* BTreeIndex objects ever made: [name, tree, entries]
    indexes,  \* IndexManager.indexes: the object registered under a name, 0 if none
    stats,    \* IndexStatistics: [listed, total]
    task,     \* per task: the call under way
    waiting,  \* tasks waiting for indexes.write()
    builder,  \* the task that holds the builder's mutex, or None
    docs,     \* the caller's documents
    calls,    \* number of calls so far
    drifted   \* history: <<object, id>> pairs that an unsafe call has touched

vars == <<objs, indexes, stats, task, waiting, builder, docs, calls, drifted>>

-----------------------------------------------------------------------------
(* Keys *)

\* A value is [kind, n].  A float and a date have a finer unit, 1/2.
Kinds == {"absent", "null", "bool", "int32", "int64", "float", "string", "datetime", "array"}

Absent == [kind |-> "absent", n |-> 0]
Null == [kind |-> "null", n |-> 0]

\* The variants of IndexValue in the order their derived Ord gives them.
Rank == [k \in Kinds \ {"absent", "array"} |->
            CASE k = "null" -> 0 [] k = "bool" -> 1 [] k \in {"int32", "int64"} -> 2
              [] k = "float" -> 3 [] k = "string" -> 4 [] k = "datetime" -> 5]

\* IndexValue::from_value keeps whole seconds of a date.
from_value(v) == <<Rank[v.kind], IF v.kind = "datetime" THEN v.n \div 2 ELSE v.n>>

unsupported(v) == v.kind = "array"

\* create_index_entry: a field that is absent is indexed as null.
create_index_entry(doc, fields) ==
    [i \in DOMAIN fields |-> IF doc[fields[i]] = Absent THEN Null ELSE doc[fields[i]]]

\* IndexKey::from_entry fails on an array.
Indexable(doc, fields) ==
    \A i \in DOMAIN fields : ~unsupported(create_index_entry(doc, fields)[i])

from_entry(doc, fields) ==
    [i \in DOMAIN fields |-> from_value(create_index_entry(doc, fields)[i])]

has_null(key) == \E i \in DOMAIN key : key[i][1] = 0

-----------------------------------------------------------------------------
(* BTreeIndex *)

EmptyTree == [k \in {} |-> <<>>]

NewIndex(nm) == [name |-> nm, tree |-> EmptyTree, entries |-> 0]

Listed(tree, key) == IF key \in DOMAIN tree THEN tree[key] ELSE <<>>

Elems(s) == {s[i] : i \in DOMAIN s}

Put(tree, key, list) ==
    [k \in DOMAIN tree \cup {key} |-> IF k = key THEN list ELSE tree[k]]

Skipped(o, doc) ==
    /\ Def[o.name].sparse
    /\ has_null(from_entry(doc, Def[o.name].fields))

\* The value is not supported, or a unique key is another document's.
InsertFails(o, id, doc) ==
    \/ ~Indexable(doc, Def[o.name].fields)
    \/ /\ ~Skipped(o, doc) /\ Def[o.name].unique
       /\ LET there == Elems(Listed(o.tree, from_entry(doc, Def[o.name].fields)))
          IN there # {} /\ id \notin there

insert(o, id, doc) ==
    LET key == from_entry(doc, Def[o.name].fields)
        list == IF Def[o.name].unique THEN <<id>> ELSE Append(Listed(o.tree, key), id)
    IN IF Skipped(o, doc) THEN o
       ELSE [o EXCEPT !.tree = Put(o.tree, key, list), !.entries = o.entries + 1]

\* The first position of the id is removed, and an empty list with its key.
remove(o, id, doc) ==
    LET key == from_entry(doc, Def[o.name].fields)
        list == Listed(o.tree, key)
        pos == CHOOSE i \in DOMAIN list : list[i] = id /\ \A j \in 1..(i - 1) : list[j] # id
        rest == [i \in 1..(Len(list) - 1) |-> IF i < pos THEN list[i] ELSE list[i + 1]]
    IN IF Skipped(o, doc) \/ id \notin Elems(list) THEN o
       ELSE [o EXCEPT !.entries = o.entries - 1,
                      !.tree = IF rest = <<>> THEN [k \in DOMAIN o.tree \ {key} |-> o.tree[k]]
                               ELSE Put(o.tree, key, rest)]

clear(o) == [o EXCEPT !.tree = EmptyTree, !.entries = 0]

\* The positions at which an index lists a document.
Places(o, id) == {<<k, i>> \in {<<k, i>> : k \in DOMAIN o.tree, i \in 1..(2 * MaxCalls)} :
                     i \in DOMAIN o.tree[k] /\ o.tree[k][i] = id}

-----------------------------------------------------------------------------
(* The lock on the map of indexes, and calls *)

Idle == [pc |-> "idle"]

\* Mutant: an update keeps the lock between its two halves.
ReadingBetween == {"insert", "remove", "between", "rollback_lock", "rollback", "clear_all"}

\* Program counters at which a task holds indexes.read().
Reading == {"insert", "remove", "rollback_lock", "rollback", "clear_all"}

\* A reader waits for the writers that came first, also when it already holds the lock.
CanRead == waiting = {}
CanWrite == \A t \in Tasks : task[t].pc \notin Reading

\* The map yields the registered indexes in some order.
Orders ==
    LET S == {indexes[nm] : nm \in Names} \ {0}
    IN {s \in [1..Cardinality(S) -> S] : Elems(s) = S}

Begin(t) ==
    /\ task[t].pc = "idle" /\ calls < MaxCalls
    /\ calls' = calls + 1

Goto(t, state) == task' = [task EXCEPT ![t] = state]

Busy(id) == \E t \in Tasks : task[t].pc # "idle" /\ "id" \in DOMAIN task[t] /\ task[t].id = id

Pairs(id) == {<<o, id>> : o \in DOMAIN objs}

\* Two calls on one document overlap: the code has no lock that keeps them apart.
Overlap(id) == IF Busy(id) THEN Pairs(id) ELSE {}

Init ==
    /\ objs = <<>>
    /\ indexes = [nm \in Names |-> 0]
    /\ stats = [listed |-> {}, total |-> 0]
    /\ task = [t \in Tasks |-> Idle]
    /\ waiting = {} /\ builder = None
    /\ docs = [id \in Ids |-> None]
    /\ calls = 0 /\ drifted = {}

-----------------------------------------------------------------------------
(* create_index and drop_index *)

WantWrite(t, op, nm) ==
    /\ Begin(t)
    /\ op = "create" => Len(objs) + Cardinality({u \in Tasks : task[u].pc = "create"}) < MaxObjects
    /\ Goto(t, [pc |-> op, name |-> nm])
    /\ waiting' = waiting \cup {t}
    /\ UNCHANGED <<objs, indexes, stats, builder, docs, drifted>>

\* A name that is taken is registered again, with an empty index.
CreateIndex(t) ==
    /\ task[t].pc = "create" /\ CanWrite
    /\ objs' = Append(objs, NewIndex(task[t].name))
    /\ indexes' = [indexes EXCEPT ![task[t].name] = Len(objs) + 1]
    /\ waiting' = waiting \ {t}
    /\ Goto(t, [task[t] EXCEPT !.pc = "count_created"])
    /\ drifted' = drifted \cup {<<Len(objs) + 1, id>> :
                                   id \in {d \in Ids : docs[d] # None \/ Busy(d)}}
    /\ UNCHANGED <<stats, builder, docs, calls>>

CountCreated(t) ==
    /\ task[t].pc = "count_created"
    /\ stats' = [listed |-> stats.listed \cup {task[t].name}, total |-> stats.total + 1]
    /\ Goto(t, Idle)
    /\ UNCHANGED <<objs, indexes, waiting, builder, docs, calls, drifted>>

DropIndex(t) ==
    /\ task[t].pc = "drop" /\ CanWrite
    /\ indexes' = [indexes EXCEPT ![task[t].name] = 0]
    /\ waiting' = waiting \ {t}
    /\ Goto(t, IF indexes[task[t].name] # 0 THEN [task[t] EXCEPT !.pc = "count_dropped"]
               ELSE Idle)
    /\ UNCHANGED <<objs, stats, builder, docs, calls, drifted>>

CountDropped(t) ==
    /\ task[t].pc = "count_dropped"
    /\ stats' = IF task[t].name \in stats.listed
                THEN [listed |-> stats.listed \ {task[t].name}, total |-> stats.total - 1]
                ELSE stats
    /\ Goto(t, Idle)
    /\ UNCHANGED <<objs, indexes, waiting, builder, docs, calls, drifted>>

-----------------------------------------------------------------------------
(* insert_document, update_document and remove_document *)

BeginInsert(t, id, doc) ==
    /\ Begin(t) /\ CanRead
    /\ docs[id] = None
    /\ \E order \in Orders :
          Goto(t, [pc |-> "insert", id |-> id, doc |-> doc, was |-> None,
                   todo |-> order, done |-> <<>>])
    /\ drifted' = drifted \cup Overlap(id)
    /\ UNCHANGED <<objs, indexes, stats, waiting, builder, docs>>

\* "new" is None for a removal.
BeginRemove(t, id, new) ==
    /\ Begin(t) /\ CanRead
    /\ docs[id] # None
    /\ \E order \in Orders :
          Goto(t, [pc |-> "remove", id |-> id, doc |-> new, was |-> docs[id],
                   todo |-> order, done |-> <<>>])
    /\ drifted' = drifted \cup Overlap(id)
    /\ UNCHANGED <<objs, indexes, stats, waiting, builder, docs>>

Visit(t) == objs[Head(task[t].todo)]

\* Mutant: does not remember what a rollback has to undo.
NextVisitUnlogged(t) == [task[t] EXCEPT !.todo = Tail(@)]

NextVisit(t) == [task[t] EXCEPT !.todo = Tail(@), !.done = Append(@, Head(task[t].todo))]

InsertOne(t) ==
    /\ task[t].pc = "insert" /\ task[t].todo # <<>>
    /\ IF InsertFails(Visit(t), task[t].id, task[t].doc)
       THEN objs' = objs /\ Goto(t, [task[t] EXCEPT !.pc = "rollback_lock"])
       ELSE /\ objs' = [objs EXCEPT ![Head(task[t].todo)] = insert(@, task[t].id, task[t].doc)]
            /\ Goto(t, NextVisit(t))
    /\ UNCHANGED <<indexes, stats, waiting, builder, docs, calls, drifted>>

\* The lock is released; the caller stores the document.
InsertDone(t) ==
    /\ task[t].pc = "insert" /\ task[t].todo = <<>>
    /\ docs' = [docs EXCEPT ![task[t].id] = task[t].doc]
    /\ Goto(t, Idle)
    /\ UNCHANGED <<objs, indexes, stats, waiting, builder, calls, drifted>>

\* rollback_insertions takes the lock the task already holds once more.
RollbackLock(t) ==
    /\ task[t].pc = "rollback_lock" /\ CanRead
    /\ Goto(t, [task[t] EXCEPT !.pc = "rollback"])
    /\ UNCHANGED <<objs, indexes, stats, waiting, builder, docs, calls, drifted>>

RollbackOne(t) ==
    /\ task[t].pc = "rollback" /\ task[t].done # <<>>
    /\ objs' = [objs EXCEPT ![Head(task[t].done)] = remove(@, task[t].id, task[t].doc)]
    /\ Goto(t, [task[t] EXCEPT !.done = Tail(@)])
    /\ UNCHANGED <<indexes, stats, waiting, builder, docs, calls, drifted>>

\* A failed update leaves the caller with the old document, which no index lists.
RollbackDone(t) ==
    /\ task[t].pc = "rollback" /\ task[t].done = <<>>
    /\ drifted' = drifted \cup IF task[t].was = None THEN {} ELSE Pairs(task[t].id)
    /\ Goto(t, Idle)
    /\ UNCHANGED <<objs, indexes, stats, waiting, builder, docs, calls>>

\* An index that cannot form the key ends the call: the others keep their entries.
RemoveOne(t) ==
    /\ task[t].pc = "remove" /\ task[t].todo # <<>>
    /\ IF ~Indexable(task[t].was, Def[Visit(t).name].fields)
       THEN /\ Goto(t, Idle) /\ drifted' = drifted \cup Pairs(task[t].id)
            /\ objs' = objs
       ELSE /\ objs' = [objs EXCEPT ![Head(task[t].todo)] = remove(@, task[t].id, task[t].was)]
            /\ Goto(t, NextVisit(t)) /\ drifted' = drifted
    /\ UNCHANGED <<indexes, stats, waiting, builder, docs, calls>>

\* A removal is over; an update gives up the lock before it inserts.
RemoveDone(t) ==
    /\ task[t].pc = "remove" /\ task[t].todo = <<>>
    /\ IF task[t].doc = None
       THEN docs' = [docs EXCEPT ![task[t].id] = None] /\ Goto(t, Idle)
       ELSE docs' = docs /\ Goto(t, [task[t] EXCEPT !.pc = "between"])
    /\ UNCHANGED <<objs, indexes, stats, waiting, builder, calls, drifted>>

UpdateInserts(t) ==
    /\ task[t].pc = "between" /\ CanRead
    /\ \E order \in Orders :
          Goto(t, [task[t] EXCEPT !.pc = "insert", !.todo = order, !.done = <<>>])
    /\ UNCHANGED <<objs, indexes, stats, waiting, builder, docs, calls, drifted>>

-----------------------------------------------------------------------------
(* build_index_background, optimize_indexes and clear_all_indexes *)

\* The caller copies its documents; the manager looks the index up.
BeginBuild(t, nm) ==
    /\ Begin(t) /\ CanRead /\ indexes[nm] # 0
    /\ Goto(t, [pc |-> "build_lock", obj |-> indexes[nm], copy |-> docs])
    /\ UNCHANGED <<objs, indexes, stats, waiting, builder, docs, drifted>>

BuildLock(t) ==
    /\ task[t].pc = "build_lock" /\ builder = None
    /\ builder' = t
    /\ Goto(t, [task[t] EXCEPT !.pc = "build"])
    /\ UNCHANGED <<objs, indexes, stats, waiting, docs, calls, drifted>>

\* A document that is indexed already, or is not what the copy says, drifts;
\* one that was missing is from now on exact.
BuildOne(t) ==
    LET o == task[t].obj IN
    /\ task[t].pc = "build"
    /\ \E id \in Ids :
          LET doc == task[t].copy[id]
              exact == docs[id] = doc /\ ~Busy(id) /\ Places(objs[o], id) = {}
          IN /\ doc # None
             /\ IF InsertFails(objs[o], id, doc)
                THEN /\ objs' = objs /\ builder' = None /\ Goto(t, Idle)
                     /\ drifted' = drifted \cup {<<o, id>>}
                ELSE /\ objs' = [objs EXCEPT ![o] = insert(@, id, doc)]
                     /\ builder' = builder
                     /\ Goto(t, [task[t] EXCEPT !.copy[id] = None])
                     /\ drifted' = IF exact THEN drifted \ {<<o, id>>}
                                   ELSE drifted \cup {<<o, id>>}
    /\ UNCHANGED <<indexes, stats, waiting, docs, calls>>

BuildDone(t) ==
    /\ task[t].pc = "build" /\ \A id \in Ids : task[t].copy[id] = None
    /\ builder' = None /\ Goto(t, Idle)
    /\ UNCHANGED <<objs, indexes, stats, waiting, docs, calls, drifted>>

\* The indexes are emptied one after the other and never filled again.
BeginOptimize(t) ==
    /\ Begin(t) /\ CanRead
    /\ Goto(t, [pc |-> "optimize", names |-> {nm \in Names : indexes[nm] # 0}])
    /\ UNCHANGED <<objs, indexes, stats, waiting, builder, docs, drifted>>

Emptied(o) ==
    /\ objs' = [objs EXCEPT ![o] = clear(@)]
    /\ drifted' = drifted \cup {<<o, id>> : id \in {d \in Ids : docs[d] # None \/ Busy(d)}}

OptimizeOne(t) ==
    /\ task[t].pc = "optimize" /\ CanRead
    /\ \E nm \in task[t].names :
          /\ IF indexes[nm] # 0 THEN Emptied(indexes[nm]) ELSE UNCHANGED <<objs, drifted>>
          /\ Goto(t, [task[t] EXCEPT !.names = @ \ {nm}])
    /\ UNCHANGED <<indexes, stats, waiting, builder, docs, calls>>

OptimizeDone(t) ==
    /\ task[t].pc = "optimize" /\ task[t].names = {}
    /\ Goto(t, Idle)
    /\ UNCHANGED <<objs, indexes, stats, waiting, builder, docs, calls, drifted>>

BeginClear(t) ==
    /\ Begin(t) /\ CanRead
    /\ \E order \in Orders : Goto(t, [pc |-> "clear_all", todo |-> order])
    /\ UNCHANGED <<objs, indexes, stats, waiting, builder, docs, drifted>>

ClearOne(t) ==
    /\ task[t].pc = "clear_all" /\ task[t].todo # <<>>
    /\ Emptied(Head(task[t].todo))
    /\ Goto(t, [task[t] EXCEPT !.todo = Tail(@)])
    /\ UNCHANGED <<indexes, stats, waiting, builder, docs, calls>>

\* The statistics start again, though the indexes stay registered.
ClearDone(t) ==
    /\ task[t].pc = "clear_all" /\ task[t].todo = <<>>
    /\ stats' = [listed |-> {}, total |-> 0]
    /\ Goto(t, Idle)
    /\ UNCHANGED <<objs, indexes, waiting, builder, docs, calls, drifted>>

-----------------------------------------------------------------------------
Call(t) ==
    \/ \E nm \in Names : WantWrite(t, "create", nm) \/ WantWrite(t, "drop", nm)
                         \/ BeginBuild(t, nm)
    \/ \E id \in Ids, doc \in Contents : BeginInsert(t, id, doc) \/ BeginRemove(t, id, doc)
    \/ \E id \in Ids : BeginRemove(t, id, None)
    \/ BeginOptimize(t)
    \/ BeginClear(t)

Continue(t) ==
    \/ CreateIndex(t) \/ CountCreated(t) \/ DropIndex(t) \/ CountDropped(t)
    \/ InsertOne(t) \/ InsertDone(t)
    \/ RollbackLock(t) \/ RollbackOne(t) \/ RollbackDone(t)
    \/ RemoveOne(t) \/ RemoveDone(t) \/ UpdateInserts(t)
    \/ BuildLock(t) \/ BuildOne(t) \/ BuildDone(t)
    \/ OptimizeOne(t) \/ OptimizeDone(t)
    \/ ClearOne(t) \/ ClearDone(t)

Next == \E t \in Tasks : Call(t) \/ Continue(t)

Spec == Init /\ [][Next]_vars

-----------------------------------------------------------------------------
(* Properties *)

\* The type of every variable.
TypeOK ==
    /\ \A o \in DOMAIN objs : objs[o].name \in Names /\ objs[o].entries \in Nat
    /\ indexes \in [Names -> 0..Len(objs)]
    /\ stats \in [listed : SUBSET Names, total : Nat]
    /\ DOMAIN task = Tasks /\ waiting \subseteq Tasks /\ builder \in Tasks \cup {None}
    /\ docs \in [Ids -> Contents \cup {None}]
    /\ calls \in 0..MaxCalls /\ drifted \subseteq (DOMAIN objs) \X Ids

\* A registered index lists a stored document once, under the key of its present
\* contents, and lists no document that is gone, whatever failed half-way and was
\* rolled back, unless one of the named unsafe calls touched the pair: an
\* overlapping call on the document, a failed update or removal, a build from an
\* outdated copy or of a document indexed meanwhile, optimize_indexes or
\* clear_all_indexes (manager.rs:107-165).
IndexExact ==
    \A nm \in Names, id \in Ids :
       (indexes[nm] # 0 /\ ~Busy(id) /\ <<indexes[nm], id>> \notin drifted) =>
          LET o == objs[indexes[nm]]
              places == Places(o, id)
          IN IF docs[id] = None \/ Skipped(o, docs[id]) THEN places = {}
             ELSE /\ Cardinality(places) = 1
                  /\ \A p \in places : p[1] = from_entry(docs[id], Def[nm].fields)

Blocked(t) ==
    \/ task[t].pc \in {"create", "drop"} /\ ~CanWrite
    \/ task[t].pc \in {"rollback_lock", "between", "optimize"} /\ ~CanRead
    \/ task[t].pc = "build_lock" /\ builder # None

\* Calls wait on one another for ever only in a rollback, which asks for a read
\* lock its task already holds while a writer waits for that lock (manager.rs:116
\* and 272).
StuckOnlyInRollback ==
    (\A t \in Tasks : task[t].pc = "idle" \/ Blocked(t)) =>
       \/ \A t \in Tasks : task[t].pc = "idle"
       \/ \E t \in Tasks : task[t].pc = "rollback_lock"
=============================================================================
