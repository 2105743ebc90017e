-------------------------------- MODULE Query --------------------------------
(***************************************************************************)
(* Queries over the documents of a collection: QueryParser, QueryExecutor, *)
(* and the aggregation pipeline, which has a filter language of its own.   *)
(*                                                                         *)
(* A request's filter is an object: a sequence of entries ordered by key,  *)
(* the order of serde_json's map, in which keys that begin with "$" come   *)
(* first.  An entry is [key, subs] for a logical operator and [key, ops]   *)
(* for a field, where ops is a sequence of [op, arg], again ordered, and a *)
(* plain value is the operator "=".  Paths into nested values, and a field *)
(* whose condition is an empty object, are left out.                       *)
(***************************************************************************)
EXTENDS Index, SequencesExt

CONSTANTS
    FieldOrder,  \* Fields as a sequence in the order of their names
    I32Max,      \* i32::MAX
    MaxSkip,     \* largest skip that validate accepts
    MaxLimit,    \* largest limit that validate accepts
    MaxGroups,   \* MAX_GROUP_SIZE
    MaxSorted,   \* MAX_SORT_DOCS
    MaxResults,  \* MAX_RESULT_DOCS
    FieldKind,   \* the type a well-kept collection gives to a field
    Filters,     \* filters to try
    Requests     \* queries to try: [filter, projection, sort, skip, limit]

ASSUME QueryAssumption == ToSet(FieldOrder) = Fields /\ {MaxGroups, MaxSorted, MaxResults} \subseteq Nat

-----------------------------------------------------------------------------
(* QueryParser *)

\* value_to_plain_json: types JSON does not know become null.
value_to_plain_json(v) ==
    CASE v.kind \in {"int32", "int64"} -> [kind |-> "int", n |-> v.n]
      [] v.kind = "datetime" -> Null
      [] OTHER -> v

json_to_value(j) ==
    IF j.kind # "int" THEN j
    ELSE [kind |-> IF j.n <= I32Max THEN "int32" ELSE "int64", n |-> j.n]

Received(v) == json_to_value(value_to_plain_json(v))

Bad == [op |-> "bad"]
Empty == [op |-> "empty"]

OpName == ("=" :> "eq") @@ ("$eq" :> "eq") @@ ("$ne" :> "ne") @@ ("$gt" :> "gt") @@ ("$gte" :> "gte")
          @@ ("$lt" :> "lt") @@ ("$lte" :> "lte") @@ ("$in" :> "in") @@ ("$nin" :> "nin")
          @@ ("$exists" :> "exists") @@ ("$regex" :> "regex")

Comparisons == {"eq", "ne", "gt", "gte", "lt", "lte"}

\* One condition stays as it is; several are combined by "and".
Conjoin(filters) ==
    IF \E i \in DOMAIN filters : filters[i] = Bad THEN Bad
    ELSE IF Len(filters) = 1 THEN filters[1]
    ELSE [op |-> "and", filters |-> filters]

\* "$options" is looked at as an operator too, and is not one.
parse_operator(f, c) ==
    IF c.op \notin DOMAIN OpName THEN Bad
    ELSE LET op == OpName[c.op]
         IN [op |-> op, field |-> f,
             arg |-> CASE op \in Comparisons -> Received(c.arg)
                       [] op \in {"in", "nin"} -> {Received(v) : v \in c.arg}
                       [] OTHER -> c.arg]

parse_field_condition(f, ops) == Conjoin([i \in DOMAIN ops |-> parse_operator(f, ops[i])])

\* The first logical operator of an object is all that is kept of the object.
RECURSIVE parse_filter(_)
parse_filter(obj) ==
    LET subs == [i \in DOMAIN obj[1].subs |-> parse_filter(obj[1].subs[i])]
        logical(op) == IF \E i \in DOMAIN subs : subs[i] = Bad THEN Bad
                       ELSE [op |-> op, filters |-> subs]
    IN IF obj = <<>> THEN Empty
       ELSE CASE obj[1].key = "$and" -> logical("and")
              [] obj[1].key = "$or" -> logical("or")
              [] obj[1].key = "$not" -> logical("not")
              [] obj[1].key = "$nor" -> Bad
              [] OTHER -> Conjoin([i \in DOMAIN obj |->
                             parse_field_condition(obj[i].key, obj[i].ops)])

\* The order of the sort fields in the request is not kept.
parse_sort(sort) ==
    LET fields == SelectSeq(FieldOrder, LAMBDA f : f \in DOMAIN sort)
    IN [i \in DOMAIN fields |-> <<fields[i], sort[fields[i]]>>]

\* A projection of the request maps fields to TRUE or FALSE.
parse_projection(proj) ==
    [f \in DOMAIN proj |-> IF proj[f] THEN "include" ELSE "exclude"]

parse_from_value(req) ==
    [filter |-> parse_filter(req.filter), sort |-> parse_sort(req.sort),
     projection |-> parse_projection(req.projection), skip |-> req.skip, limit |-> req.limit]

is_inclusion(projection) == \E f \in DOMAIN projection : projection[f] = "include"
is_exclusion(projection) == \E f \in DOMAIN projection : projection[f] = "exclude"

\* "_id" is not among the fields of a stored document.
validate(query) ==
    /\ query.skip = None \/ query.skip <= MaxSkip
    /\ query.limit = None \/ query.limit <= MaxLimit
    /\ ~(is_inclusion(query.projection) /\ is_exclusion(query.projection))

-----------------------------------------------------------------------------
(* QueryExecutor: what a filter matches *)

\* In halves, so that floats and integers share a scale.
Number(v) == IF v.kind = "float" THEN v.n ELSE 2 * v.n
Numeric == {"int32", "int64", "float"}
Sign(i) == IF i < 0 THEN -1 ELSE IF i > 0 THEN 1 ELSE 0

\* Values of different types are equal.
compare_values(a, b) ==
    CASE a.kind = "null" /\ b.kind = "null" -> 0
      [] a.kind = "null" /\ b.kind # "null" -> -1
      [] a.kind # "null" /\ b.kind = "null" -> 1
      [] a.kind \in Numeric /\ b.kind \in Numeric -> Sign(Number(a) - Number(b))
      [] a.kind = b.kind /\ a.kind \in {"bool", "string", "datetime"} -> Sign(a.n - b.n)
      [] OTHER -> 0

Get(doc, f) == IF f \in DOMAIN doc THEN doc[f] ELSE Absent

\* One condition on a field.  A pattern is [valid, n] and matches the string n.
matches_field(doc, f) ==
    LET v == Get(doc, f.field)
        cmp == compare_values(v, f.arg)
        yes(b) == IF b THEN "yes" ELSE "no"
    IN CASE f.op = "eq" -> yes(v = f.arg)
         [] f.op = "ne" -> yes(v # f.arg)
         [] f.op = "gt" -> yes(v # Absent /\ cmp = 1)
         [] f.op = "gte" -> yes(v # Absent /\ cmp \in {0, 1})
         [] f.op = "lt" -> yes(v # Absent /\ cmp = -1)
         [] f.op = "lte" -> yes(v # Absent /\ cmp \in {-1, 0})
         [] f.op = "in" -> yes(v \in f.arg)
         [] f.op = "nin" -> yes(v \notin f.arg)
         [] f.op = "exists" -> yes((v # Absent) = f.arg)
         [] f.op = "regex" -> IF v.kind # "string" THEN "no"
                              ELSE IF f.arg.valid THEN yes(v.n = f.arg.n) ELSE "error"

\* "yes", "no" or "error": the sub-filters are tried in order until one decides.
RECURSIVE matches_filter(_, _)
matches_filter(doc, f) ==
    LET sub(i) == matches_filter(doc, f.filters[i])
        decided(go) == LET S == {i \in DOMAIN f.filters : sub(i) # go}
                       IN IF S = {} THEN go
                          ELSE sub(CHOOSE i \in S : \A j \in S : i <= j)
    IN CASE f.op = "empty" -> "yes"
         [] f.op = "and" -> decided("yes")
         [] f.op = "or" -> decided("no")
         [] f.op = "not" -> IF sub(1) = "error" THEN "error"
                            ELSE IF sub(1) = "yes" THEN "no" ELSE "yes"
         [] OTHER -> matches_field(doc, f)

-----------------------------------------------------------------------------
(* Post-processing.  A document of an answer is [id, doc]. *)

\* The first field on which two documents differ decides.
compare_docs(a, b, sort) ==
    LET value(d, i) == Get(d.doc, sort[i][1])
        cmp(i) == CASE value(a, i) = Absent /\ value(b, i) = Absent -> 0
                    [] value(a, i) # Absent /\ value(b, i) = Absent -> 1
                    [] value(a, i) = Absent /\ value(b, i) # Absent -> -1
                    [] OTHER -> compare_values(value(a, i), value(b, i))
        apart == {i \in DOMAIN sort : cmp(i) # 0}
        first == CHOOSE i \in apart : \A j \in apart : i <= j
    IN IF apart = {} THEN 0
       ELSE IF sort[first][2] = "asc" THEN cmp(first) ELSE -cmp(first)

\* A stable sort puts a document behind those that precede it and its equals before it.
SortStably(s, cmp(_, _)) ==
    LET place(i) == 1 + Cardinality({j \in DOMAIN s :
                           cmp(s[j], s[i]) = -1 \/ (cmp(s[j], s[i]) = 0 /\ j < i)})
    IN [p \in DOMAIN s |-> s[CHOOSE i \in DOMAIN s : place(i) = p]]

apply_sort(s, sort) == SortStably(s, LAMBDA a, b : compare_docs(a, b, sort))

should_include(projection, f) ==
    IF is_inclusion(projection) THEN f \in DOMAIN projection /\ projection[f] = "include"
    ELSE ~(f \in DOMAIN projection /\ projection[f] = "exclude")

apply_projection(s, projection) ==
    [i \in DOMAIN s |->
       [id |-> s[i].id,
        doc |-> [f \in {g \in DOMAIN s[i].doc : should_include(projection, g)} |-> s[i].doc[f]]]]

skip_docs(s, skip) == IF skip = None THEN s ELSE SubSeq(s, skip + 1, Len(s))
take_docs(s, limit) == IF limit = None \/ limit >= Len(s) THEN s ELSE SubSeq(s, 1, limit)

\* Mutant: cuts the page before it sorts.
apply_post_processing_unsorted(s, query) ==
    apply_projection(apply_sort(take_docs(skip_docs(s, query.skip), query.limit), query.sort),
                     query.projection)

apply_post_processing(s, query) ==
    apply_projection(take_docs(skip_docs(apply_sort(s, query.sort), query.skip), query.limit),
                     query.projection)

-----------------------------------------------------------------------------
(* The execution: the planner is always made with an empty selector, so it plans a *)
(* collection scan.                                                              *)

\* A scan yields the documents in the order of their ids, which are numbers here.
Scan == LET S == {id \in Ids : docs[id] # None}
        IN [i \in 1..Cardinality(S) |->
              LET id == CHOOSE x \in S : Cardinality({y \in S : y <= x}) = i
              IN [id |-> id, doc |-> docs[id]]]

execute_collection_scan(filter) ==
    SelectSeq(Scan, LAMBDA d : matches_filter(d.doc, filter) = "yes")

ScanFails(filter) == \E id \in Ids : docs[id] # None /\ matches_filter(docs[id], filter) = "error"

execute(query) == apply_post_processing(execute_collection_scan(query.filter), query)

-----------------------------------------------------------------------------
(* The aggregation pipeline *)

json_to_doc_value(v) ==
    LET j == value_to_plain_json(v)
    IN IF j.kind = "int" THEN [kind |-> "int64", n |-> j.n] ELSE j

\* Mutant: does not compare strings.
compare_aggregated_numbers(a, b) ==
    IF a.kind = b.kind /\ a.kind \in Numeric THEN Sign(a.n - b.n) ELSE 0

\* Numbers of different types are equal here, and null equals everything.
compare_aggregated(a, b) ==
    CASE a = Absent /\ b = Absent -> 0
      [] a = Absent /\ b # Absent -> -1
      [] a # Absent /\ b = Absent -> 1
      [] a.kind = b.kind /\ a.kind \in Numeric \cup {"string", "bool"} -> Sign(a.n - b.n)
      [] OTHER -> 0

Aggregated == {"$eq", "$ne", "$gt", "$gte", "$lt", "$lte", "$in"}

\* The first operator that is known decides; without one the condition is an
\* object, which equals no value.
value_matches(v, ops) ==
    LET known == SelectSeq(ops, LAMBDA c : c.op \in Aggregated \cup {"="})
        c == known[1]
        arg == json_to_doc_value(c.arg)
        cmp == compare_aggregated(v, arg)
    IN /\ v # Absent /\ known # <<>>
       /\ CASE c.op \in {"=", "$eq"} -> v = arg
            [] c.op = "$ne" -> v # arg
            [] c.op = "$gt" -> cmp = 1
            [] c.op = "$gte" -> cmp \in {0, 1}
            [] c.op = "$lt" -> cmp = -1
            [] c.op = "$lte" -> cmp \in {-1, 0}
            [] c.op = "$in" -> v \in {json_to_doc_value(x) : x \in c.arg}

\* A logical operator is taken for the name of a field.
apply_match(s, obj) ==
    SelectSeq(s, LAMBDA doc :
       \A i \in DOMAIN obj : "ops" \in DOMAIN obj[i] /\ value_matches(Get(doc, obj[i].key), obj[i].ops))

\* A field is shown only if it is asked for; only "_id" is shown unless it is excluded.
apply_project(s, fields) ==
    LET wanted(g) == IF g \in DOMAIN fields THEN fields[g] ELSE g = "_id"
    IN IF DOMAIN fields = {} THEN s
       ELSE [i \in DOMAIN s |-> [f \in {g \in DOMAIN s[i] : wanted(g)} |-> s[i][f]]]

\* The fields of a sort stage are visited in any order; sort gives one.
compare_stage(a, b, sort) ==
    LET cmp(i) == compare_aggregated(Get(a, sort[i][1]), Get(b, sort[i][1]))
        apart == {i \in DOMAIN sort : cmp(i) # 0}
        first == CHOOSE i \in apart : \A j \in apart : i <= j
    IN IF apart = {} THEN 0
       ELSE IF sort[first][2] = "asc" THEN cmp(first) ELSE -cmp(first)

\* Documents beyond MaxSorted are dropped.
apply_sort_stage(s, sort) ==
    SortStably(take_docs(s, MaxSorted), LAMBDA a, b : compare_stage(a, b, sort))

to_number(v) == IF v.kind \in Numeric THEN Number(v) ELSE 0

\* AccumulatorState: op is [name, field].
new_accumulator(op) == [op |-> op, sum |-> 0, count |-> 0, min |-> None, max |-> None]

add(st, doc) ==
    LET v == Get(doc, st.op.field)
        n == to_number(v)
    IN CASE st.op.name = "count" -> [st EXCEPT !.count = @ + 1]
         [] st.op.name # "count" /\ v = Absent -> st
         [] st.op.name = "sum" /\ v # Absent -> [st EXCEPT !.sum = @ + n]
         [] st.op.name = "avg" /\ v # Absent -> [st EXCEPT !.sum = @ + n, !.count = @ + 1]
         [] st.op.name = "min" /\ v # Absent ->
               [st EXCEPT !.min = IF @ = None \/ n < @ THEN n ELSE @]
         [] st.op.name = "max" /\ v # Absent ->
               [st EXCEPT !.max = IF @ = None \/ n > @ THEN n ELSE @]

\* An average is the fraction n / over.
accumulated(st) ==
    CASE st.op.name = "sum" -> [kind |-> "float", n |-> st.sum]
      [] st.op.name = "count" -> [kind |-> "int64", n |-> st.count]
      [] st.op.name = "avg" -> [kind |-> "float", n |-> st.sum,
                                over |-> IF st.count > 0 THEN st.count ELSE 1]
      [] st.op.name = "min" -> [kind |-> "float", n |-> IF st.min = None THEN 0 ELSE st.min]
      [] st.op.name = "max" -> [kind |-> "float", n |-> IF st.max = None THEN 0 ELSE st.max]

\* A document without the field is grouped under the name of the field.
extract_group_key(doc, f) ==
    IF Get(doc, f) = Absent THEN [kind |-> "name", n |-> 0] ELSE doc[f]

\* Mutant: lets one group too many in.
group_refused_late(groups, key) == key \notin DOMAIN groups /\ Cardinality(DOMAIN groups) > MaxGroups

\* A new group is refused when there are MaxGroups already.
group_refused(groups, key) == key \notin DOMAIN groups /\ Cardinality(DOMAIN groups) >= MaxGroups

Error == None

\* ops gives the accumulator of each field of the result.
GroupOne(groups, doc, by, ops) ==
    LET key == extract_group_key(doc, by)
        acc == IF key \in DOMAIN groups THEN groups[key]
               ELSE [g \in DOMAIN ops |-> new_accumulator(ops[g])]
    IN IF groups = Error \/ group_refused(groups, key) THEN Error
       ELSE (key :> [g \in DOMAIN ops |-> add(acc[g], doc)]) @@ groups

to_document(key, acc) ==
    [g \in DOMAIN acc \cup {"_id"} |->
        IF g \in DOMAIN acc THEN accumulated(acc[g]) ELSE [kind |-> "string", n |-> key]]

\* The groups come out of a hash map, in any order.
apply_group(s, by, ops) ==
    LET groups == FoldLeft(LAMBDA g, doc : GroupOne(g, doc, by, ops), <<>>, s)
    IN IF groups = Error THEN Error
       ELSE SetToSeq({to_document(k, groups[k]) : k \in DOMAIN groups})

run_stage(s, stage) ==
    IF s = Error THEN Error
    ELSE CASE stage.name = "match" -> apply_match(s, stage.filter)
           [] stage.name = "project" -> apply_project(s, stage.fields)
           [] stage.name = "sort" -> apply_sort_stage(s, stage.fields)
           [] stage.name = "limit" -> take_docs(s, stage.count)
           [] stage.name = "skip" -> skip_docs(s, stage.count)
           [] stage.name = "group" -> apply_group(s, stage.by, stage.ops)

\* Results beyond MaxResults are dropped.
execute_pipeline(s, stages) ==
    LET result == FoldLeft(run_stage, s, stages)
    IN IF result = Error THEN Error ELSE take_docs(result, MaxResults)

\* The handler of Aggregate.
Aggregate(stages) == execute_pipeline([i \in DOMAIN Scan |-> Scan[i].doc], stages)

-----------------------------------------------------------------------------
(* Properties *)

AtRest == \A t \in Tasks : task[t].pc = "idle"

Stored == {id \in Ids : docs[id] # None}
IdsOf(s) == {s[i].id : i \in DOMAIN s}

\* Every stored document has one type per field, and its integers fit 32 bits.
WellTyped == \A id \in Stored, f \in Fields : docs[id][f].kind \in {"absent", FieldKind[f]}

Parsed == [obj \in Filters |-> parse_filter(obj)]

\* What a condition says: numbers are compared by value, absent fields satisfy only
\* negations.
Says(v, c) ==
    LET same(x) == v # Absent /\ (v = x \/ ({v.kind, x.kind} \subseteq Numeric /\ Number(v) = Number(x)))
    IN CASE c.op \in {"=", "$eq"} -> same(c.arg)
         [] c.op = "$ne" -> ~same(c.arg)
         [] c.op = "$gt" -> v # Absent /\ Number(v) > Number(c.arg)
         [] c.op = "$gte" -> v # Absent /\ Number(v) >= Number(c.arg)
         [] c.op = "$lt" -> v # Absent /\ Number(v) < Number(c.arg)
         [] c.op = "$lte" -> v # Absent /\ Number(v) <= Number(c.arg)
         [] c.op = "$in" -> \E x \in c.arg : same(x)
         [] c.op = "$nin" -> ~\E x \in c.arg : same(x)
         [] c.op = "$exists" -> (v # Absent) = c.arg
         [] c.op = "$regex" -> v.kind = "string" /\ v.n = c.arg.n

\* What a filter says: all of its entries.
RECURSIVE Means(_, _)
Means(obj, doc) ==
    \A i \in DOMAIN obj :
       CASE obj[i].key = "$and" -> \A j \in DOMAIN obj[i].subs : Means(obj[i].subs[j], doc)
         [] obj[i].key = "$or" -> \E j \in DOMAIN obj[i].subs : Means(obj[i].subs[j], doc)
         [] obj[i].key = "$not" -> ~Means(obj[i].subs[1], doc)
         [] OTHER -> \A j \in DOMAIN obj[i].ops : Says(doc[obj[i].key], obj[i].ops[j])

\* No logical operator has a neighbour in its object.
RECURSIVE Unmixed(_)
Unmixed(obj) ==
    \A i \in DOMAIN obj : "subs" \in DOMAIN obj[i] =>
       Len(obj) = 1 /\ \A j \in DOMAIN obj[i].subs : Unmixed(obj[i].subs[j])

SortKey(d, f) == IF Get(d.doc, f) = Absent THEN -1 ELSE Number(d.doc[f])

\* A valid query on a well-kept collection finds exactly the documents its filter
\* describes, each once, ordered by its first sort field; skip and limit cut a page
\* out of that order before the projection, and the page shows the fields the
\* projection names (parser.rs:67-193, executor.rs:213-441).
AnswersRight ==
    (AtRest /\ WellTyped) => \A req \in Requests :
       LET q == parse_from_value(req)
           all == execute([q EXCEPT !.skip = None, !.limit = None, !.projection = <<>>])
           page == execute(q)
           from == IF req.skip = None THEN 0 ELSE req.skip
           to == IF req.limit = None THEN Len(all) ELSE from + req.limit
           chosen == {f \in DOMAIN req.projection : req.projection[f]}
           shown == IF chosen # {} THEN chosen ELSE Fields \ DOMAIN req.projection
       IN (Unmixed(req.filter) /\ q.filter # Bad /\ validate(q) /\ ~ScanFails(q.filter)) =>
          /\ IdsOf(all) = {id \in Stored : Means(req.filter, docs[id])}
          /\ Len(all) = Cardinality(IdsOf(all))
          /\ q.sort # <<>> => \A i, j \in DOMAIN all : i < j =>
                LET x == SortKey(all[i], q.sort[1][1])
                    y == SortKey(all[j], q.sort[1][1])
                IN IF q.sort[1][2] = "asc" THEN x <= y ELSE x >= y
          /\ [i \in DOMAIN page |-> page[i].id] =
                LET cut == SubSeq(all, from + 1, IF to < Len(all) THEN to ELSE Len(all))
                IN [i \in DOMAIN cut |-> cut[i].id]
          /\ \A i \in DOMAIN page : DOMAIN page[i].doc = shown

DocsOf(s) == [i \in DOMAIN s |-> s[i].doc]

\* A filter with one condition per field, on strings, that every document has.
Common(obj) ==
    \A i \in DOMAIN obj :
       /\ "ops" \in DOMAIN obj[i] /\ FieldKind[obj[i].key] = "string"
       /\ Len(obj[i].ops) = 1 /\ obj[i].ops[1].op \in Aggregated \cup {"="}
       /\ \A id \in Stored : docs[id][obj[i].key].kind = "string"

\* A pipeline and a query that ask for the same: match, sort, skip and limit, for a
\* filter both languages know and a sort field of one type.
SameRequests ==
    LET typed == {f \in Fields : \A id \in Stored : docs[id][f].kind \in {"absent", FieldKind[f]}}
    IN {[stages |-> <<[name |-> "match", filter |-> obj], [name |-> "sort", fields |-> << <<f, dir>> >>],
                      [name |-> "skip", count |-> skip], [name |-> "limit", count |-> 2]>>,
         query |-> [filter |-> Parsed[obj], sort |-> << <<f, dir>> >>, projection |-> <<>>,
                    skip |-> skip, limit |-> 2]] :
           obj \in {o \in Filters : Common(o)}, f \in typed, dir \in {"asc", "desc"}, skip \in {0, 1}}

\* While the collection is within the pipeline's limits, a pipeline gives what the
\* query with the same parts gives, although each has a filter language, a comparison
\* and a treatment of absent fields of its own (aggregation.rs:84-197 and 243-314,
\* executor.rs:213-418).
PipelineAgrees ==
    (AtRest /\ Cardinality(Stored) <= MaxSorted /\ Cardinality(Stored) <= MaxResults) =>
       \A p \in SameRequests : Aggregate(p.stages) = DocsOf(execute(p.query))

SumOver(s, F(_)) == FoldLeft(LAMBDA x, d : x + F(d), 0, s)

\* A grouping gives every document to one group, also those without the field, and
\* is refused exactly when there are more groups than allowed; the counts and sums
\* of the groups add up, an average lies between the least and the greatest value,
\* and the fields that are projected are all that is shown
\* (aggregation.rs:136-165, 201-240 and 363-490).
GroupsPartition ==
    AtRest => \A by, f \in Fields :
       LET ops == [op \in {"count", "sum", "avg", "min", "max"} |-> [name |-> op, field |-> f]]
           s == DocsOf(Scan)
           g == apply_group(s, by, ops)
           few == Cardinality({docs[id][by] : id \in Stored}) <= MaxGroups
       IN /\ (g # Error) = few
          /\ few =>
               /\ SumOver(g, LAMBDA d : d["count"].n) = Len(s)
               /\ SumOver(g, LAMBDA d : d["sum"].n) = SumOver(s, LAMBDA d : to_number(d[f]))
               /\ \A i \in DOMAIN g :
                     /\ g[i]["min"].n * g[i]["avg"].over <= g[i]["avg"].n
                     /\ g[i]["avg"].n <= g[i]["max"].n * g[i]["avg"].over
               /\ LET shown == run_stage(g, [name |-> "project", fields |-> ("sum" :> TRUE)])
                  IN \A i \in DOMAIN shown : DOMAIN shown[i] = {"_id", "sum"}
=============================================================================
