------------------------------ MODULE MCQuery ------------------------------
(* One unique index on "a", which holds integers, and one sparse index on  *)
(* "b", which holds strings; some documents do not keep to these types.    *)
EXTENDS Query

I32(n) == [kind |-> "int32", n |-> n]
I64(n) == [kind |-> "int64", n |-> n]
Str(n) == [kind |-> "string", n |-> n]

MCContents == {[a |-> I32(1), b |-> Str(1)],
               [a |-> I32(2), b |-> Absent],
               [a |-> I64(1), b |-> Str(2)],
               [a |-> I32(2), b |-> [kind |-> "array", n |-> 0]]}

MCDef == [i |-> [fields |-> <<"a">>, unique |-> TRUE, sparse |-> FALSE],
          j |-> [fields |-> <<"b">>, unique |-> FALSE, sparse |-> TRUE]]

MCFieldOrder == <<"a", "b">>
MCFieldKind == [a |-> "int32", b |-> "string"]

\* An entry of a filter: one condition on a field, or a logical operator.
On(f, op, arg) == [key |-> f, ops |-> <<[op |-> op, arg |-> arg]>>]
Both(f, op1, arg1, op2, arg2) ==
    [key |-> f, ops |-> <<[op |-> op1, arg |-> arg1], [op |-> op2, arg |-> arg2]>>]
Logic(op, subs) == [key |-> op, subs |-> subs]

MCFilters ==
    {<<On("a", op, I64(1))>> : op \in {"=", "$ne", "$gt", "$gte", "$lt", "$lte"}}
    \cup {<<On("b", op, Str(1))>> : op \in {"$eq", "$ne", "$gt", "$gte", "$lt", "$lte"}}
    \cup {<<>>,
          <<On("b", "$in", {Str(1), Str(2)})>>,
          <<On("a", "$nin", {I32(1)})>>,
          <<On("b", "$exists", TRUE)>>,
          <<On("a", "$gte", I32(1)), On("b", "$eq", Str(1))>>,
          <<Both("a", "$gt", I32(0), "$lt", I32(2))>>,
          <<Logic("$and", << <<On("b", "$gt", Str(1))>>, <<On("a", "$lte", I32(2))>> >>)>>,
          <<Logic("$or", << <<On("a", "=", I32(2))>>, <<On("b", "=", Str(1))>> >>)>>,
          <<Logic("$not", << <<On("b", "$exists", TRUE)>> >>)>>,
          <<Logic("$nor", << <<>> >>)>>,
          <<Logic("$or", << <<On("a", "=", I32(2))>> >>), On("b", "=", Str(1))>>,
          <<On("b", "$regex", [valid |-> TRUE, n |-> 1])>>,
          <<On("b", "$regex", [valid |-> FALSE, n |-> 1])>>,
          <<Both("b", "$options", "i", "$regex", [valid |-> TRUE, n |-> 1])>>}

NoFields == [f \in {} |-> TRUE]

MCRequests ==
    {[filter |-> f, projection |-> NoFields, sort |-> NoFields, skip |-> None, limit |-> None] :
        f \in MCFilters}
    \cup [filter : {<<>>}, projection : {[a |-> TRUE], [b |-> FALSE], [a |-> TRUE, b |-> FALSE]},
          sort : {[a |-> "desc"], [b |-> "asc"], [a |-> "asc", b |-> "desc"]},
          skip : {None, 1}, limit : {1, 3}]

Symmetry == Permutations(Tasks)
=============================================================================
