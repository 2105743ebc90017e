------------------------------ MODULE KvTable ------------------------------
(***************************************************************************)
(* A shard of the key-value store: the open-addressing table of            *)
(* kv/hash_table.rs and the arena of arena.rs that holds keys and values.  *)
(* The shard's lock makes each operation one step.  Memory is counted in   *)
(* words of 8 bytes and has contents, so that a block which is freed and   *)
(* still referred to, or overlaps another, shows in what the table finds.  *)
(***************************************************************************)
EXTENDS Integers, Sequences, FiniteSets, FiniteSetsExt

CONSTANTS Keys,        \* numbers; a key is one word long
          HashRange,   \* number of different hashes
          Capacity,    \* slots of the table, a power of 2
          ValueSizes,  \* lengths of values
          Tags,        \* contents of a value
          Classes,     \* number of size classes: 13 in the code
          ArenaSize,   \* words of the arena; the word 0 stands for its header
          MaxOps       \* bound: operations that change something

ASSUME KvAssumption ==
  /\ Keys \subseteq Nat /\ HashRange \in Nat \ {0} /\ Capacity \in Nat \ {0}
  /\ ValueSizes \subseteq Nat /\ Classes \in Nat \ {0}
  /\ ArenaSize \in Nat \ {0} /\ MaxOps \in Nat /\ "nothing" \notin Tags

VARIABLES
  entries,     \* the slots: hash, version, lengths and offset
  size,        \* HashTable::size
  memory,      \* words of the arena
  current,     \* Arena::current, the bump pointer
  free_lists,  \* Arena::free_lists: per class the first free block, or 0
  hung,        \* a call probes for ever and keeps the shard's lock
  width,       \* history: per offset the words its block was given at first
  stored,      \* history: per key the value of the last call that succeeded
  dangling,    \* history: a value could not grow, and its block was freed before
  smashed,     \* history: a freed block is smaller than its class or a FreeNode
  ops

arenaVars == <<memory, current, free_lists, width, smashed>>
tableVars == <<entries, size>>
vars == <<tableVars, arenaVars, hung, stored, dangling, ops>>

Values == ValueSizes \X Tags
Length(v) == v[1]
Nothing == <<0, "nothing">>
KeyLen == 1
NodeSize == 2           \* size of a FreeNode

EMPTY_HASH == 0
TOMBSTONE_HASH == 1
NewEntry == [hash |-> EMPTY_HASH, version |-> 0, key_len |-> 0, val_len |-> 0, data_offset |-> 0]

Init ==
  /\ entries = [i \in 0..Capacity - 1 |-> NewEntry] /\ size = 0
  /\ memory = [o \in 0..ArenaSize - 1 |-> <<"blank">>]
  /\ current = 1 /\ free_lists = [c \in 1..Classes |-> 0] /\ hung = FALSE
  /\ width = [o \in 0..ArenaSize - 1 |-> 0]
  /\ stored = [k \in Keys |-> Nothing] /\ dangling = FALSE /\ smashed = FALSE
  /\ ops = 0

-----------------------------------------------------------------------------
(* The arena, as a record [memory, current, free_lists, width, smashed] that an
   operation hands from one of its calls to the next. *)

Arena == [memory |-> memory, current |-> current, free_lists |-> free_lists,
          width |-> width, smashed |-> smashed]

Becomes(A) ==
  /\ memory' = A.memory /\ current' = A.current /\ free_lists' = A.free_lists
  /\ width' = A.width /\ smashed' = A.smashed

size_for_class(c) == 2 ^ (c - 1)
HasClass(n) == n <= size_for_class(Classes)
size_class_for(n) == Min({c \in 1..Classes : n <= size_for_class(c)})

\* The FreeNode at the head says what comes next.
after_pop(A, head) == A.memory[head][2]

fits(n) == n <= ArenaSize

\* The next offset that is a multiple of align.
aligned(offset, align) == ((offset + align - 1) \div align) * align

\* The offset is 0 when there is no memory left.  A list whose head is not aligned
\* is passed over.  A size in words is never less than half of its class, below
\* which the code passes over the lists too.
allocate(A, n, align) ==
  LET c == size_class_for(n)
      head == A.free_lists[c]
      start == aligned(A.current, align)
  IN  IF HasClass(n) /\ head # 0 /\ head % align = 0
      THEN [offset |-> head, arena |-> [A EXCEPT !.free_lists[c] = after_pop(A, head)]]
      ELSE IF fits(start + n)
           THEN [offset |-> start,
                 arena |-> [A EXCEPT !.current = start + n, !.width[start] = n]]
           ELSE [offset |-> 0, arena |-> A]

\* A block goes to the list of its class, its first words become a FreeNode; one
\* without a class is not used again.
free(A, offset, n) ==
  LET c == size_class_for(n)
  IN  IF HasClass(n)
      THEN [A EXCEPT !.memory = [o \in DOMAIN @ |->
                        IF o = offset THEN <<"next", A.free_lists[c]>>
                        ELSE IF o = offset + 1 THEN <<"size", size_for_class(c)>> ELSE @[o]],
                     !.free_lists[c] = offset,
                     !.smashed = @ \/ A.width[offset] < Max({size_for_class(c), NodeSize})]
      ELSE A

\* Key and value are copied to a block.
copied(A, offset, k, v) ==
  [A EXCEPT !.memory = [o \in DOMAIN @ |->
     IF o = offset THEN <<"key", k>>
     ELSE IF o \in offset + 1 .. offset + Length(v) THEN <<"value", v, o - offset>> ELSE @[o]]]

-----------------------------------------------------------------------------
(* The table *)

hash_key(k) == TOMBSTONE_HASH + 1 + (k % HashRange)

probe(k, i) == (hash_key(k) + i) % Capacity

keys_equal(e, k) == e.key_len = KeyLen /\ memory[e.data_offset] = <<"key", k>>
IsMatch(e, k) == e.hash = hash_key(k) /\ keys_equal(e, k)

\* find_entry stops at an empty slot or at the key; otherwise it loops for ever.
Stops(k, i) == LET e == entries[probe(k, i)] IN e.hash = EMPTY_HASH \/ IsMatch(e, k)
Steps(k) == {i \in 0..Capacity - 1 : Stops(k, i)}
find_entry(k) == probe(k, Min(Steps(k)))
Found(k) == Steps(k) # {} /\ IsMatch(entries[find_entry(k)], k)

\* What get returns.
get_key_value(e) == [i \in 1..e.val_len |-> memory[e.data_offset + i]]

-----------------------------------------------------------------------------
(* Operations *)

\* What happens after blocks overlap is undefined, and not modelled.
Called == ~hung /\ ~smashed

Counted == ops < MaxOps /\ ops' = ops + 1

\* Any operation on a key for which probing never ends.
Hangs(k) ==
  /\ Called /\ Steps(k) = {}
  /\ hung' = TRUE
  /\ UNCHANGED <<tableVars, arenaVars, stored, dangling, ops>>

\* HashTable::insert of a key that is not there; without memory nothing changes.
InsertNew(k, v) ==
  LET i == find_entry(k)
      a == allocate(Arena, KeyLen + Length(v), 1)
  IN  /\ Called /\ Counted /\ Steps(k) # {} /\ ~Found(k)
      /\ a.offset # 0
      /\ Becomes(copied(a.arena, a.offset, k, v))
      /\ entries' = [entries EXCEPT ![i] = [hash |-> hash_key(k), version |-> 1, key_len |-> KeyLen,
                                           val_len |-> Length(v), data_offset |-> a.offset]]
      /\ size' = size + 1
      /\ stored' = [stored EXCEPT ![k] = v]
      /\ UNCHANGED <<hung, dangling>>

\* A value that does not fit into its block: the block is freed first.
Grown(e, n) ==
  IF n > e.key_len + e.val_len
  THEN allocate(free(Arena, e.data_offset, e.key_len + e.val_len), n, 1)
  ELSE [offset |-> e.data_offset, arena |-> Arena]

\* Without memory for the new block the entry keeps the one that was freed.
GrowFails(k, v) ==
  LET e == entries[find_entry(k)]
      g == Grown(e, KeyLen + Length(v))
  IN  /\ Called /\ Counted /\ Found(k)
      /\ g.offset = 0
      /\ Becomes(g.arena) /\ dangling' = TRUE
      /\ UNCHANGED <<tableVars, hung, stored>>

\* HashTable::insert of a key that is there: the version stays.
InsertOver(k, v) ==
  LET i == find_entry(k)
      g == Grown(entries[i], KeyLen + Length(v))
  IN  /\ Called /\ Counted /\ Found(k)
      /\ g.offset # 0
      /\ Becomes(copied(g.arena, g.offset, k, v))
      /\ entries' = [entries EXCEPT ![i].data_offset = g.offset, ![i].key_len = KeyLen,
                                    ![i].val_len = Length(v)]
      /\ stored' = [stored EXCEPT ![k] = v]
      /\ UNCHANGED <<size, hung, dangling>>

\* Mutated form: the slot becomes empty again.
mark_empty == EMPTY_HASH

mark_tombstone == TOMBSTONE_HASH

remove(k) ==
  LET i == find_entry(k)
      e == entries[i]
  IN  /\ Called /\ Counted /\ Found(k)
      /\ Becomes(free(Arena, e.data_offset, e.key_len + e.val_len))
      /\ entries' = [entries EXCEPT ![i] = [NewEntry EXCEPT !.hash = mark_tombstone,
                                                           !.version = e.version]]
      /\ size' = size - 1
      /\ stored' = [stored EXCEPT ![k] = Nothing]
      /\ UNCHANGED <<hung, dangling>>

next_version(version) == version + 1

\* A call that expects another version changes nothing; one without memory is
\* GrowFails.
cas(k, v) ==
  LET i == find_entry(k)
      expected_version == entries[i].version
      g == Grown(entries[i], KeyLen + Length(v))
  IN  /\ Called /\ Counted /\ Found(k)
      /\ g.offset # 0
      /\ Becomes(copied(g.arena, g.offset, k, v))
      /\ entries' = [entries EXCEPT ![i].data_offset = g.offset, ![i].val_len = Length(v),
                                    ![i].version = next_version(expected_version)]
      /\ stored' = [stored EXCEPT ![k] = v]
      /\ UNCHANGED <<size, hung, dangling>>

Next ==
  \E k \in Keys :
    \/ Hangs(k) \/ remove(k)
    \/ \E v \in Values : \/ InsertNew(k, v) \/ InsertOver(k, v) \/ GrowFails(k, v)
                         \/ cas(k, v)

Spec == Init /\ [][Next]_vars

-----------------------------------------------------------------------------
Block(i) == entries[i].data_offset .. entries[i].data_offset + entries[i].key_len + entries[i].val_len - 1

\* Every variable keeps its type, and unless a small block was freed none
\* reaches beyond the arena.
TypeOK ==
  /\ \A i \in DOMAIN entries : /\ entries[i].hash \in 0..HashRange + 1
                               /\ entries[i].version \in 0..MaxOps
                               /\ smashed \/ Block(i) \subseteq 0..ArenaSize - 1
  /\ size \in 0..Capacity /\ current \in 1..ArenaSize
  /\ free_lists \in [1..Classes -> 0..ArenaSize - 1]
  /\ hung \in BOOLEAN /\ dangling \in BOOLEAN /\ smashed \in BOOLEAN

SlotLeft == \E i \in DOMAIN entries : entries[i].hash = EMPTY_HASH

\* As long as no growth has failed and no small block was freed, get finds for
\* every key what the last call that succeeded left there, whatever was deleted
\* before it on its probe path and wherever its value moved.  For a key that is
\* not there it ends and finds nothing, as long as the table has an empty slot;
\* without one it never returns, which is not counted as an answer.
LookupAgrees ==
  ~dangling /\ ~smashed => \A k \in Keys :
    IF stored[k] = Nothing THEN /\ ~Found(k)
                                /\ SlotLeft => Steps(k) # {}
    ELSE /\ Found(k)
         /\ get_key_value(entries[find_entry(k)]) =
              [i \in 1..Length(stored[k]) |-> <<"value", stored[k], i>>]
=============================================================================
