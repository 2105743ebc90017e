------------------------------ MODULE MpmcRing ------------------------------
(***************************************************************************)
(* The multi-producer multi-consumer ring of ring/mpmc.rs.  Every call     *)
(* takes a ticket with fetch_add and never gives it back; the ticket names *)
(* a slot, and the slot's sequence number says whether it may be written   *)
(* or read.  The sequence a producer waits for is the slot's index, the    *)
(* one a consumer waits for is the index plus one, in every lap.           *)
(*                                                                         *)
(* A step is one access to shared memory.  The contents of a slot are      *)
(* copied without synchronisation, so a copy takes two steps, one for each *)
(* half, and two threads in one slot can tear it.                          *)
(***************************************************************************)
EXTENDS Integers, Sequences

CONSTANTS Capacity,    \* number of slots, a power of two
          Producers, Consumers,
          Data,        \* items; each is handed to push once
          Empty,       \* Slot::empty()
          MaxTicket    \* bound: tickets given out on either side

ASSUME CapacityAssumption == Capacity \in Nat \ {0}
ASSUME MaxTicketAssumption == MaxTicket \in Nat
ASSUME ThreadsAssumption == Producers \cap Consumers = {}  \* a thread that does both counts twice

VARIABLES
  head, tail,       \* the next ticket of either side
  sequence, slots,  \* per slot: its sequence number and the halves of its data
  pc, ticket, item, \* per thread: its call in progress
  blocking,         \* per thread: push or pop, not try_push or try_pop
  offered,          \* history: items handed to a producer
  accepted,         \* history: items whose push returned
  popped            \* history: what consumers returned, in order

ringVars == <<head, tail, sequence, slots>>
callVars == <<pc, ticket, item, blocking>>
vars == <<ringVars, callVars, offered, accepted, popped>>

Threads == Producers \cup Consumers
Indices == 0..Capacity - 1

\* index & mask; the slot a ticket names.
slot_at(t) == t % Capacity

initial_sequence(i) == i

Init ==
  /\ head = 0 /\ tail = 0
  /\ sequence = [i \in Indices |-> initial_sequence(i)]
  /\ slots = [i \in Indices |-> <<Empty, Empty>>]
  /\ pc = [t \in Threads |-> "idle"]
  /\ ticket = [t \in Threads |-> 0]
  /\ item = [t \in Threads |-> <<Empty, Empty>>]
  /\ blocking = [t \in Threads |-> FALSE]
  /\ offered = {} /\ accepted = {} /\ popped = << >>

\* The slot and the sequence number that a thread's call is about.
Slot(t) == slot_at(ticket[t])
SeqOf(t) == sequence[Slot(t)]

Goto(t, label) == pc' = [pc EXCEPT ![t] = label]

\* A failed try: push and pop take another ticket, try_push and try_pop return.
Retry(t) == Goto(t, IF blocking[t] THEN "claim" ELSE "idle")

-----------------------------------------------------------------------------
(* Producers: try_push, or push, which repeats it until it succeeds. *)

CallPush(p, d, b) ==
  /\ pc[p] = "idle"
  /\ d \notin offered
  /\ offered' = offered \cup {d}
  /\ item' = [item EXCEPT ![p] = <<d, d>>]
  /\ blocking' = [blocking EXCEPT ![p] = b]
  /\ Goto(p, "claim")
  /\ UNCHANGED <<ringVars, ticket, accepted, popped>>

PushClaim(p) ==
  /\ pc[p] = "claim"
  /\ head < MaxTicket
  /\ ticket' = [ticket EXCEPT ![p] = head]
  /\ head' = head + 1
  /\ Goto(p, "wait")
  /\ UNCHANGED <<tail, sequence, slots, item, blocking, offered, accepted, popped>>

\* The load that finds the slot free.  (The branch that spins while the
\* sequence is below the expected one is never taken: a sequence starts at
\* its index and only grows.)
PushEnter(p) ==
  /\ pc[p] = "wait"
  /\ SeqOf(p) = Slot(p)
  /\ Goto(p, "write1")
  /\ UNCHANGED <<ringVars, ticket, item, blocking, offered, accepted, popped>>

PushRefused(p) ==
  /\ pc[p] = "wait"
  /\ SeqOf(p) > Slot(p)
  /\ Retry(p)
  /\ UNCHANGED <<ringVars, ticket, item, blocking, offered, accepted, popped>>

PushWrite(p, half) ==
  /\ pc[p] = <<"write1", "write2">>[half]
  /\ slots' = [slots EXCEPT ![Slot(p)][half] = item[p][half]]
  /\ Goto(p, <<"write2", "publish">>[half])
  /\ UNCHANGED <<head, tail, sequence, ticket, item, blocking, offered, accepted, popped>>

PushPublish(p) ==
  /\ pc[p] = "publish"
  /\ sequence' = [sequence EXCEPT ![Slot(p)] = Slot(p) + 1]
  /\ accepted' = accepted \cup {item[p][1]}
  /\ Goto(p, "idle")
  /\ UNCHANGED <<head, tail, slots, ticket, item, blocking, offered, popped>>

-----------------------------------------------------------------------------
(* Consumers: try_pop, or pop, which repeats it until it succeeds. *)

CallPop(c, b) ==
  /\ pc[c] = "idle"
  /\ blocking' = [blocking EXCEPT ![c] = b]
  /\ Goto(c, "claim")
  /\ UNCHANGED <<ringVars, ticket, item, offered, accepted, popped>>

PopClaim(c) ==
  /\ pc[c] = "claim"
  /\ tail < MaxTicket
  /\ ticket' = [ticket EXCEPT ![c] = tail]
  /\ tail' = tail + 1
  /\ Goto(c, "wait")
  /\ UNCHANGED <<head, sequence, slots, item, blocking, offered, accepted, popped>>

\* Mutated form: a slot that is free is taken for one that is filled.
ReadableEarly(seq, i) == seq \in {i, i + 1}

Readable(seq, i) == seq = i + 1

PopEnter(c) ==
  /\ pc[c] = "wait"
  /\ Readable(SeqOf(c), Slot(c))
  /\ Goto(c, "read1")
  /\ UNCHANGED <<ringVars, ticket, item, blocking, offered, accepted, popped>>

PopNone(c) ==
  /\ pc[c] = "wait"
  /\ SeqOf(c) < Slot(c) + 1
  /\ Retry(c)
  /\ UNCHANGED <<ringVars, ticket, item, blocking, offered, accepted, popped>>

\* The sequence is ahead: load it again.
PopSpin(c) ==
  /\ pc[c] = "wait"
  /\ SeqOf(c) > Slot(c) + 1
  /\ UNCHANGED vars

PopRead(c, half) ==
  /\ pc[c] = <<"read1", "read2">>[half]
  /\ item' = [item EXCEPT ![c][half] = slots[Slot(c)][half]]
  /\ Goto(c, <<"read2", "release">>[half])
  /\ UNCHANGED <<ringVars, ticket, blocking, offered, accepted, popped>>

\* expected_seq + capacity - 1, where expected_seq is i + 1.
released(i) == i + Capacity

PopRelease(c) ==
  /\ pc[c] = "release"
  /\ sequence' = [sequence EXCEPT ![Slot(c)] = released(Slot(c))]
  /\ popped' = Append(popped, item[c])
  /\ Goto(c, "idle")
  /\ UNCHANGED <<head, tail, slots, ticket, item, blocking, offered, accepted>>

-----------------------------------------------------------------------------
PushStep(p) == \/ PushClaim(p) \/ PushEnter(p) \/ PushRefused(p)
               \/ PushWrite(p, 1) \/ PushWrite(p, 2) \/ PushPublish(p)

PopStep(c) == \/ PopClaim(c) \/ PopEnter(c) \/ PopNone(c) \/ PopSpin(c)
              \/ PopRead(c, 1) \/ PopRead(c, 2) \/ PopRelease(c)

Next ==
  \/ \E p \in Producers :
       \/ \E d \in Data, b \in BOOLEAN : CallPush(p, d, b)
       \/ PushStep(p)
  \/ \E c \in Consumers :
       \/ \E b \in BOOLEAN : CallPop(c, b)
       \/ PopStep(c)

Spec == Init /\ [][Next]_vars

-----------------------------------------------------------------------------
Halves == (Data \cup {Empty}) \X (Data \cup {Empty})

\* Every variable keeps its type.
TypeOK ==
  /\ head \in 0..MaxTicket /\ tail \in 0..MaxTicket
  /\ sequence \in [Indices -> Nat]
  /\ slots \in [Indices -> Halves]
  /\ pc \in [Threads -> {"idle", "claim", "wait", "write1", "write2", "publish",
                         "read1", "read2", "release"}]
  /\ ticket \in [Threads -> Nat]
  /\ item \in [Threads -> Halves]
  /\ blocking \in [Threads -> BOOLEAN]
  /\ offered \subseteq Data /\ accepted \subseteq Data
  /\ popped \in Seq(Halves)

\* The items in the ring or with a consumer that has read them whole.
Kept ==
  {slots[i][1] : i \in {j \in Indices : sequence[j] = j + 1}}
Returned == {popped[n][1] : n \in 1..Len(popped)}

\* As long as either side has given out no more tickets than there are slots,
\* the ring is a queue: items come out whole, once, and none is lost.
FirstLapExactlyOnce ==
  head <= Capacity /\ tail <= Capacity =>
    /\ \A n \in 1..Len(popped) :
         /\ popped[n][1] = popped[n][2]
         /\ \A m \in 1..n - 1 : popped[m][1] # popped[n][1]
    /\ accepted \subseteq Kept \cup Returned
=============================================================================
