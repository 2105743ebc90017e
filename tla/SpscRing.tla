------------------------------ MODULE SpscRing ------------------------------
(***************************************************************************)
(* The single-producer single-consumer ring of ring/spsc.rs, which carries *)
(* the command and response slots of a session.  One thread pushes, one    *)
(* pops, and any thread may ask for the length.  A step is one access to   *)
(* memory the threads share; the Acquire loads and Release stores of the   *)
(* code order the plain slot accesses, so the steps interleave             *)
(* sequentially.  The indices are u64 counters that never wrap in the life *)
(* of a machine; MaxPush bounds them for TLC.                              *)
(***************************************************************************)
EXTENDS Integers, Sequences

CONSTANTS Capacity,  \* number of slots, a power of two
          Data,      \* contents a caller may push
          Empty,     \* Slot::empty()
          MaxPush    \* bound: pushes per behaviour

ASSUME CapacityAssumption == Capacity \in Nat \ {0}
ASSUME MaxPushAssumption == MaxPush \in Nat

VARIABLES
  producer_index, consumer_index, slots,  \* the shared ring
  ppc, p_data, p_blocking, p_cons,        \* the producer's call in progress
  cpc, c_blocking, c_prod, c_slot,        \* the consumer's call in progress
  lpc, l_prod, l_len,                     \* an observer's call of len()
  pushed, popped                          \* history: successful calls, in order

ringVars == <<producer_index, consumer_index, slots>>
prodVars == <<ppc, p_data, p_blocking, p_cons>>
consVars == <<cpc, c_blocking, c_prod, c_slot>>
lenVars  == <<lpc, l_prod, l_len>>
vars == <<ringVars, prodVars, consVars, lenVars, pushed, popped>>

\* index & mask; the mask is Capacity - 1 and Capacity a power of two.
slot_at(i) == i % Capacity

\* Mutated form: wrapping subtraction instead of saturating_sub.
wrapping_sub(a, b) == (a - b) % 65536

saturating_sub(a, b) == IF a > b THEN a - b ELSE 0

Init ==
  /\ producer_index = 0
  /\ consumer_index = 0
  /\ slots = [i \in 0..Capacity - 1 |-> Empty]
  /\ ppc = "idle" /\ p_data = Empty /\ p_blocking = FALSE /\ p_cons = 0
  /\ cpc = "idle" /\ c_blocking = FALSE /\ c_prod = 0 /\ c_slot = Empty
  /\ lpc = "idle" /\ l_prod = 0 /\ l_len = 0
  /\ pushed = << >> /\ popped = << >>

-----------------------------------------------------------------------------
(* The producer: try_push, or push, which repeats try_push until it succeeds. *)

CallPush(d, blocking) ==
  /\ ppc = "idle"
  /\ Len(pushed) < MaxPush
  /\ ppc' = "load"
  /\ p_data' = d
  /\ p_blocking' = blocking
  /\ UNCHANGED <<p_cons, ringVars, consVars, lenVars, pushed, popped>>

\* Both loads: producer_index belongs to this thread, so only the load of
\* consumer_index can see another thread's store.
PushLoad ==
  /\ ppc = "load"
  /\ p_cons' = consumer_index
  /\ ppc' = "check"
  /\ UNCHANGED <<p_data, p_blocking, ringVars, consVars, lenVars, pushed, popped>>

\* Mutated form: the test for a full ring off by one.
PushFullLate(used) == used > Capacity

\* The ring looks full to the (possibly old) consumer index that was loaded.
PushFull(used) == used >= Capacity

\* try_push returns false; push spins.
PushRefused ==
  /\ ppc = "check"
  /\ PushFull(producer_index - p_cons)
  /\ ppc' = IF p_blocking THEN "load" ELSE "idle"
  /\ UNCHANGED <<p_data, p_blocking, p_cons, ringVars, consVars, lenVars, pushed, popped>>

PushWrite ==
  /\ ppc = "check"
  /\ ~PushFull(producer_index - p_cons)
  /\ slots' = [slots EXCEPT ![slot_at(producer_index)] = p_data]
  /\ ppc' = "publish"
  /\ UNCHANGED <<p_data, p_blocking, p_cons, producer_index, consumer_index,
                 consVars, lenVars, pushed, popped>>

PushPublish ==
  /\ ppc = "publish"
  /\ producer_index' = producer_index + 1
  /\ pushed' = Append(pushed, p_data)
  /\ ppc' = "idle"
  /\ UNCHANGED <<p_data, p_blocking, p_cons, consumer_index, slots, consVars,
                 lenVars, popped>>

PushStep == PushLoad \/ PushRefused \/ PushWrite \/ PushPublish

-----------------------------------------------------------------------------
(* The consumer: try_pop, or pop, which repeats try_pop until it succeeds. *)

CallPop(blocking) ==
  /\ cpc = "idle"
  /\ cpc' = "load"
  /\ c_blocking' = blocking
  /\ UNCHANGED <<c_prod, c_slot, ringVars, prodVars, lenVars, pushed, popped>>

PopLoad ==
  /\ cpc = "load"
  /\ c_prod' = producer_index
  /\ cpc' = "check"
  /\ UNCHANGED <<c_blocking, c_slot, ringVars, prodVars, lenVars, pushed, popped>>

\* Mutated form: the last item is never seen.
PopEmptyEarly(cons, prod) == cons + 1 >= prod

PopEmpty(cons, prod) == cons >= prod

PopNone ==
  /\ cpc = "check"
  /\ PopEmpty(consumer_index, c_prod)
  /\ cpc' = IF c_blocking THEN "load" ELSE "idle"
  /\ UNCHANGED <<c_blocking, c_prod, c_slot, ringVars, prodVars, lenVars, pushed, popped>>

PopRead ==
  /\ cpc = "check"
  /\ ~PopEmpty(consumer_index, c_prod)
  /\ c_slot' = slots[slot_at(consumer_index)]
  /\ cpc' = "clear"
  /\ UNCHANGED <<c_blocking, c_prod, ringVars, prodVars, lenVars, pushed, popped>>

PopClear ==
  /\ cpc = "clear"
  /\ slots' = [slots EXCEPT ![slot_at(consumer_index)] = Empty]
  /\ cpc' = "release"
  /\ UNCHANGED <<c_blocking, c_prod, c_slot, producer_index, consumer_index,
                 prodVars, lenVars, pushed, popped>>

PopRelease ==
  /\ cpc = "release"
  /\ consumer_index' = consumer_index + 1
  /\ popped' = Append(popped, c_slot)
  /\ cpc' = "idle"
  /\ UNCHANGED <<c_blocking, c_prod, c_slot, producer_index, slots, prodVars,
                 lenVars, pushed>>

PopStep == PopLoad \/ PopNone \/ PopRead \/ PopClear \/ PopRelease

-----------------------------------------------------------------------------
(* len(), on which is_empty and is_full rest: the two indices are loaded one *)
(* after the other while both ends go on.                                    *)

LenLoadFirst ==
  /\ lpc = "idle"
  /\ l_prod' = producer_index
  /\ lpc' = "half"
  /\ UNCHANGED <<l_len, ringVars, prodVars, consVars, pushed, popped>>

LenLoadSecond ==
  /\ lpc = "half"
  /\ l_len' = saturating_sub(l_prod, consumer_index)
  /\ lpc' = "idle"
  /\ UNCHANGED <<l_prod, ringVars, prodVars, consVars, pushed, popped>>

-----------------------------------------------------------------------------
Next ==
  \/ \E d \in Data, b \in BOOLEAN : CallPush(d, b)
  \/ PushLoad \/ PushRefused \/ PushWrite \/ PushPublish
  \/ \E b \in BOOLEAN : CallPop(b)
  \/ PopLoad \/ PopNone \/ PopRead \/ PopClear \/ PopRelease
  \/ LenLoadFirst \/ LenLoadSecond

Spec == Init /\ [][Next]_vars

\* A thread inside push or pop is running: the operating system schedules it
\* again and again.  Nobody is obliged to call push or pop.
FairSpec == Spec /\ WF_vars(PushStep) /\ WF_vars(PopStep)

-----------------------------------------------------------------------------
\* Every variable keeps its type.
TypeOK ==
  /\ producer_index \in Nat /\ consumer_index \in Nat
  /\ slots \in [0..Capacity - 1 -> Data \cup {Empty}]
  /\ ppc \in {"idle", "load", "check", "publish"}
  /\ p_data \in Data \cup {Empty} /\ p_blocking \in BOOLEAN /\ p_cons \in Nat
  /\ cpc \in {"idle", "load", "check", "clear", "release"}
  /\ c_blocking \in BOOLEAN /\ c_prod \in Nat /\ c_slot \in Data \cup {Empty}
  /\ lpc \in {"idle", "half"} /\ l_prod \in Nat /\ l_len \in Nat
  /\ pushed \in Seq(Data) /\ popped \in Seq(Data \cup {Empty})

\* try_push's write and try_pop's read and clear are plain, unsynchronised
\* accesses; the producer, about to write a slot it believes free, never means
\* the slot the consumer is about to read or clear.
NoSlotRace ==
  ~ /\ ppc = "check" /\ ~PushFull(producer_index - p_cons)
    /\ \/ cpc = "check" /\ ~PopEmpty(consumer_index, c_prod)
       \/ cpc = "clear"
    /\ slot_at(producer_index) = slot_at(consumer_index)

\* The consumer gets what the producers put in, in order, nothing lost,
\* repeated or read from a cleared slot.
Fifo ==
  /\ Len(popped) <= Len(pushed)
  /\ \A i \in 1..Len(popped) : popped[i] = pushed[i]

\* len() never reports more than the ring holds, although the indices it
\* subtracts were loaded at different moments: is_full and a caller sizing a
\* buffer by len() rely on it.
LenWithinCapacity == l_len <= Capacity

\* The u64 subtraction of try_push never underflows, and no more slots are in
\* use than the ring has, even for the consumer index loaded earlier.
IndicesApart ==
  /\ p_cons <= producer_index
  /\ consumer_index <= producer_index
  /\ producer_index - consumer_index <= Capacity

\* The ring implements the FIFO of FifoLog.
Log == INSTANCE FifoLog WITH accepted <- pushed, delivered <- popped
ImplementsFifo == Log!Spec

\* A pop() that is spinning when there is an item returns.
BlockedPopReturns ==
  (cpc # "idle" /\ consumer_index < producer_index) ~> (cpc = "idle")
=============================================================================
