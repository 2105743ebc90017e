--------------------------- MODULE SpscRingProofs ---------------------------
(***************************************************************************)
(* The ring of ring/spsc.rs is a FIFO for every capacity, every set of     *)
(* contents and any number of pushes.                                      *)
(***************************************************************************)
EXTENDS SpscRing, TLAPS

(* The history variables count the indices. *)
Counted == Len(pushed) = producer_index /\ Len(popped) = consumer_index

(* What a thread loaded earlier is old, never ahead, and the indices are at *)
(* most Capacity apart.                                                     *)
Behind ==
  /\ p_cons <= consumer_index
  /\ consumer_index <= producer_index
  /\ producer_index <= consumer_index + Capacity
  /\ c_prod <= producer_index
  /\ l_len <= Capacity
  /\ lpc = "half" => l_prod <= consumer_index + Capacity

(* What the two calls in progress hold. *)
InFlight ==
  /\ ppc # "idle" => p_data \in Data
  /\ ppc = "publish" => /\ producer_index < consumer_index + Capacity
                        /\ slots[slot_at(producer_index)] = p_data
  /\ cpc \in {"clear", "release"} => /\ consumer_index < producer_index
                                     /\ c_slot = pushed[consumer_index + 1]

(* Every index in use holds its item, except the one just cleared. *)
Stored ==
  \A i \in Nat : /\ consumer_index <= i /\ i < producer_index
                 /\ (cpc = "release" => i # consumer_index)
                 => slots[slot_at(i)] = pushed[i + 1]

(* The inductive invariant. *)
Inv == TypeOK /\ Counted /\ Behind /\ InFlight /\ Stored /\ Fifo

(* Two indices less than Capacity apart are in different slots.            *)
LEMMA SlotsDistinct ==
  ASSUME NEW i \in Nat, NEW j \in Nat, i < j, j < i + Capacity
  PROVE  slot_at(i) # slot_at(j)
<1> DEFINE qi == i \div Capacity
           qj == j \div Capacity
<1>1. qi \in Int /\ qj \in Int /\ Capacity \in Nat /\ Capacity > 0
  BY CapacityAssumption
<1>2. i = Capacity * qi + (i % Capacity) /\ j = Capacity * qj + (j % Capacity)
  BY CapacityAssumption
<1> SUFFICES ASSUME i % Capacity = j % Capacity
             PROVE  FALSE
  BY DEF slot_at
<1>3. i % Capacity \in Int
  BY CapacityAssumption
<1> HIDE DEF qi, qj
<1>4. j - i = Capacity * qj - Capacity * qi
  BY <1>1, <1>2, <1>3
<1>5. j - i = Capacity * (qj - qi)
  BY <1>1, <1>4
<1>6. CASE qj - qi <= 0
  <2>1. Capacity * (qj - qi) <= 0
    BY <1>1, <1>6
  <2> QED BY <2>1, <1>5
<1>7. CASE qj - qi >= 1
  <2>1. Capacity * (qj - qi) >= Capacity
    BY <1>1, <1>7
  <2> QED BY <2>1, <1>5, <1>1
<1> QED BY <1>1, <1>6, <1>7

(* A slot number is an index of the slot array.                            *)
LEMMA SlotInRange ==
  ASSUME NEW i \in Nat
  PROVE  slot_at(i) \in 0..Capacity - 1
BY CapacityAssumption DEF slot_at

(* The invariant holds initially. *)
LEMMA InvInit == Init => Inv
<1> SUFFICES ASSUME Init PROVE Inv
  OBVIOUS
<1> USE CapacityAssumption DEF Init
<1>1. slots \in [0..Capacity - 1 -> Data \cup {Empty}]
  OBVIOUS
<1>2. pushed \in Seq(Data) /\ popped \in Seq(Data \cup {Empty})
  OBVIOUS
<1>3. TypeOK
  BY <1>1, <1>2 DEF TypeOK
<1>4. Len(pushed) = 0 /\ Len(popped) = 0
  OBVIOUS
<1>5. Counted /\ Behind
  BY <1>4 DEF Counted, Behind
<1>6. InFlight
  BY DEF InFlight
<1>7. Stored
  BY DEF Stored
<1>8. Fifo
  BY <1>4 DEF Fifo
<1> QED BY <1>3, <1>5, <1>6, <1>7, <1>8 DEF Inv

(* Every step of either thread, or of an observer of the length, keeps it. *)
LEMMA InvNext == Inv /\ [Next]_vars => Inv'
<1> SUFFICES ASSUME Inv, [Next]_vars PROVE Inv'
  OBVIOUS
<1> USE CapacityAssumption
<1>1. ASSUME NEW d \in Data, NEW b \in BOOLEAN, CallPush(d, b) PROVE Inv'
  BY <1>1 DEF CallPush, ringVars, consVars, lenVars, Inv, TypeOK, Counted,
              Behind, InFlight, Stored, Fifo
<1>2. CASE PushLoad
  BY <1>2 DEF PushLoad, ringVars, consVars, lenVars, Inv, TypeOK, Counted,
              Behind, InFlight, Stored, Fifo
<1>3. CASE PushRefused
  BY <1>3 DEF PushRefused, ringVars, consVars, lenVars, Inv, TypeOK, Counted,
              Behind, InFlight, Stored, Fifo
<1>4. CASE PushWrite
  <2> USE <1>4 DEF PushWrite, PushFull, consVars, lenVars
  <2>1. producer_index \in Nat /\ consumer_index \in Nat /\ p_cons \in Nat
    BY DEF Inv, TypeOK
  <2>2. producer_index < consumer_index + Capacity
    BY <2>1 DEF Inv, Behind
  <2>3. slot_at(producer_index) \in 0..Capacity - 1
    BY <2>1, SlotInRange
  <2>4. TypeOK'
    BY <2>3 DEF Inv, TypeOK, InFlight
  <2>5. ASSUME NEW i \in Nat, consumer_index <= i, i < producer_index
        PROVE  slots'[slot_at(i)] = slots[slot_at(i)]
    <3>1. slot_at(i) # slot_at(producer_index)
      BY <2>1, <2>2, <2>5, SlotsDistinct
    <3> QED BY <3>1, <2>3 DEF Inv, TypeOK
  <2>6. Stored'
    BY <2>5 DEF Inv, Stored
  <2>7. Counted' /\ Behind' /\ Fifo'
    BY DEF Inv, Counted, Behind, Fifo
  <2>8. InFlight'
    BY <2>2, <2>3 DEF Inv, InFlight, TypeOK
  <2> QED BY <2>4, <2>6, <2>7, <2>8 DEF Inv
<1>5. CASE PushPublish
  <2> USE <1>5 DEF PushPublish, consVars, lenVars
  <2>1. /\ producer_index \in Nat /\ consumer_index \in Nat
        /\ pushed \in Seq(Data) /\ popped \in Seq(Data \cup {Empty})
        /\ p_data \in Data /\ Len(pushed) = producer_index
        /\ producer_index < consumer_index + Capacity
    BY DEF Inv, TypeOK, Counted, InFlight
  <2>2. /\ Len(pushed') = producer_index + 1 /\ pushed'[producer_index + 1] = p_data
        /\ \A i \in 1..producer_index : pushed'[i] = pushed[i]
    BY <2>1
  <2>3. TypeOK'
    BY <2>1 DEF Inv, TypeOK
  <2>4. Counted' /\ Behind'
    BY <2>1, <2>2 DEF Inv, Counted, Behind, TypeOK
  <2>5. InFlight'
    <3>1. cpc \in {"clear", "release"} => consumer_index + 1 \in 1..producer_index
      BY <2>1 DEF Inv, InFlight
    <3> QED BY <3>1, <2>1, <2>2 DEF Inv, InFlight
  <2>6. Stored'
    BY <2>1, <2>2 DEF Inv, Stored, InFlight
  <2>7. Fifo'
    BY <2>1, <2>2 DEF Inv, Fifo, Counted, Behind
  <2> QED BY <2>3, <2>4, <2>5, <2>6, <2>7 DEF Inv
<1>6. ASSUME NEW b \in BOOLEAN, CallPop(b) PROVE Inv'
  BY <1>6 DEF CallPop, ringVars, prodVars, lenVars, Inv, TypeOK, Counted,
              Behind, InFlight, Stored, Fifo
<1>7. CASE PopLoad
  BY <1>7 DEF PopLoad, ringVars, prodVars, lenVars, Inv, TypeOK, Counted,
              Behind, InFlight, Stored, Fifo
<1>8. CASE PopNone
  BY <1>8 DEF PopNone, ringVars, prodVars, lenVars, Inv, TypeOK, Counted,
              Behind, InFlight, Stored, Fifo
<1>9. CASE PopRead
  <2> USE <1>9 DEF PopRead, PopEmpty, ringVars, prodVars, lenVars
  <2>1. /\ consumer_index \in Nat /\ producer_index \in Nat /\ c_prod \in Nat
        /\ consumer_index < producer_index
    BY DEF Inv, TypeOK, Behind
  <2>2. slot_at(consumer_index) \in 0..Capacity - 1
    BY <2>1, SlotInRange
  <2>3. c_slot' = pushed[consumer_index + 1]
    BY <2>1 DEF Inv, Stored
  <2>4. TypeOK'
    BY <2>2 DEF Inv, TypeOK
  <2> QED BY <2>1, <2>3, <2>4 DEF Inv, Counted, Behind, InFlight, Stored, Fifo
<1>10. CASE PopClear
  <2> USE <1>10 DEF PopClear, prodVars, lenVars
  <2>1. /\ consumer_index \in Nat /\ producer_index \in Nat
        /\ consumer_index < producer_index
        /\ producer_index <= consumer_index + Capacity
    BY DEF Inv, TypeOK, InFlight, Behind
  <2>2. slot_at(consumer_index) \in 0..Capacity - 1
    BY <2>1, SlotInRange
  <2>3. TypeOK'
    BY <2>2 DEF Inv, TypeOK
  <2>4. ASSUME NEW i \in Nat, consumer_index < i, i < consumer_index + Capacity
        PROVE  slots'[slot_at(i)] = slots[slot_at(i)]
    <3>1. slot_at(i) # slot_at(consumer_index)
      BY <2>1, <2>4, SlotsDistinct
    <3> QED BY <3>1, <2>2 DEF Inv, TypeOK
  <2>5. Stored'
    <3> SUFFICES ASSUME NEW i \in Nat, consumer_index < i, i < producer_index
                 PROVE  slots'[slot_at(i)] = pushed[i + 1]
      BY <2>1 DEF Stored
    <3> QED BY <2>1, <2>4 DEF Inv, Stored
  <2>6. InFlight'
    BY <2>1, <2>4 DEF Inv, InFlight
  <2> QED BY <2>3, <2>5, <2>6 DEF Inv, Counted, Behind, Fifo
<1>11. CASE PopRelease
  <2> USE <1>11 DEF PopRelease, prodVars, lenVars
  <2>1. /\ producer_index \in Nat /\ consumer_index \in Nat
        /\ popped \in Seq(Data \cup {Empty}) /\ c_slot \in Data \cup {Empty}
        /\ Len(popped) = consumer_index /\ Len(pushed) = producer_index
        /\ consumer_index < producer_index
        /\ c_slot = pushed[consumer_index + 1]
    BY DEF Inv, TypeOK, Counted, InFlight
  <2>2. /\ Len(popped') = consumer_index + 1 /\ popped'[consumer_index + 1] = c_slot
        /\ \A i \in 1..consumer_index : popped'[i] = popped[i]
    BY <2>1
  <2>3. TypeOK'
    BY <2>1 DEF Inv, TypeOK
  <2>4. Counted' /\ Behind' /\ InFlight'
    BY <2>1, <2>2 DEF Inv, Counted, Behind, TypeOK, InFlight
  <2>5. Stored'
    BY <2>1 DEF Inv, Stored
  <2>6. Fifo'
    BY <2>1, <2>2 DEF Inv, Fifo
  <2> QED BY <2>3, <2>4, <2>5, <2>6 DEF Inv
<1>12. CASE LenLoadFirst
  BY <1>12 DEF LenLoadFirst, ringVars, prodVars, consVars, Inv, TypeOK, Counted,
               Behind, InFlight, Stored, Fifo
<1>13. CASE LenLoadSecond
  BY <1>13 DEF LenLoadSecond, saturating_sub, ringVars, prodVars, consVars, Inv,
               TypeOK, Counted, Behind, InFlight, Stored, Fifo
<1>14. CASE UNCHANGED vars
  BY <1>14 DEF vars, ringVars, prodVars, consVars, lenVars, Inv, TypeOK, Counted,
               Behind, InFlight, Stored, Fifo
<1> QED
  BY <1>1, <1>2, <1>3, <1>4, <1>5, <1>6, <1>7, <1>8, <1>9, <1>10, <1>11, <1>12,
     <1>13, <1>14 DEF Next

(* Every reachable state satisfies the invariant. *)
THEOREM SpscInvariance == Spec => []Inv
<1>1. Init => Inv
  BY InvInit
<1>2. Inv /\ [Next]_vars => Inv'
  BY InvNext
<1> QED BY <1>1, <1>2, PTL DEF Spec

\* Every variable of the ring keeps its type.
THEOREM SpscTypeOK == Spec => []TypeOK
<1>1. Inv => TypeOK
  BY DEF Inv
<1> QED BY <1>1, SpscInvariance, PTL

\* try_push's subtraction never underflows, and at most Capacity slots are in use.
THEOREM SpscIndicesApart == Spec => []IndicesApart
<1>1. Inv => IndicesApart
  BY CapacityAssumption DEF Inv, Behind, IndicesApart, TypeOK
<1> QED BY <1>1, SpscInvariance, PTL

(* Items leave the ring of try_push and try_pop in the order they entered, *)
(* each once: for every capacity and any interleaving of the two threads.   *)
THEOREM SpscFifo == Spec => []Fifo
<1>1. Inv => Fifo
  BY DEF Inv
<1> QED BY <1>1, SpscInvariance, PTL

(* The unsynchronised slot accesses of try_push and try_pop never meet. *)
THEOREM SpscNoSlotRace == Spec => []NoSlotRace
<1>1. Inv => NoSlotRace
  <2> SUFFICES ASSUME Inv, ~NoSlotRace PROVE FALSE
    OBVIOUS
  <2>1. /\ consumer_index \in Nat /\ producer_index \in Nat /\ p_cons \in Nat
        /\ c_prod \in Nat /\ Capacity \in Nat
        /\ producer_index < consumer_index + Capacity
        /\ consumer_index < producer_index
    BY CapacityAssumption
       DEF Inv, TypeOK, Behind, InFlight, NoSlotRace, PushFull, PopEmpty
  <2> QED BY <2>1, SlotsDistinct DEF NoSlotRace
<1> QED BY <1>1, SpscInvariance, PTL

(* len() stays within the capacity whatever happens between its two loads. *)
THEOREM SpscLenWithinCapacity == Spec => []LenWithinCapacity
<1>1. Inv => LenWithinCapacity
  BY DEF Inv, Behind, LenWithinCapacity
<1> QED BY <1>1, SpscInvariance, PTL

(* The ring implements the bounded FIFO of FifoLog: publishing the producer *)
(* index accepts an item, releasing the consumer index delivers one, and    *)
(* every other step is invisible.                                           *)
THEOREM SpscImplementsFifo == Spec => ImplementsFifo
<1>1. Init => Log!Init
  BY DEF Init, Log!Init
<1>2. Inv /\ [Next]_vars => [Log!Next]_<<pushed, popped>>
  <2> SUFFICES ASSUME Inv, [Next]_vars PROVE [Log!Next]_<<pushed, popped>>
    OBVIOUS
  <2>1. CASE PushPublish
    <3>1. Log!Outstanding < Capacity
      BY <2>1, CapacityAssumption
         DEF PushPublish, Log!Outstanding, Inv, InFlight, TypeOK, Counted
    <3>3. Log!Accept(p_data)
      BY <2>1, <3>1 DEF PushPublish, Log!Accept
    <3>2. p_data \in Data
      BY <2>1 DEF PushPublish, Inv, InFlight
    <3> QED BY <3>2, <3>3 DEF Log!Next
  <2>2. CASE PopRelease
    <3>1. Log!Deliver
      BY <2>2 DEF PopRelease, Log!Deliver, Inv, InFlight, TypeOK, Counted
    <3> QED BY <3>1 DEF Log!Next
  <2>3. CASE ~PushPublish /\ ~PopRelease
    BY <2>3 DEF Next, vars, CallPush, PushLoad, PushRefused, PushWrite, CallPop,
                PopLoad, PopNone, PopRead, PopClear, LenLoadFirst, LenLoadSecond
  <2> QED BY <2>1, <2>2, <2>3
<1> QED BY <1>1, <1>2, SpscInvariance, PTL DEF Spec, ImplementsFifo, Log!Spec
=============================================================================
