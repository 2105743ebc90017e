--------------------------- MODULE MpmcRingProofs ---------------------------
(***************************************************************************)
(* What the ring of ring/mpmc.rs promises for every capacity, any number   *)
(* of producers and consumers and any set of items.                        *)
(***************************************************************************)
EXTENDS MpmcRing, TLAPS

(* Which program counters belong to which side. *)
Roles ==
  /\ \A p \in Producers : pc[p] \in {"idle", "claim", "wait", "write1", "write2", "publish"}
  /\ \A c \in Consumers : pc[c] \in {"idle", "claim", "wait", "read1", "read2", "release"}

(* A producer's item is whole and its own, and has not been accepted yet. *)
Handed ==
  /\ accepted \subseteq offered
  /\ \A p \in Producers : pc[p] # "idle" =>
       /\ item[p][1] = item[p][2] /\ item[p][1] \in offered \ accepted
       /\ \A q \in Producers \ {p} : pc[q] # "idle" => item[q][1] # item[p][1]

FirstLap == head <= Capacity /\ tail <= Capacity
Claimed(t) == pc[t] \notin {"idle", "claim"}
Filled(i) == sequence[i] = i + 1

(* In the first lap a ticket is a slot of its own, for a producer a free one. *)
Tickets ==
  /\ \A p \in Producers : Claimed(p) =>
       /\ ticket[p] < head /\ sequence[ticket[p]] = ticket[p]
       /\ \A q \in Producers \ {p} : Claimed(q) => ticket[q] # ticket[p]
  /\ \A c \in Consumers : Claimed(c) =>
       /\ ticket[c] < tail
       /\ \A d \in Consumers \ {c} : Claimed(d) => ticket[d] # ticket[c]
  /\ \A i \in Indices : i >= head => sequence[i] = i

(* What the calls in progress have copied. *)
Copied ==
  /\ \A p \in Producers : /\ pc[p] = "write2" => slots[ticket[p]][1] = item[p][1]
                          /\ pc[p] = "publish" => slots[ticket[p]] = item[p]
  /\ \A c \in Consumers : /\ pc[c] \in {"read1", "read2", "release"} => Filled(ticket[c])
                          /\ pc[c] = "read2" => item[c][1] = slots[ticket[c]][1]
                          /\ pc[c] = "release" => item[c] = slots[ticket[c]]

(* A filled slot holds an accepted item whole, no other slot holds it, and it has not been   *)
(* returned before its ticket is used up.                                                    *)
Contents ==
  \A i \in Indices : Filled(i) =>
    /\ slots[i][1] = slots[i][2] /\ slots[i][1] \in accepted
    /\ \A j \in Indices \ {i} : Filled(j) => slots[j][1] # slots[i][1]
    /\ i >= tail \/ (\E c \in Consumers : Claimed(c) /\ ticket[c] = i)
         => slots[i][1] \notin Returned

(* The items that were accepted are in the ring or were returned, whole and once. *)
Delivered ==
  /\ Returned \subseteq accepted
  /\ accepted \subseteq Kept \cup Returned
  /\ \A n \in 1..Len(popped) : popped[n][1] = popped[n][2]
  /\ \A n, m \in 1..Len(popped) : m < n => popped[m][1] # popped[n][1]

LapInv == Tickets /\ Copied /\ Contents /\ Delivered

-----------------------------------------------------------------------------
Base == TypeOK /\ Roles /\ Handed

(* A ticket names a slot; in the first lap, the slot with its number. *)
LEMMA SlotOf ==
  ASSUME NEW n \in Nat
  PROVE  slot_at(n) \in Indices /\ (n < Capacity => slot_at(n) = n)
BY CapacityAssumption DEF slot_at, Indices

(* The slot of a thread's ticket. *)
LEMMA ThreadSlot ==
  ASSUME TypeOK, NEW t \in Threads
  PROVE  /\ Slot(t) \in Indices /\ Slot(t) \in Nat /\ slots[Slot(t)] \in Halves
         /\ item[t] \in Halves /\ (ticket[t] < Capacity => Slot(t) = ticket[t])
<1>1. ticket[t] \in Nat BY DEF TypeOK
<1>2. Slot(t) \in Indices BY <1>1, SlotOf DEF Slot
<1>3. Slot(t) \in Nat BY <1>2, CapacityAssumption DEF Indices
<1>4. ticket[t] < Capacity => Slot(t) = ticket[t] BY <1>1, SlotOf DEF Slot
<1> QED BY <1>2, <1>3, <1>4 DEF TypeOK

(* The halves of a slot's contents. *)
LEMMA HalvesOf ==
  ASSUME NEW h \in Halves
  PROVE  /\ h = <<h[1], h[2]>> /\ h[1] \in Data \cup {Empty} /\ h[2] \in Data \cup {Empty}
         /\ \A x \in Data \cup {Empty} :
              /\ [h EXCEPT ![1] = x] = <<x, h[2]>> /\ [h EXCEPT ![2] = x] = <<h[1], x>>
              /\ <<x, h[2]>> \in Halves /\ <<h[1], x>> \in Halves
<1> DEFINE D == Data \cup {Empty}
<1>1. h = <<h[1], h[2]>> /\ h[1] \in D /\ h[2] \in D BY DEF Halves
<1>2. ASSUME NEW x \in D
      PROVE  /\ [h EXCEPT ![1] = x] = <<x, h[2]>> /\ [h EXCEPT ![2] = x] = <<h[1], x>>
             /\ <<x, h[2]>> \in Halves /\ <<h[1], x>> \in Halves
  BY <1>1 DEF Halves
<1> QED BY <1>1, <1>2

(* The first half of a producer's copy. *)
LEMMA FirstWrite ==
  ASSUME TypeOK, NEW p \in Producers, PushWrite(p, 1)
  PROVE  /\ pc[p] = "write1" /\ pc' = [pc EXCEPT ![p] = "write2"]
         /\ slots' = [slots EXCEPT ![Slot(p)] = <<item[p][1], slots[Slot(p)][2]>>]
         /\ slots' \in [Indices -> Halves]
         /\ UNCHANGED <<head, tail, sequence, ticket, item, blocking, offered, accepted, popped>>
<1>1. p \in Threads BY DEF Threads
<1>2. slots' = [slots EXCEPT ![Slot(p)] = [slots[Slot(p)] EXCEPT ![1] = item[p][1]]]
  BY <1>1, ThreadSlot DEF PushWrite, TypeOK
<1>3. /\ [slots[Slot(p)] EXCEPT ![1] = item[p][1]] = <<item[p][1], slots[Slot(p)][2]>>
      /\ <<item[p][1], slots[Slot(p)][2]>> \in Halves
  <2>1. slots[Slot(p)] \in Halves /\ item[p] \in Halves BY <1>1, ThreadSlot
  <2>2. item[p][1] \in Data \cup {Empty} /\ item[p][2] \in Data \cup {Empty} BY <2>1, HalvesOf
  <2> QED BY <2>1, <2>2, HalvesOf
<1>4. slots' \in [Indices -> Halves] BY <1>1, <1>2, <1>3, ThreadSlot DEF TypeOK
<1> QED BY <1>2, <1>3, <1>4 DEF PushWrite, Goto

(* The second half of a producer's copy. *)
LEMMA SecondWrite ==
  ASSUME TypeOK, NEW p \in Producers, PushWrite(p, 2)
  PROVE  /\ pc[p] = "write2" /\ pc' = [pc EXCEPT ![p] = "publish"]
         /\ slots' = [slots EXCEPT ![Slot(p)] = <<slots[Slot(p)][1], item[p][2]>>]
         /\ slots' \in [Indices -> Halves]
         /\ UNCHANGED <<head, tail, sequence, ticket, item, blocking, offered, accepted, popped>>
<1>1. p \in Threads BY DEF Threads
<1>2. slots' = [slots EXCEPT ![Slot(p)] = [slots[Slot(p)] EXCEPT ![2] = item[p][2]]]
  BY <1>1, ThreadSlot DEF PushWrite, TypeOK
<1>3. /\ [slots[Slot(p)] EXCEPT ![2] = item[p][2]] = <<slots[Slot(p)][1], item[p][2]>>
      /\ <<slots[Slot(p)][1], item[p][2]>> \in Halves
  <2>1. slots[Slot(p)] \in Halves /\ item[p] \in Halves BY <1>1, ThreadSlot
  <2>2. item[p][1] \in Data \cup {Empty} /\ item[p][2] \in Data \cup {Empty} BY <2>1, HalvesOf
  <2> QED BY <2>1, <2>2, HalvesOf
<1>4. slots' \in [Indices -> Halves] BY <1>1, <1>2, <1>3, ThreadSlot DEF TypeOK
<1> QED BY <1>2, <1>3, <1>4 DEF PushWrite, Goto

(* The first half of a consumer's copy. *)
LEMMA FirstRead ==
  ASSUME TypeOK, NEW c \in Consumers, PopRead(c, 1)
  PROVE  /\ pc[c] = "read1" /\ pc' = [pc EXCEPT ![c] = "read2"]
         /\ item' = [item EXCEPT ![c] = <<slots[Slot(c)][1], item[c][2]>>]
         /\ item' \in [Threads -> Halves]
         /\ UNCHANGED <<ringVars, ticket, blocking, offered, accepted, popped>>
<1>1. c \in Threads BY DEF Threads
<1>2. item' = [item EXCEPT ![c] = [item[c] EXCEPT ![1] = slots[Slot(c)][1]]]
  BY <1>1, ThreadSlot DEF PopRead, TypeOK
<1>3. /\ [item[c] EXCEPT ![1] = slots[Slot(c)][1]] = <<slots[Slot(c)][1], item[c][2]>>
      /\ <<slots[Slot(c)][1], item[c][2]>> \in Halves
  <2>1. slots[Slot(c)] \in Halves /\ item[c] \in Halves BY <1>1, ThreadSlot
  <2>2. slots[Slot(c)][1] \in Data \cup {Empty} /\ slots[Slot(c)][2] \in Data \cup {Empty}
    BY <2>1, HalvesOf
  <2> QED BY <2>1, <2>2, HalvesOf
<1>4. item' \in [Threads -> Halves] BY <1>1, <1>2, <1>3 DEF TypeOK
<1> QED BY <1>2, <1>3, <1>4 DEF PopRead, Goto

(* The second half of a consumer's copy. *)
LEMMA SecondRead ==
  ASSUME TypeOK, NEW c \in Consumers, PopRead(c, 2)
  PROVE  /\ pc[c] = "read2" /\ pc' = [pc EXCEPT ![c] = "release"]
         /\ item' = [item EXCEPT ![c] = <<item[c][1], slots[Slot(c)][2]>>]
         /\ item' \in [Threads -> Halves]
         /\ UNCHANGED <<ringVars, ticket, blocking, offered, accepted, popped>>
<1>1. c \in Threads BY DEF Threads
<1>2. item' = [item EXCEPT ![c] = [item[c] EXCEPT ![2] = slots[Slot(c)][2]]]
  BY <1>1, ThreadSlot DEF PopRead, TypeOK
<1>3. /\ [item[c] EXCEPT ![2] = slots[Slot(c)][2]] = <<item[c][1], slots[Slot(c)][2]>>
      /\ <<item[c][1], slots[Slot(c)][2]>> \in Halves
  <2>1. slots[Slot(c)] \in Halves /\ item[c] \in Halves BY <1>1, ThreadSlot
  <2>2. slots[Slot(c)][1] \in Data \cup {Empty} /\ slots[Slot(c)][2] \in Data \cup {Empty}
    BY <2>1, HalvesOf
  <2> QED BY <2>1, <2>2, HalvesOf
<1>4. item' \in [Threads -> Halves] BY <1>1, <1>2, <1>3 DEF TypeOK
<1> QED BY <1>2, <1>3, <1>4 DEF PopRead, Goto

(* The ring starts typed. *)
LEMMA BaseInit == Init => Base
<1> SUFFICES ASSUME Init PROVE Base
  OBVIOUS
<1>1. <<Empty, Empty>> \in Halves BY DEF Halves
<1>2. sequence \in [Indices -> Nat] BY CapacityAssumption DEF Init, initial_sequence, Indices
<1>3. blocking \in [Threads -> BOOLEAN] BY DEF Init
<1>4. popped \in Seq(Halves) BY DEF Init
<1>5. /\ head \in 0..MaxTicket /\ tail \in 0..MaxTicket BY MaxTicketAssumption DEF Init
<1>6. TypeOK BY <1>1, <1>2, <1>3, <1>4, <1>5 DEF TypeOK, Init
<1>7. Roles /\ Handed BY DEF Roles, Handed, Init, Threads
<1> QED BY <1>6, <1>7 DEF Base

(* Every step keeps the types, the two sides apart and the items whole: one case per action. *)
LEMMA BaseNext == Base /\ [Next]_vars => Base'
<1> SUFFICES ASSUME Base, [Next]_vars PROVE Base'
  OBVIOUS
<1>t. TypeOK BY DEF Base
<1>u. \A p \in Producers : p \in Threads /\ p \notin Consumers
  BY ThreadsAssumption DEF Threads
<1>v. \A c \in Consumers : c \in Threads /\ c \notin Producers
  BY ThreadsAssumption DEF Threads
<1> USE MaxTicketAssumption, <1>u, <1>v DEF Base, TypeOK, Roles, Handed, ringVars, callVars, Goto
<1>1. ASSUME NEW p \in Producers, NEW d \in Data, NEW b \in BOOLEAN, CallPush(p, d, b) PROVE Base'
  <2>1. <<d, d>> \in Halves BY DEF Halves
  <2>2. item' \in [Threads -> Halves] BY <1>1, <2>1 DEF CallPush
  <2> QED BY <1>1, <2>2 DEF CallPush
<1>2. ASSUME NEW p \in Producers, PushClaim(p) PROVE Base'
  BY <1>2 DEF PushClaim
<1>3. ASSUME NEW p \in Producers, PushEnter(p) \/ PushRefused(p) PROVE Base'
  <2>1. PICK label \in {"idle", "claim", "write1"} : pc' = [pc EXCEPT ![p] = label]
    BY <1>3 DEF PushEnter, PushRefused, Retry
  <2>2. /\ UNCHANGED <<ringVars, ticket, item, blocking, offered, accepted, popped>>
        /\ pc[p] # "idle"
    BY <1>3 DEF PushEnter, PushRefused
  <2> QED BY <2>1, <2>2
<1>4. ASSUME NEW p \in Producers, PushWrite(p, 1) PROVE Base'
  <2>1. pc[p] # "idle" /\ pc' = [pc EXCEPT ![p] = "write2"] /\ slots' \in [Indices -> Halves]
    BY <1>4, <1>t, FirstWrite
  <2>2. UNCHANGED <<head, tail, sequence, ticket, item, blocking, offered, accepted, popped>>
    BY <1>4, <1>t, FirstWrite
  <2> QED BY <2>1, <2>2
<1>5. ASSUME NEW p \in Producers, PushWrite(p, 2) PROVE Base'
  <2>1. pc[p] # "idle" /\ pc' = [pc EXCEPT ![p] = "publish"] /\ slots' \in [Indices -> Halves]
    BY <1>5, <1>t, SecondWrite
  <2>2. UNCHANGED <<head, tail, sequence, ticket, item, blocking, offered, accepted, popped>>
    BY <1>5, <1>t, SecondWrite
  <2> QED BY <2>1, <2>2
<1>6. ASSUME NEW p \in Producers, PushPublish(p) PROVE Base'
  <2>1. Slot(p) + 1 \in Nat BY <1>t, ThreadSlot
  <2>2. sequence' \in [Indices -> Nat] BY <1>6, <2>1 DEF PushPublish
  <2>3. item[p][1] \in offered BY <1>6 DEF PushPublish
  <2>4. pc' = [pc EXCEPT ![p] = "idle"] /\ accepted' = accepted \cup {item[p][1]}
    BY <1>6 DEF PushPublish
  <2>5. UNCHANGED <<head, tail, slots, ticket, item, blocking, offered, popped>> /\ pc[p] = "publish"
    BY <1>6 DEF PushPublish
  <2> QED BY <2>2, <2>3, <2>4, <2>5
<1>7. ASSUME NEW c \in Consumers, NEW b \in BOOLEAN, CallPop(c, b) PROVE Base'
  BY <1>7 DEF CallPop
<1>8. ASSUME NEW c \in Consumers, PopClaim(c) PROVE Base'
  BY <1>8 DEF PopClaim
<1>9. ASSUME NEW c \in Consumers, PopEnter(c) \/ PopNone(c) PROVE Base'
  <2>1. PICK label \in {"idle", "claim", "read1"} : pc' = [pc EXCEPT ![c] = label]
    BY <1>9 DEF PopEnter, PopNone, Retry
  <2>2. UNCHANGED <<ringVars, ticket, item, blocking, offered, accepted, popped>>
    BY <1>9 DEF PopEnter, PopNone
  <2> QED BY <2>1, <2>2
<1>10. ASSUME NEW c \in Consumers, PopRead(c, 1) PROVE Base'
  <2>1. pc' = [pc EXCEPT ![c] = "read2"] /\ item' \in [Threads -> Halves]
    BY <1>10, <1>t, FirstRead
  <2>2. UNCHANGED <<ringVars, ticket, blocking, offered, accepted, popped>>
    BY <1>10, <1>t, FirstRead
  <2>3. \A q \in Producers : item'[q] = item[q] BY <1>10, <1>t, FirstRead
  <2> QED BY <2>1, <2>2, <2>3
<1>11. ASSUME NEW c \in Consumers, PopRead(c, 2) PROVE Base'
  <2>1. pc' = [pc EXCEPT ![c] = "release"] /\ item' \in [Threads -> Halves]
    BY <1>11, <1>t, SecondRead
  <2>2. UNCHANGED <<ringVars, ticket, blocking, offered, accepted, popped>>
    BY <1>11, <1>t, SecondRead
  <2>3. \A q \in Producers : item'[q] = item[q] BY <1>11, <1>t, SecondRead
  <2> QED BY <2>1, <2>2, <2>3
<1>12. ASSUME NEW c \in Consumers, PopRelease(c) PROVE Base'
  <2>1. released(Slot(c)) \in Nat BY <1>t, ThreadSlot, CapacityAssumption DEF released
  <2>2. sequence' \in [Indices -> Nat] BY <1>12, <2>1 DEF PopRelease
  <2>3. popped' \in Seq(Halves) BY <1>12 DEF PopRelease
  <2> QED BY <1>12, <2>2, <2>3 DEF PopRelease
<1>13. ASSUME UNCHANGED vars PROVE Base'
  BY <1>13 DEF vars
<1> QED
  BY <1>1, <1>2, <1>3, <1>4, <1>5, <1>6, <1>7, <1>8, <1>9, <1>10, <1>11, <1>12, <1>13
     DEF Next, PushStep, PopStep, PopSpin

-----------------------------------------------------------------------------
(* In the first lap a call's slot is the one with its ticket's number. *)
LEMMA LapSlot ==
  ASSUME Base, FirstLap, Tickets, NEW t \in Threads, Claimed(t)
  PROVE  Slot(t) = ticket[t] /\ ticket[t] \in Indices /\ ticket[t] \in Nat
<1>t. TypeOK BY DEF Base
<1>1. ticket[t] \in Nat /\ head \in Nat /\ tail \in Nat
  BY <1>t, MaxTicketAssumption DEF TypeOK
<1>2. ticket[t] < head \/ ticket[t] < tail BY DEF Tickets, Threads
<1>3. ticket[t] < Capacity BY <1>1, <1>2, CapacityAssumption DEF FirstLap
<1> QED BY <1>t, <1>1, <1>3, ThreadSlot, CapacityAssumption DEF Indices

(* What is kept and what was returned, element by element. *)
LEMMA Elements ==
  /\ \A x : x \in Kept <=> \E i \in Indices : Filled(i) /\ x = slots[i][1]
  /\ \A x : x \in Returned <=> \E n \in 1..Len(popped) : x = popped[n][1]
BY DEF Kept, Returned, Filled

(* The ring starts in its first lap with every slot free. *)
LEMMA LapInit == Init => LapInv
<1> SUFFICES ASSUME Init PROVE LapInv
  OBVIOUS
<1>1. \A i \in Indices : sequence[i] = i /\ i \in Nat
  BY CapacityAssumption DEF Init, initial_sequence, Indices
<1>2. \A i \in Indices : ~Filled(i) BY <1>1 DEF Filled
<1>3. \A t \in Threads : pc[t] = "idle" BY DEF Init
<1>4. Tickets BY <1>1, <1>3 DEF Tickets, Claimed, Threads
<1>5. Copied BY <1>3 DEF Copied, Threads
<1>6. Contents BY <1>2 DEF Contents
<1>7. popped = << >> /\ accepted = {} BY DEF Init
<1>8. Delivered BY <1>7 DEF Delivered, Returned
<1> QED BY <1>4, <1>5, <1>6, <1>8 DEF LapInv

(* A step that leaves the ring and the histories alone and lets nobody in keeps the invariant. *)
LEMMA LapQuiet ==
  ASSUME TypeOK, LapInv, UNCHANGED <<head, tail, sequence, slots, ticket, accepted, popped>>,
         NEW t \in Threads, NEW label \in {"idle", "claim"}, NEW it,
         pc' = [pc EXCEPT ![t] = label], item' = [item EXCEPT ![t] = it]
  PROVE  LapInv'
<1>1. \A q \in Threads : Claimed(q)' => Claimed(q) /\ q # t BY DEF Claimed, TypeOK
<1>2. \A q \in Threads : q # t => pc'[q] = pc[q] /\ item'[q] = item[q] BY DEF TypeOK
<1>3. pc'[t] \in {"idle", "claim"} BY DEF TypeOK
<1>4. Tickets' BY <1>1 DEF LapInv, Tickets, Threads
<1>5. Copied' BY <1>2, <1>3 DEF LapInv, Copied, Threads, Filled
<1>6. Contents' BY <1>1 DEF LapInv, Contents, Filled, Returned, Threads
<1>7. Delivered' BY DEF LapInv, Delivered, Kept, Returned
<1> QED BY <1>4, <1>5, <1>6, <1>7 DEF LapInv

(* A producer's ticket is the next one, and the slot it names is free. *)
LEMMA LapPushClaim ==
  ASSUME Base, LapInv, FirstLap', NEW p \in Producers, PushClaim(p)
  PROVE  LapInv'
<1>t. TypeOK BY DEF Base
<1>u. p \in Threads /\ p \notin Consumers BY ThreadsAssumption DEF Threads
<1>1. /\ pc' = [pc EXCEPT ![p] = "wait"] /\ ticket' = [ticket EXCEPT ![p] = head]
      /\ head' = head + 1 /\ UNCHANGED <<tail, sequence, slots, item, accepted, popped>>
      /\ pc[p] = "claim"
  BY DEF PushClaim, Goto
<1>2. \A q \in Threads : q # p =>
        pc'[q] = pc[q] /\ ticket'[q] = ticket[q] /\ (Claimed(q)' <=> Claimed(q))
  BY <1>t, <1>1 DEF TypeOK, Claimed
<1>3. ticket'[p] = head /\ pc'[p] = "wait" BY <1>t, <1>u, <1>1 DEF TypeOK
<1>4. /\ head \in Nat /\ head \in Indices /\ Capacity \in Nat /\ Indices \subseteq Nat
      /\ ticket \in [Threads -> Nat]
  BY <1>t, <1>1, CapacityAssumption, MaxTicketAssumption DEF TypeOK, FirstLap, Indices
<1>5. Tickets'
  <2>1. sequence[head] = head BY <1>4 DEF LapInv, Tickets
  <2>2. \A q \in Producers \ {p} : Claimed(q)' =>
          ticket'[q] < head /\ sequence'[ticket'[q]] = ticket'[q] /\ ticket'[q] = ticket[q]
    BY <1>1, <1>2 DEF LapInv, Tickets, Threads
  <2>3. \A q \in Producers : Claimed(q)' =>
         /\ ticket'[q] < head' /\ sequence'[ticket'[q]] = ticket'[q]
         /\ \A r \in Producers \ {q} : Claimed(r)' => ticket'[r] # ticket'[q]
    <3> TAKE q \in Producers
    <3>1. CASE q = p BY <2>1, <2>2, <3>1, <1>1, <1>3, <1>4 DEF Threads
    <3>2. CASE q # p
      <4>1. Claimed(q)' => ticket[q] < head + 1 BY <3>2, <2>2, <1>2, <1>4 DEF Threads
      <4>2. Claimed(q)' => ticket'[q] # head BY <3>2, <2>2, <1>2, <1>4 DEF Threads
      <4>3. Claimed(q)' => \A r \in Producers \ {p, q} : Claimed(r)' => ticket'[r] # ticket'[q]
        BY <3>2, <1>2 DEF LapInv, Tickets, Threads
      <4> QED BY <4>1, <4>2, <4>3, <3>2, <2>2, <1>1, <1>3
    <3> QED BY <3>1, <3>2
  <2>4. \A c \in Consumers : Claimed(c)' =>
          /\ ticket'[c] < tail'
          /\ \A d \in Consumers \ {c} : Claimed(d)' => ticket'[d] # ticket'[c]
    BY <1>u, <1>1, <1>2 DEF LapInv, Tickets, Threads
  <2>5. \A i \in Indices : i >= head' => sequence'[i] = i
    BY <1>1, <1>4 DEF LapInv, Tickets
  <2> QED BY <2>3, <2>4, <2>5 DEF Tickets
<1>6. Copied' BY <1>u, <1>1, <1>2, <1>3 DEF LapInv, Copied, Threads, Filled
<1>7. Contents' BY <1>u, <1>1, <1>2 DEF LapInv, Contents, Filled, Returned, Threads
<1>8. Delivered' BY <1>1 DEF LapInv, Delivered, Kept, Returned
<1> QED BY <1>5, <1>6, <1>7, <1>8 DEF LapInv

(* A consumer's ticket is the next one. *)
LEMMA LapPopClaim ==
  ASSUME Base, LapInv, FirstLap', NEW c \in Consumers, PopClaim(c)
  PROVE  LapInv'
<1>t. TypeOK BY DEF Base
<1>u. c \in Threads /\ c \notin Producers BY ThreadsAssumption DEF Threads
<1>1. /\ pc' = [pc EXCEPT ![c] = "wait"] /\ ticket' = [ticket EXCEPT ![c] = tail]
      /\ tail' = tail + 1 /\ UNCHANGED <<head, sequence, slots, item, accepted, popped>>
      /\ pc[c] = "claim"
  BY DEF PopClaim, Goto
<1>2. \A q \in Threads : q # c =>
        pc'[q] = pc[q] /\ ticket'[q] = ticket[q] /\ (Claimed(q)' <=> Claimed(q))
  BY <1>t, <1>1 DEF TypeOK, Claimed
<1>3. ticket'[c] = tail /\ pc'[c] = "wait" BY <1>t, <1>u, <1>1 DEF TypeOK
<1>4. /\ tail \in Nat /\ head \in Nat /\ Indices \subseteq Nat /\ ticket \in [Threads -> Nat]
  BY <1>t, CapacityAssumption, MaxTicketAssumption DEF TypeOK, Indices
<1>5. Tickets'
  <2>1. \A p \in Producers : Claimed(p)' =>
         /\ ticket'[p] < head' /\ sequence'[ticket'[p]] = ticket'[p]
         /\ \A q \in Producers \ {p} : Claimed(q)' => ticket'[q] # ticket'[p]
    BY <1>u, <1>1, <1>2 DEF LapInv, Tickets, Threads
  <2>2. \A d \in Consumers \ {c} : Claimed(d)' => ticket'[d] < tail /\ ticket'[d] = ticket[d]
    BY <1>2 DEF LapInv, Tickets, Threads
  <2>3. \A d \in Consumers : Claimed(d)' =>
         /\ ticket'[d] < tail'
         /\ \A e \in Consumers \ {d} : Claimed(e)' => ticket'[e] # ticket'[d]
    <3> TAKE d \in Consumers
    <3>1. CASE d = c BY <2>2, <3>1, <1>1, <1>3, <1>4 DEF Threads
    <3>2. CASE d # c
      <4>1. Claimed(d)' => ticket[d] < tail + 1 BY <3>2, <2>2, <1>2, <1>4 DEF Threads
      <4>2. Claimed(d)' => ticket'[d] # tail BY <3>2, <2>2, <1>2, <1>4 DEF Threads
      <4>3. Claimed(d)' => \A e \in Consumers \ {c, d} : Claimed(e)' => ticket'[e] # ticket'[d]
        BY <3>2, <1>2 DEF LapInv, Tickets, Threads
      <4> QED BY <4>1, <4>2, <4>3, <3>2, <2>2, <1>1, <1>3
    <3> QED BY <3>1, <3>2
  <2>4. \A i \in Indices : i >= head' => sequence'[i] = i BY <1>1 DEF LapInv, Tickets
  <2> QED BY <2>1, <2>3, <2>4 DEF Tickets
<1>6. Copied' BY <1>u, <1>1, <1>2, <1>3 DEF LapInv, Copied, Threads, Filled
<1>7. Contents'
  <2>1. \A i \in Indices :
          i >= tail' \/ (\E d \in Consumers : Claimed(d)' /\ ticket'[d] = i)
            => i >= tail \/ (\E d \in Consumers : Claimed(d) /\ ticket[d] = i)
    BY <1>1, <1>2, <1>3, <1>4 DEF Threads
  <2> QED BY <2>1, <1>1 DEF LapInv, Contents, Filled, Returned
<1>8. Delivered' BY <1>1 DEF LapInv, Delivered, Kept, Returned
<1> QED BY <1>5, <1>6, <1>7, <1>8 DEF LapInv

(* The load that finds a slot free lets its producer in. *)
LEMMA LapPushEnter ==
  ASSUME Base, LapInv, NEW p \in Producers, PushEnter(p)
  PROVE  LapInv'
<1>t. TypeOK BY DEF Base
<1>u. p \in Threads /\ p \notin Consumers BY ThreadsAssumption DEF Threads
<1>1. /\ pc' = [pc EXCEPT ![p] = "write1"] /\ pc[p] = "wait"
      /\ UNCHANGED <<head, tail, sequence, slots, ticket, item, accepted, popped>>
  BY DEF PushEnter, Goto, ringVars
<1>2. \A q \in Threads : Claimed(q)' <=> Claimed(q) BY <1>t, <1>1 DEF TypeOK, Claimed
<1>3. \A q \in Threads : q # p => pc'[q] = pc[q] BY <1>t, <1>1 DEF TypeOK
<1>4. pc'[p] = "write1" BY <1>t, <1>u, <1>1 DEF TypeOK
<1>5. Tickets' BY <1>1, <1>2 DEF LapInv, Tickets, Threads
<1>6. Copied' BY <1>u, <1>1, <1>3, <1>4 DEF LapInv, Copied, Threads, Filled
<1>7. Contents' BY <1>1, <1>2 DEF LapInv, Contents, Filled, Returned, Threads
<1>8. Delivered' BY <1>1 DEF LapInv, Delivered, Kept, Returned
<1> QED BY <1>5, <1>6, <1>7, <1>8 DEF LapInv

(* A producer copies into a slot that nobody may read and no other producer was given. *)
LEMMA LapWrite ==
  ASSUME Base, FirstLap, LapInv, NEW p \in Producers, PushWrite(p, 1) \/ PushWrite(p, 2)
  PROVE  LapInv'
<1>t. TypeOK BY DEF Base
<1>u. p \in Threads /\ p \notin Consumers BY ThreadsAssumption DEF Threads
<1>1. /\ pc[p] \in {"write1", "write2"} /\ pc'[p] \in {"write2", "publish"}
      /\ UNCHANGED <<head, tail, sequence, ticket, item, accepted, popped>>
      /\ \A q \in Threads : q # p => pc'[q] = pc[q]
  BY <1>t, <1>u, FirstWrite, SecondWrite DEF TypeOK
<1>2. \A q \in Threads : Claimed(q)' <=> Claimed(q) BY <1>1 DEF Claimed
<1>3. Slot(p) = ticket[p] /\ ticket[p] \in Indices /\ ticket[p] \in Nat
  BY <1>u, <1>1, LapSlot DEF LapInv, Claimed
<1>4. \A i \in Indices : i # ticket[p] => slots'[i] = slots[i]
  BY <1>t, <1>3, FirstWrite, SecondWrite DEF TypeOK
<1>5. ~Filled(ticket[p]) BY <1>1, <1>3 DEF LapInv, Tickets, Claimed, Filled
<1>6. Tickets' BY <1>1, <1>2 DEF LapInv, Tickets, Threads
<1>7. Copied'
  <2>1. \A q \in Producers \ {p} : Claimed(q) => ticket[q] # ticket[p] /\ ticket[q] \in Indices
    BY <1>1, LapSlot DEF LapInv, Tickets, Claimed, Threads
  <2>2. \A q \in Producers \ {p} : /\ pc'[q] = "write2" => slots'[ticket'[q]][1] = item'[q][1]
                                   /\ pc'[q] = "publish" => slots'[ticket'[q]] = item'[q]
    BY <1>1, <1>4, <2>1 DEF LapInv, Copied, Threads, Claimed
  <2>3. \A c \in Consumers : pc[c] \in {"read1", "read2", "release"} =>
          Filled(ticket[c]) /\ ticket[c] # ticket[p] /\ slots'[ticket[c]] = slots[ticket[c]]
    BY <1>4, <1>5, LapSlot DEF LapInv, Copied, Claimed, Threads
  <2>4. \A c \in Consumers :
           /\ pc'[c] \in {"read1", "read2", "release"} => Filled(ticket[c])'
           /\ pc'[c] = "read2" => item'[c][1] = slots'[ticket'[c]][1]
           /\ pc'[c] = "release" => item'[c] = slots'[ticket'[c]]
    BY <1>u, <1>1, <2>3 DEF LapInv, Copied, Threads, Filled
  <2>5. CASE PushWrite(p, 1)
    <3>1. pc'[p] = "write2" /\ slots'[ticket[p]] = <<item[p][1], slots[Slot(p)][2]>>
      BY <1>t, <1>u, <1>3, <2>5, FirstWrite DEF TypeOK
    <3> QED BY <1>1, <2>2, <2>4, <3>1 DEF Copied
  <2>6. CASE PushWrite(p, 2)
    <3>1. /\ pc'[p] = "publish" /\ pc[p] = "write2"
          /\ slots'[ticket[p]] = <<slots[ticket[p]][1], item[p][2]>>
      BY <1>t, <1>u, <1>3, <2>6, SecondWrite DEF TypeOK
    <3>2. slots[ticket[p]][1] = item[p][1] BY <3>1 DEF LapInv, Copied
    <3>3. item[p] \in Halves BY <1>t, <1>u DEF TypeOK
    <3>4. item[p] = <<item[p][1], item[p][2]>> BY <3>3, HalvesOf
    <3>5. slots'[ticket'[p]] = item'[p] BY <1>1, <3>1, <3>2, <3>4
    <3> QED BY <1>1, <2>2, <2>4, <3>1, <3>5 DEF Copied
  <2> QED BY <2>5, <2>6
<1>8. \A i \in Indices : (Filled(i)' <=> Filled(i)) /\ (Filled(i) => slots'[i] = slots[i])
  BY <1>1, <1>4, <1>5 DEF Filled
<1>9. Contents' BY <1>1, <1>2, <1>8 DEF LapInv, Contents, Returned, Threads
<1>10. Kept' = Kept BY <1>8 DEF Kept, Filled
<1>11. Delivered' BY <1>1, <1>10 DEF LapInv, Delivered, Returned
<1> QED BY <1>6, <1>7, <1>9, <1>11 DEF LapInv

(* Publishing fills one slot, with an item that was never accepted before. *)
LEMMA LapPublish ==
  ASSUME Base, FirstLap, LapInv, NEW p \in Producers, PushPublish(p)
  PROVE  LapInv'
<1> DEFINE s == ticket[p]
           x == item[p][1]
<1>t. TypeOK BY DEF Base
<1>u. p \in Threads /\ p \notin Consumers BY ThreadsAssumption DEF Threads
<1>1. /\ pc[p] = "publish" /\ pc' = [pc EXCEPT ![p] = "idle"]
      /\ sequence' = [sequence EXCEPT ![Slot(p)] = Slot(p) + 1] /\ accepted' = accepted \cup {x}
      /\ UNCHANGED <<head, tail, slots, ticket, item, popped>>
  BY DEF PushPublish, Goto
<1>2. /\ pc'[p] = "idle" /\ \A q \in Threads : q # p => pc'[q] = pc[q]
      /\ \A q \in Threads : Claimed(q)' <=> Claimed(q) /\ q # p
  BY <1>t, <1>u, <1>1 DEF TypeOK, Claimed
<1>3. Slot(p) = s /\ s \in Indices /\ s \in Nat BY <1>u, <1>1, LapSlot DEF LapInv, Claimed
<1>4. sequence'[s] = s + 1 /\ \A i \in Indices : i # s => sequence'[i] = sequence[i]
  BY <1>t, <1>1, <1>3 DEF TypeOK
<1>5. slots[s] = item[p] /\ item[p][1] = item[p][2] /\ x \notin accepted
  BY <1>1 DEF LapInv, Copied, Base, Handed
<1>6. /\ Filled(s)' /\ ~Filled(s) /\ \A i \in Indices \ {s} : Filled(i)' <=> Filled(i)
  BY <1>1, <1>3, <1>4 DEF Filled, LapInv, Tickets, Claimed
<1>7. Tickets'
  <2>1. \A q \in Producers \ {p} : Claimed(q) => ticket[q] # s /\ ticket[q] \in Indices
    BY <1>1, LapSlot DEF LapInv, Tickets, Claimed, Threads
  <2>2. ticket[p] < head BY <1>1 DEF LapInv, Tickets, Claimed
  <2>3. ~(s >= head) BY <1>t, <1>3, <2>2, MaxTicketAssumption DEF TypeOK
  <2>4. \A q \in Producers : Claimed(q)' =>
          /\ ticket'[q] < head' /\ sequence'[ticket'[q]] = ticket'[q]
          /\ \A r \in Producers \ {q} : Claimed(r)' => ticket'[r] # ticket'[q]
    BY <1>1, <1>2, <1>4, <2>1 DEF LapInv, Tickets, Threads
  <2>5. \A c \in Consumers : Claimed(c)' =>
          /\ ticket'[c] < tail'
          /\ \A d \in Consumers \ {c} : Claimed(d)' => ticket'[d] # ticket'[c]
    BY <1>1, <1>2 DEF LapInv, Tickets, Threads
  <2>6. \A i \in Indices : i >= head' => sequence'[i] = i
    BY <1>1, <1>4, <2>3 DEF LapInv, Tickets
  <2> QED BY <2>4, <2>5, <2>6 DEF Tickets
<1>8. Copied'
  <2>1. \A c \in Consumers : pc[c] \in {"read1", "read2", "release"} => Filled(ticket[c])'
    BY <1>1, <1>6, LapSlot DEF LapInv, Copied, Claimed, Threads, Filled
  <2> QED BY <1>u, <1>1, <1>2, <2>1 DEF LapInv, Copied, Threads
<1>9. Returned' = Returned /\ Returned \subseteq accepted BY <1>1 DEF Returned, LapInv, Delivered
<1>10. Contents'
  <2>1. \A i \in Indices \ {s} : Filled(i) => slots[i][1] \in accepted /\ slots[i][1] # x
    BY <1>5 DEF LapInv, Contents
  <2>2. \A i \in Indices : Filled(i)' =>
          /\ slots'[i][1] = slots'[i][2] /\ slots'[i][1] \in accepted'
          /\ \A j \in Indices \ {i} : Filled(j)' => slots'[j][1] # slots'[i][1]
    BY <1>1, <1>3, <1>5, <1>6, <2>1 DEF LapInv, Contents
  <2>3. x \notin Returned BY <1>5, <1>9
  <2>4. \A i \in Indices : Filled(i)' /\
           (i >= tail' \/ (\E c \in Consumers : Claimed(c)' /\ ticket'[c] = i))
           => slots'[i][1] \notin Returned'
    BY <1>1, <1>2, <1>5, <1>6, <1>9, <2>3 DEF LapInv, Contents, Threads
  <2> QED BY <2>2, <2>4 DEF Contents
<1>11. Delivered'
  <2>1. accepted' \subseteq Kept' \cup Returned'
    <3>1. \A i \in Indices : Filled(i)' => slots'[i][1] \in Kept' BY DEF Kept, Filled
    <3>2. x \in Kept' BY <1>1, <1>3, <1>5, <1>6, <3>1
    <3>3. Kept \subseteq Kept' BY <1>1, <1>3, <1>6, <3>1, Elements
    <3> QED BY <1>1, <1>9, <3>2, <3>3 DEF LapInv, Delivered
  <2> QED BY <1>1, <1>9, <2>1 DEF LapInv, Delivered
<1> QED BY <1>7, <1>8, <1>10, <1>11 DEF LapInv

(* The load that finds a slot filled lets its consumer in. *)
LEMMA LapPopEnter ==
  ASSUME Base, FirstLap, LapInv, NEW c \in Consumers, PopEnter(c)
  PROVE  LapInv'
<1>t. TypeOK BY DEF Base
<1>u. c \in Threads /\ c \notin Producers BY ThreadsAssumption DEF Threads
<1>1. /\ pc' = [pc EXCEPT ![c] = "read1"] /\ pc[c] = "wait" /\ SeqOf(c) = Slot(c) + 1
      /\ UNCHANGED <<head, tail, sequence, slots, ticket, item, accepted, popped>>
  BY DEF PopEnter, Goto, ringVars, Readable
<1>2. \A q \in Threads : Claimed(q)' <=> Claimed(q) BY <1>t, <1>1 DEF TypeOK, Claimed
<1>3. \A q \in Threads : q # c => pc'[q] = pc[q] BY <1>t, <1>1 DEF TypeOK
<1>4. pc'[c] = "read1" BY <1>t, <1>u, <1>1 DEF TypeOK
<1>5. Filled(ticket[c])
  <2>1. Slot(c) = ticket[c] BY <1>u, <1>1, LapSlot DEF LapInv, Claimed
  <2> QED BY <1>1, <2>1 DEF SeqOf, Filled
<1>6. Tickets' BY <1>1, <1>2 DEF LapInv, Tickets, Threads
<1>7. Copied' BY <1>u, <1>1, <1>3, <1>4, <1>5 DEF LapInv, Copied, Threads, Filled
<1>8. Contents' BY <1>1, <1>2 DEF LapInv, Contents, Filled, Returned, Threads
<1>9. Delivered' BY <1>1 DEF LapInv, Delivered, Kept, Returned
<1> QED BY <1>6, <1>7, <1>8, <1>9 DEF LapInv

(* A consumer copies from a slot that no producer is in. *)
LEMMA LapRead ==
  ASSUME Base, FirstLap, LapInv, NEW c \in Consumers, PopRead(c, 1) \/ PopRead(c, 2)
  PROVE  LapInv'
<1>t. TypeOK BY DEF Base
<1>u. c \in Threads /\ c \notin Producers BY ThreadsAssumption DEF Threads
<1>1. /\ pc[c] \in {"read1", "read2"} /\ pc'[c] \in {"read2", "release"}
      /\ UNCHANGED <<head, tail, sequence, slots, ticket, accepted, popped>>
      /\ \A q \in Threads : q # c => pc'[q] = pc[q] /\ item'[q] = item[q]
  BY <1>t, <1>u, FirstRead, SecondRead DEF TypeOK, ringVars
<1>2. \A q \in Threads : Claimed(q)' <=> Claimed(q) BY <1>1 DEF Claimed
<1>3. Slot(c) = ticket[c] /\ ticket[c] \in Indices BY <1>u, <1>1, LapSlot DEF LapInv, Claimed
<1>4. Filled(ticket[c]) BY <1>1 DEF LapInv, Copied
<1>5. Copied'
  <2>1. \A q \in Threads \ {c} : pc'[q] = pc[q] /\ item'[q] = item[q] BY <1>1
  <2>2. CASE PopRead(c, 1)
    <3>1. pc'[c] = "read2" /\ item'[c] = <<slots[ticket[c]][1], item[c][2]>>
      BY <1>t, <1>u, <1>3, <2>2, FirstRead DEF TypeOK
    <3>2. item'[c][1] = slots[ticket[c]][1] BY <3>1
    <3> QED BY <1>u, <1>1, <1>4, <2>1, <3>1, <3>2 DEF LapInv, Copied, Threads, Filled
  <2>3. CASE PopRead(c, 2)
    <3>1. /\ pc'[c] = "release" /\ pc[c] = "read2"
          /\ item'[c] = <<item[c][1], slots[ticket[c]][2]>>
      BY <1>t, <1>u, <1>3, <2>3, SecondRead DEF TypeOK
    <3>2. item[c][1] = slots[ticket[c]][1] BY <3>1 DEF LapInv, Copied
    <3>3. slots[ticket[c]] \in Halves BY <1>t, <1>3 DEF TypeOK
    <3>4. slots[ticket[c]] = <<slots[ticket[c]][1], slots[ticket[c]][2]>> BY <3>3, HalvesOf
    <3>5. item'[c] = slots[ticket[c]] BY <3>1, <3>2, <3>4
    <3> QED BY <1>u, <1>1, <1>4, <2>1, <3>1, <3>5 DEF LapInv, Copied, Threads, Filled
  <2> QED BY <2>2, <2>3
<1>6. Tickets' BY <1>1, <1>2 DEF LapInv, Tickets, Threads
<1>7. Contents' BY <1>1, <1>2 DEF LapInv, Contents, Filled, Returned, Threads
<1>8. Delivered' BY <1>1 DEF LapInv, Delivered, Kept, Returned
<1> QED BY <1>5, <1>6, <1>7, <1>8 DEF LapInv

(* Releasing a slot returns its item for the first time; with one slot only the sequence number *)
(* does not tell a popped slot from a filled one, and the ticket that is used up does.          *)
LEMMA LapRelease ==
  ASSUME Base, FirstLap, LapInv, NEW c \in Consumers, PopRelease(c)
  PROVE  LapInv'
<1> DEFINE s == ticket[c]
           x == item[c][1]
<1>t. TypeOK BY DEF Base
<1>u. c \in Threads /\ c \notin Producers BY ThreadsAssumption DEF Threads
<1>1. /\ pc[c] = "release" /\ pc' = [pc EXCEPT ![c] = "idle"]
      /\ sequence' = [sequence EXCEPT ![Slot(c)] = Slot(c) + Capacity]
      /\ popped' = Append(popped, item[c])
      /\ UNCHANGED <<head, tail, slots, ticket, item, accepted>>
  BY DEF PopRelease, Goto, released
<1>2. /\ pc'[c] = "idle" /\ \A q \in Threads : q # c => pc'[q] = pc[q]
      /\ \A q \in Threads : Claimed(q)' <=> Claimed(q) /\ q # c
  BY <1>t, <1>u, <1>1 DEF TypeOK, Claimed
<1>3. Slot(c) = s /\ s \in Indices /\ s \in Nat BY <1>u, <1>1, LapSlot DEF LapInv, Claimed
<1>4. \A i \in Indices : i # s => sequence'[i] = sequence[i] BY <1>t, <1>1, <1>3 DEF TypeOK
<1>5. Filled(s) /\ item[c] = slots[s] BY <1>1 DEF LapInv, Copied
<1>6. \A i \in Indices \ {s} : Filled(i)' <=> Filled(i) BY <1>4 DEF Filled
<1>7. /\ x = item[c][2] /\ x = slots[s][1] /\ x \in accepted /\ x \notin Returned
      /\ \A i \in Indices \ {s} : Filled(i) => slots[i][1] # x
  BY <1>1, <1>3, <1>5 DEF LapInv, Contents, Claimed
<1>8. sequence[s] = s + 1 /\ sequence[s] # s BY <1>3, <1>5 DEF Filled
<1>9. Tickets'
  <2>1. \A q \in Producers : Claimed(q) => ticket[q] # s /\ ticket[q] \in Indices
    BY <1>8, LapSlot DEF LapInv, Tickets, Threads
  <2>2. ~(s >= head) BY <1>3, <1>8 DEF LapInv, Tickets
  <2>3. \A q \in Producers : Claimed(q)' =>
          /\ ticket'[q] < head' /\ sequence'[ticket'[q]] = ticket'[q]
          /\ \A r \in Producers \ {q} : Claimed(r)' => ticket'[r] # ticket'[q]
    BY <1>1, <1>2, <1>4, <2>1 DEF LapInv, Tickets, Threads
  <2>4. \A d \in Consumers : Claimed(d)' =>
          /\ ticket'[d] < tail'
          /\ \A e \in Consumers \ {d} : Claimed(e)' => ticket'[e] # ticket'[d]
    BY <1>1, <1>2 DEF LapInv, Tickets, Threads
  <2>5. \A i \in Indices : i >= head' => sequence'[i] = i
    BY <1>1, <1>4, <2>2 DEF LapInv, Tickets
  <2> QED BY <2>3, <2>4, <2>5 DEF Tickets
<1>10. Copied'
  <2>1. \A d \in Consumers \ {c} : Claimed(d) => ticket[d] # s /\ ticket[d] \in Indices
    BY <1>1, LapSlot DEF LapInv, Tickets, Claimed, Threads
  <2>2. \A d \in Consumers \ {c} : pc[d] \in {"read1", "read2", "release"} => Filled(ticket[d])'
    BY <1>1, <1>6, <2>1 DEF LapInv, Copied, Claimed, Filled
  <2> QED BY <1>u, <1>1, <1>2, <2>2 DEF LapInv, Copied, Threads
<1>11. /\ Len(popped) \in Nat /\ Len(popped') = Len(popped) + 1
       /\ popped'[Len(popped) + 1] = item[c]
       /\ \A n \in 1..Len(popped) : popped'[n] = popped[n]
  BY <1>t, <1>u, <1>1 DEF TypeOK
<1>12. Returned' = Returned \cup {x}
  <2>1. \A y : y \in Returned' <=> \E n \in 1..Len(popped') : y = popped'[n][1] BY DEF Returned
  <2>2. 1..Len(popped') = 1..Len(popped) \cup {Len(popped) + 1} BY <1>11
  <2>3. \A y : y \in Returned' <=> y \in Returned \/ y = x BY <2>1, <2>2, <1>11, Elements
  <2> QED BY <2>3
<1>13. Contents'
  <2>1. ~(s >= tail) /\ \A d \in Consumers : Claimed(d)' => ticket'[d] # s
    <3>1. s < tail BY <1>1 DEF LapInv, Tickets, Claimed
    <3>2. tail \in Nat BY <1>t, MaxTicketAssumption DEF TypeOK
    <3>3. \A d \in Consumers : Claimed(d)' => ticket'[d] # s
      BY <1>1, <1>2 DEF LapInv, Tickets, Claimed, Threads
    <3> QED BY <1>3, <3>1, <3>2, <3>3
  <2>2. \A i \in Indices : Filled(i)' =>
          /\ slots'[i][1] = slots'[i][2] /\ slots'[i][1] \in accepted'
          /\ \A j \in Indices \ {i} : Filled(j)' => slots'[j][1] # slots'[i][1]
    BY <1>1, <1>3, <1>5, <1>6 DEF LapInv, Contents
  <2>3. \A i \in Indices : Filled(i)' /\
           (i >= tail' \/ (\E d \in Consumers : Claimed(d)' /\ ticket'[d] = i))
           => slots'[i][1] \notin Returned'
    BY <1>1, <1>2, <1>6, <1>7, <1>12, <2>1 DEF LapInv, Contents, Threads
  <2> QED BY <2>2, <2>3 DEF Contents
<1>14. Delivered'
  <2>1. Returned' \subseteq accepted' BY <1>1, <1>7, <1>12 DEF LapInv, Delivered
  <2>2. accepted' \subseteq Kept' \cup Returned'
    <3>1. \A i \in Indices : Filled(i)' => slots'[i][1] \in Kept' BY DEF Kept, Filled
    <3>2. Kept \subseteq Kept' \cup {x} BY <1>1, <1>6, <1>7, <3>1, Elements
    <3> QED BY <1>1, <1>12, <3>2 DEF LapInv, Delivered
  <2>3. \A n \in 1..Len(popped) : popped[n][1] # x BY <1>7, Elements
  <2>4. \A n \in 1..Len(popped') : n \in 1..Len(popped) \/ n = Len(popped) + 1 BY <1>11
  <2>5. \A n \in 1..Len(popped') : popped'[n][1] = popped'[n][2]
    BY <1>7, <1>11, <2>4 DEF LapInv, Delivered
  <2>6. \A n, m \in 1..Len(popped') : m < n => popped'[m][1] # popped'[n][1]
    <3> TAKE n, m \in 1..Len(popped')
    <3> HAVE m < n
    <3>1. m \in 1..Len(popped) BY <1>11
    <3>2. CASE n \in 1..Len(popped) BY <1>11, <3>1, <3>2 DEF LapInv, Delivered
    <3>3. CASE n = Len(popped) + 1 BY <1>11, <2>3, <3>1, <3>3
    <3> QED BY <2>4, <3>2, <3>3
  <2> QED BY <2>1, <2>2, <2>5, <2>6 DEF Delivered
<1> QED BY <1>9, <1>10, <1>13, <1>14 DEF LapInv

(* No step leaves the first lap and comes back, and inside it every step keeps the invariant. *)
LEMMA LapNext == Base /\ (FirstLap => LapInv) /\ [Next]_vars => (FirstLap => LapInv)'
<1> SUFFICES ASSUME Base, FirstLap => LapInv, [Next]_vars, FirstLap' PROVE LapInv'
  OBVIOUS
<1>t. TypeOK BY DEF Base
<1>u. \A t \in Producers \cup Consumers : t \in Threads BY DEF Threads
<1>v. item \in [Threads -> Halves] BY <1>t DEF TypeOK
<1>1. FirstLap /\ LapInv
  <2>1. head' = head \/ head' = head + 1
    BY DEF Next, PushStep, PopStep, vars, ringVars, CallPush, PushClaim, PushEnter, PushRefused,
           PushWrite, PushPublish, CallPop, PopClaim, PopEnter, PopNone, PopSpin, PopRead, PopRelease
  <2>2. tail' = tail \/ tail' = tail + 1
    BY DEF Next, PushStep, PopStep, vars, ringVars, CallPush, PushClaim, PushEnter, PushRefused,
           PushWrite, PushPublish, CallPop, PopClaim, PopEnter, PopNone, PopSpin, PopRead, PopRelease
  <2>3. head \in Nat /\ tail \in Nat BY <1>t, MaxTicketAssumption DEF TypeOK
  <2> QED BY <2>1, <2>2, <2>3, CapacityAssumption DEF FirstLap
<1>2. ASSUME NEW t \in Threads, NEW label \in {"idle", "claim"}, NEW it,
             pc' = [pc EXCEPT ![t] = label], item' = [item EXCEPT ![t] = it],
             UNCHANGED <<head, tail, sequence, slots, ticket, accepted, popped>>
      PROVE  LapInv'
  BY <1>1, <1>2, <1>t, LapQuiet
<1>3. ASSUME NEW p \in Producers, NEW d \in Data, NEW b \in BOOLEAN, CallPush(p, d, b) PROVE LapInv'
  BY <1>2, <1>3, <1>u DEF CallPush, Goto, ringVars
<1>4. ASSUME NEW t \in Threads, Retry(t),
             UNCHANGED <<ringVars, ticket, item, blocking, offered, accepted, popped>>
      PROVE  LapInv'
  <2>1. PICK label \in {"idle", "claim"} : pc' = [pc EXCEPT ![t] = label]
    BY <1>4 DEF Retry, Goto
  <2>2. item' = [item EXCEPT ![t] = item[t]] BY <1>4, <1>v
  <2> QED BY <1>2, <1>4, <2>1, <2>2 DEF ringVars
<1>5. ASSUME NEW c \in Consumers, NEW b \in BOOLEAN, CallPop(c, b) PROVE LapInv'
  <2>1. item' = [item EXCEPT ![c] = item[c]] BY <1>5, <1>u, <1>v DEF CallPop
  <2> QED BY <1>2, <1>5, <1>u, <2>1 DEF CallPop, Goto, ringVars
<1>6. ASSUME NEW p \in Producers, PushStep(p) PROVE LapInv'
  BY <1>1, <1>4, <1>6, <1>u, LapPushClaim, LapPushEnter, LapWrite, LapPublish
     DEF PushStep, PushRefused
<1>7. ASSUME UNCHANGED vars PROVE LapInv'
  BY <1>1, <1>7 DEF vars, ringVars, callVars, LapInv, Tickets, Copied, Contents, Delivered, Claimed,
     Filled, Kept, Returned
<1>8. ASSUME NEW c \in Consumers, PopStep(c) PROVE LapInv'
  BY <1>1, <1>4, <1>7, <1>8, <1>u, LapPopClaim, LapPopEnter, LapRead, LapRelease
     DEF PopStep, PopNone, PopSpin
<1> QED BY <1>3, <1>5, <1>6, <1>7, <1>8 DEF Next

(* The types of the ring, its threads and its histories. *)
THEOREM TypeCorrect == Spec => []TypeOK
<1>1. Spec => []Base BY BaseInit, BaseNext, PTL DEF Spec
<1>2. Base => TypeOK BY DEF Base
<1> QED BY <1>1, <1>2, PTL

(* In the first lap of its slots the ring is a queue: try_pop returns every item whole and once, *)
(* and what try_push accepted is in the ring or was returned.                                    *)
THEOREM FirstLapIsAQueue == Spec => []FirstLapExactlyOnce
<1>1. Spec => [](Base /\ (FirstLap => LapInv))
  <2>1. Init => Base /\ (FirstLap => LapInv) BY BaseInit, LapInit
  <2>2. Base /\ (FirstLap => LapInv) /\ [Next]_vars => Base' /\ (FirstLap => LapInv)'
    BY BaseNext, LapNext
  <2> QED BY <2>1, <2>2, PTL DEF Spec
<1>2. Base /\ (FirstLap => LapInv) => FirstLapExactlyOnce
  <2> SUFFICES ASSUME Base, FirstLap, LapInv
               PROVE  /\ \A n \in 1..Len(popped) :
                           /\ popped[n][1] = popped[n][2]
                           /\ \A m \in 1..n - 1 : popped[m][1] # popped[n][1]
                      /\ accepted \subseteq Kept \cup Returned
    BY DEF FirstLap, FirstLapExactlyOnce
  <2>1. Len(popped) \in Nat BY DEF Base, TypeOK
  <2>2. \A n \in 1..Len(popped) : \A m \in 1..n - 1 : m \in 1..Len(popped) /\ m < n BY <2>1
  <2> QED BY <2>2 DEF LapInv, Delivered
<1> QED BY <1>1, <1>2, PTL
=============================================================================
