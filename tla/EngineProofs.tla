---------------------------- MODULE EngineProofs ----------------------------
(***************************************************************************)
(* What the shared-memory engine promises for any clients, descriptors,    *)
(* rings, commands, keys and sizes of table and arena.  In this order: the *)
(* counter of sessions agrees with the registry; the arena never has a     *)
(* block in two uses, so that the table keeps what it stored; a session's  *)
(* responses are its own and in order; a client does not sleep over one.   *)
(* Each part rests on the invariants of the parts before it.               *)
(***************************************************************************)
EXTENDS Engine, FiniteSetTheorems, WellFoundedInduction, TLAPS

(* The least element of a set of numbers is one of them. *)
LEMMA MinElement ==
  ASSUME NEW S, S \subseteq Nat, S # {}
  PROVE  Min(S) \in S /\ \A x \in S : Min(S) <= x
<1> DEFINE R == OpToRel(<, Nat)
<1>1. IsWellFoundedOn(R, Nat) BY NatLessThanWellFounded
<1>2. \A x, y \in Nat : x < y => <<x, y>> \in R BY DEF OpToRel
<1> HIDE DEF R
<1>3. PICK x \in S : \A y \in S : ~(<<y, x>> \in R) BY <1>1, WFMin
<1>4. ASSUME NEW y \in S PROVE x =< y
  <2>1. x \in Nat /\ y \in Nat OBVIOUS
  <2>2. ~(y < x) BY <1>2, <1>3, <2>1
  <2> QED BY <2>1, <2>2
<1> QED BY <1>4 DEF Min

-----------------------------------------------------------------------------
SlotFields == {"id", "cmd", "resp", "pending", "eventfd", "recent"}
ClientFields == {"pc", "id", "slot", "rings", "undo", "inherited", "sent", "got"}

(* The descriptors and the counters. *)
Registry ==
  /\ DOMAIN slots = 1..MaxSessions
  /\ \A i \in 1..MaxSessions : DOMAIN slots[i] = SlotFields /\ slots[i].id \in Nat
  /\ next_session_id \in Nat \ {0} /\ active_sessions \in 0..CounterRange - 1

(* A call knows the descriptor it writes, and the id of a session that was given one. *)
Caller(r) ==
  /\ DOMAIN r = ClientFields /\ r.id \in Nat
  /\ r.pc \in {"write", "touch", "drop"} => r.slot \in 1..MaxSessions
  /\ r.pc \notin {"out", "find", "write"} => r.id # 0

Callers == DOMAIN client = Clients /\ \A c \in Clients : Caller(client[c])

(* The sweep knows the descriptor it clears and what it has cleared. *)
Sweepers == [pc : {"idle", "look", "drop"}, at : Nat, id : Nat, cleaned : Nat]
Sweeping ==
  /\ sweeper \in Sweepers
  /\ sweeper.pc = "drop" => sweeper.at \in 1..MaxSessions /\ sweeper.id # 0
  /\ sweeper.pc = "look" => sweeper.at # 0
  /\ sweeper.pc = "idle" => sweeper.cleaned = 0

Base == Registry /\ Callers /\ Sweeping

(* Sessions written and not yet counted, removed and not yet discounted. *)
InCount(r) == r.pc \in {"touch", "count"}
InDiscount(r) == r.pc = "discount"
Used == {i \in 1..MaxSessions : slots[i].id # 0}
Uncounted == {c \in Clients : InCount(client[c])}
Removed == {c \in Clients : InDiscount(client[c])}
Due == Cardinality(Used) + Cardinality(Removed) + sweeper.cleaned - Cardinality(Uncounted)

(* The counter is the number of sessions, less what is still to be counted, plus what is     *)
(* still to be discounted, unless two calls met on one descriptor.                           *)
Balance == crossed \/ active_sessions = Due % CounterRange

-----------------------------------------------------------------------------
(* Steps that leave the ids of all descriptors as they are. *)
IdsKept ==
  /\ DOMAIN slots' = 1..MaxSessions
  /\ \A i \in 1..MaxSessions : DOMAIN slots'[i] = SlotFields /\ slots'[i].id = slots[i].id

Moves(c) ==
  /\ DOMAIN client' = Clients /\ \A d \in Clients \ {c} : client'[d] = client[d]
  /\ Caller(client'[c])

Quiet == IdsKept /\ UNCHANGED <<next_session_id, active_sessions, sweeper, crossed>>

QuietMove(c) ==
  /\ Quiet /\ Moves(c)
  /\ InCount(client'[c]) <=> InCount(client[c])
  /\ InDiscount(client'[c]) <=> InDiscount(client[c])

(* A call that replaces its record. *)
LEMMA Replaces ==
  ASSUME Callers, NEW c \in Clients, NEW r, Caller(r), client' = [client EXCEPT ![c] = r]
  PROVE  Moves(c) /\ client'[c] = r
BY DEF Callers, Moves

(* A call that goes on with another label. *)
LEMMA GoesOn ==
  ASSUME Callers, NEW c \in Clients, NEW l, Goes(c, l),
         l \in {"write", "touch", "drop"} => client[c].slot \in 1..MaxSessions,
         l \notin {"out", "find", "write"} => client[c].id # 0
  PROVE  /\ Moves(c) /\ client'[c].pc = l /\ client'[c].id = client[c].id
         /\ client'[c].slot = client[c].slot
<1> DEFINE r == [client[c] EXCEPT !.pc = l]
<1>1. Caller(client[c]) BY DEF Callers
<1>2. Caller(r) /\ r.pc = l /\ r.id = client[c].id /\ r.slot = client[c].slot
  BY <1>1 DEF Caller, ClientFields
<1>3. client' = [client EXCEPT ![c] = r] BY DEF Goes
<1> HIDE DEF r
<1> QED BY <1>2, <1>3, Replaces

(* Nobody is in the registry. *)
LEMMA OutsideCaller == Caller(Outside) /\ Outside.pc = "out"
BY DEF Outside, Caller, ClientFields

(* A descriptor changed in a field that is not its id. *)
LEMMA SlotKept ==
  ASSUME Registry, NEW i, NEW d, slots' = [slots EXCEPT ![i] = d],
         i \in 1..MaxSessions => DOMAIN d = SlotFields /\ d.id = slots[i].id
  PROVE  IdsKept
BY DEF Registry, IdsKept

LEMMA SlotsSame == ASSUME Registry, UNCHANGED slots PROVE IdsKept
BY DEF Registry, IdsKept

-----------------------------------------------------------------------------
(* attach_session *)
LEMMA CreateQuiet == ASSUME Base, NEW c \in Clients, create_session(c) PROVE QuietMove(c)
<1> DEFINE r == [Outside EXCEPT !.pc = "find"]
<1>1. client[c].pc = "out" /\ client' = [client EXCEPT ![c] = r] BY DEF create_session, At
<1>2. Caller(r) /\ r.pc = "find" BY DEF Outside, Caller, ClientFields
<1> HIDE DEF r
<1>3. Moves(c) /\ client'[c] = r BY <1>1, <1>2, Replaces DEF Base
<1>4. Quiet BY SlotsSame DEF Base, create_session, Quiet, registry, history
<1> QED BY <1>1, <1>2, <1>3, <1>4 DEF QuietMove, InCount, InDiscount

LEMMA FindQuiet == ASSUME Base, NEW c \in Clients, find_free_slot(c) PROVE QuietMove(c)
<1> DEFINE unused == get_session(0)
           s == [client[c] EXCEPT !.pc = "write", !.slot = Min(unused)]
           r == IF unused = {} THEN Outside ELSE s
<1>1. client[c].pc = "find" /\ client' = [client EXCEPT ![c] = r] BY DEF find_free_slot, At
<1>2. Caller(client[c]) BY DEF Base, Callers
<1>3. unused # {} => Min(unused) \in 1..MaxSessions
  <2>1. unused \subseteq 1..MaxSessions BY DEF get_session, Base, Registry
  <2>2. unused \subseteq Nat BY <2>1
  <2> HIDE DEF unused
  <2> QED BY <2>1, <2>2, MinElement
<1>4. unused # {} => Caller(s) /\ s.pc = "write" 
  <2> HIDE DEF unused
  <2> QED BY <1>2, <1>3 DEF Caller, ClientFields
<1>5. Caller(r) /\ r.pc \in {"out", "write"} BY <1>4, OutsideCaller
<1> HIDE DEF r
<1>6. Moves(c) /\ client'[c] = r BY <1>1, <1>5, Replaces DEF Base
<1>7. Quiet BY SlotsSame DEF Base, find_free_slot, Quiet, registry, history
<1> QED BY <1>1, <1>5, <1>6, <1>7 DEF QuietMove, InCount, InDiscount

LEMMA OpenQuiet ==
  ASSUME Base, NEW c \in Clients, NEW fails \in BOOLEAN, OpenEventfd(c, fails)
  PROVE  QuietMove(c)
<1> DEFINE i == client[c].slot
           d == [touched(slots[i]) EXCEPT !.eventfd = IF fails THEN -1 ELSE 0]
<1>1. client[c].pc = "touch" /\ Goes(c, "count") BY DEF OpenEventfd, At
<1>2. Caller(client[c]) BY DEF Base, Callers
<1>3. client[c].id # 0 /\ i \in 1..MaxSessions BY <1>1, <1>2 DEF Caller
<1>4. Moves(c) /\ client'[c].pc = "count" BY <1>1, <1>3, GoesOn DEF Base
<1>5. slots' = [slots EXCEPT ![i] = d] BY DEF OpenEventfd
<1>6. DOMAIN d = SlotFields /\ d.id = slots[i].id
  BY <1>3 DEF Base, Registry, SlotFields, touched
<1> HIDE DEF d
<1>7. IdsKept BY <1>5, <1>6, SlotKept DEF Base
<1>8. Quiet BY <1>7 DEF OpenEventfd, Quiet, history
<1> QED BY <1>1, <1>4, <1>8 DEF QuietMove, InCount, InDiscount

LEMMA AllocateQuiet == ASSUME Base, NEW c \in Clients, AllocateRings(c) PROVE QuietMove(c)
<1>1. PICK got, rings : client' = [client EXCEPT ![c].pc = IF got THEN "publish" ELSE "remove",
                                                 ![c].undo = ~got, ![c].rings = rings]
  BY DEF AllocateRings
<1> DEFINE r == [client[c] EXCEPT !.pc = IF got THEN "publish" ELSE "remove",
                                  !.undo = ~got, !.rings = rings]
<1>2. client[c].pc = "allocate" BY DEF AllocateRings, At
<1>3. Caller(client[c]) BY DEF Base, Callers
<1>4. Caller(r) /\ r.pc \in {"publish", "remove"} BY <1>2, <1>3 DEF Caller, ClientFields
<1>5. client' = [client EXCEPT ![c] = r] BY <1>1
<1> HIDE DEF r
<1>6. Moves(c) /\ client'[c] = r BY <1>4, <1>5, Replaces DEF Base
<1>7. Quiet BY SlotsSame DEF Base, AllocateRings, Quiet, registry, history
<1> QED BY <1>2, <1>4, <1>6, <1>7 DEF QuietMove, InCount, InDiscount

LEMMA PublishQuiet == ASSUME Base, NEW c \in Clients, PublishRings(c) PROVE QuietMove(c)
<1> DEFINE r == client[c].rings
<1>1. client[c].pc = "publish" /\ Goes(c, "in") BY DEF PublishRings, At
<1>2. client[c].id # 0 BY <1>1 DEF Base, Callers, Caller
<1>3. Moves(c) /\ client'[c].pc = "in" BY <1>1, <1>2, GoesOn DEF Base
<1>4. slots' = [i \in DOMAIN slots |->
                  IF i \in get_session(client[c].id)
                  THEN [touched(slots[i]) EXCEPT !.cmd = r[1], !.resp = r[2]] ELSE slots[i]]
  BY DEF PublishRings
<1>5. IdsKept BY <1>4 DEF Base, Registry, SlotFields, touched, IdsKept
<1>6. Quiet BY <1>5 DEF PublishRings, Quiet, history
<1> QED BY <1>1, <1>3, <1>6 DEF QuietMove, InCount, InDiscount

-----------------------------------------------------------------------------
(* detach_session *)
LEMMA DetachQuiet == ASSUME Base, NEW c \in Clients, detach_session(c) PROVE QuietMove(c)
<1> DEFINE found == get_session(client[c].id)
           s == [client[c] EXCEPT !.pc = "drop", !.slot = Min(found),
                                  !.rings = <<slots[Min(found)].cmd, slots[Min(found)].resp>>]
           r == IF found = {} THEN Outside ELSE s
<1>1. client[c].pc \in {"in", "remove"} /\ client' = [client EXCEPT ![c] = r]
  BY DEF detach_session, At
<1>2. Caller(client[c]) BY DEF Base, Callers
<1>3. found # {} => Min(found) \in 1..MaxSessions
  <2>1. found \subseteq 1..MaxSessions BY DEF get_session, Base, Registry
  <2>2. found \subseteq Nat BY <2>1
  <2> HIDE DEF found
  <2> QED BY <2>1, <2>2, MinElement
<1>4. found # {} => Caller(s) /\ s.pc = "drop"
  <2> HIDE DEF found
  <2> QED BY <1>1, <1>2, <1>3 DEF Caller, ClientFields
<1>5. Caller(r) /\ r.pc \in {"out", "drop"} BY <1>4, OutsideCaller
<1> HIDE DEF r
<1>6. Moves(c) /\ client'[c] = r BY <1>1, <1>5, Replaces DEF Base
<1>7. Quiet BY SlotsSame DEF Base, detach_session, Quiet, registry, history
<1> QED BY <1>1, <1>5, <1>6, <1>7 DEF QuietMove, InCount, InDiscount

LEMMA FreeQuiet == ASSUME Base, NEW c \in Clients, FreeRings(c) PROVE QuietMove(c)
<1>1. client[c].pc = "free" /\ client' = [client EXCEPT ![c] = Outside] BY DEF FreeRings, At
<1>2. Moves(c) /\ client'[c] = Outside BY <1>1, OutsideCaller, Replaces DEF Base
<1>3. Quiet BY SlotsSame DEF Base, FreeRings, Quiet, registry
<1> QED BY <1>1, <1>2, <1>3, OutsideCaller DEF QuietMove, InCount, InDiscount

-----------------------------------------------------------------------------
(* What a client does with its session. *)
LEMMA UseQuiet ==
  ASSUME Base, NEW c \in Clients,
         (\E command \in Requests : PushCommand(c, command)) \/ PopResponse(c)
  PROVE  QuietMove(c)
<1>1. client[c].pc = "in" BY DEF PushCommand, PopResponse, At
<1>2. Caller(client[c]) BY DEF Base, Callers
<1>3. \E r : client' = [client EXCEPT ![c] = r] /\ Caller(r) /\ r.pc = "in"
  <2>1. ASSUME NEW command \in Requests, PushCommand(c, command)
        PROVE  \E r : client' = [client EXCEPT ![c] = r] /\ Caller(r) /\ r.pc = "in"
    <3> DEFINE r == [client[c] EXCEPT !.sent = @ + 1]
    <3>1. client' = [client EXCEPT ![c] = r] BY <2>1 DEF PushCommand
    <3>2. Caller(r) /\ r.pc = "in" BY <1>1, <1>2 DEF Caller, ClientFields
    <3> QED BY <3>1, <3>2
  <2>2. ASSUME PopResponse(c)
        PROVE  \E r : client' = [client EXCEPT ![c] = r] /\ Caller(r) /\ r.pc = "in"
    <3>1. PICK x : client' = [client EXCEPT ![c].got = Append(@, x)] BY <2>2 DEF PopResponse
    <3> DEFINE r == [client[c] EXCEPT !.got = Append(@, x)]
    <3>2. client' = [client EXCEPT ![c] = r] BY <3>1
    <3>3. Caller(r) /\ r.pc = "in" BY <1>1, <1>2 DEF Caller, ClientFields
    <3> QED BY <3>2, <3>3
  <2> QED BY <2>1, <2>2
<1>4. PICK r : client' = [client EXCEPT ![c] = r] /\ Caller(r) /\ r.pc = "in" BY <1>3
<1>5. Moves(c) /\ client'[c] = r BY <1>4, Replaces DEF Base
<1>6. Quiet BY SlotsSame DEF Base, PushCommand, PopResponse, Quiet, registry, history
<1> QED BY <1>1, <1>4, <1>5, <1>6 DEF QuietMove, InCount, InDiscount

LEMMA SleepQuiet == ASSUME Base, NEW c \in Clients, Sleep(c) PROVE QuietMove(c)
<1>1. client[c].pc = "in" /\ Goes(c, "asleep") BY DEF Sleep, At
<1>2. client[c].id # 0 BY <1>1 DEF Base, Callers, Caller
<1>3. Moves(c) /\ client'[c].pc = "asleep" BY <1>1, <1>2, GoesOn DEF Base
<1>4. Quiet BY SlotsSame DEF Base, Sleep, Quiet, registry, history
<1> QED BY <1>1, <1>3, <1>4 DEF QuietMove, InCount, InDiscount

LEMMA WakeQuiet == ASSUME Base, NEW c \in Clients, Wake(c) PROVE QuietMove(c)
<1>1. client[c].pc = "asleep" /\ Goes(c, "awake") BY DEF Wake, At
<1>2. client[c].id # 0 BY <1>1 DEF Base, Callers, Caller
<1>3. Moves(c) /\ client'[c].pc = "awake" BY <1>1, <1>2, GoesOn DEF Base
<1>4. PICK i \in get_session(client[c].id) : slots' = [slots EXCEPT ![i].eventfd = 0] BY DEF Wake
<1>5. i \in 1..MaxSessions BY DEF get_session, Base, Registry
<1> DEFINE d == [slots[i] EXCEPT !.eventfd = 0]
<1>6. DOMAIN d = SlotFields /\ d.id = slots[i].id BY <1>5 DEF Base, Registry, SlotFields
<1>7. slots' = [slots EXCEPT ![i] = d] BY <1>4
<1> HIDE DEF d
<1>8. IdsKept BY <1>6, <1>7, SlotKept DEF Base
<1>9. Quiet BY <1>8 DEF Wake, Quiet, history
<1> QED BY <1>1, <1>3, <1>9 DEF QuietMove, InCount, InDiscount

LEMMA AckQuiet == ASSUME Base, NEW c \in Clients, ack_notifications(c) PROVE QuietMove(c)
<1> DEFINE r == [client[c] EXCEPT !.pc = "in", !.inherited = FALSE]
<1>1. client[c].pc = "awake" BY DEF ack_notifications, At
<1>2. Caller(client[c]) BY DEF Base, Callers
<1>3. Caller(r) /\ r.pc = "in" BY <1>1, <1>2 DEF Caller, ClientFields
<1>4. client' = [client EXCEPT ![c] = r] BY DEF ack_notifications
<1> HIDE DEF r
<1>5. Moves(c) /\ client'[c] = r BY <1>3, <1>4, Replaces DEF Base
<1>6. slots' = [i \in DOMAIN slots |->
                  IF i \in get_session(client[c].id)
                  THEN [touched(slots[i]) EXCEPT !.pending = 0] ELSE slots[i]]
  BY DEF ack_notifications
<1>7. IdsKept BY <1>6 DEF Base, Registry, SlotFields, touched, IdsKept
<1>8. Quiet BY <1>7 DEF ack_notifications, Quiet, history
<1> QED BY <1>1, <1>3, <1>5, <1>8 DEF QuietMove, InCount, InDiscount

-----------------------------------------------------------------------------
(* The serving thread, the clock and direct calls do not touch ids, calls and counters. *)
Still == Quiet /\ UNCHANGED client

LEMMA NotifyStill == ASSUME Base, Notify PROVE Still
<1> DEFINE i == Min(get_session(server.id))
           first == first_pending(slots[i].pending)
           d == [IF first THEN slots[i] ELSE touched(slots[i])
                 EXCEPT !.pending = slots[i].pending + 1]
<1>1. UNCHANGED slots \/ slots' = [slots EXCEPT ![i] = d] BY DEF Notify
<1>2. i \in 1..MaxSessions => DOMAIN d = SlotFields /\ d.id = slots[i].id
  <2> HIDE DEF i, first
  <2> QED BY DEF Base, Registry, SlotFields, touched
<1> HIDE DEF d, i
<1>3. IdsKept BY <1>1, <1>2, SlotKept, SlotsSame DEF Base
<1> QED BY <1>3 DEF Notify, Still, Quiet, history

LEMMA SignalStill == ASSUME Base, Signal PROVE Still
<1> DEFINE i == server.ref
<1>p. PICK v : slots' = [slots EXCEPT ![i] = [touched(slots[i]) EXCEPT !.eventfd = v]] BY DEF Signal
<1> DEFINE d == [touched(slots[i]) EXCEPT !.eventfd = v]
<1>1. slots' = [slots EXCEPT ![i] = d] BY <1>p
<1>2. i \in 1..MaxSessions => DOMAIN d = SlotFields /\ d.id = slots[i].id
  BY DEF Base, Registry, SlotFields, touched
<1> HIDE DEF d, i
<1>3. IdsKept BY <1>1, <1>2, SlotKept DEF Base
<1> QED BY <1>3 DEF Signal, Still, Quiet, history

LEMMA ClockStill == ASSUME Base, TimePasses PROVE Still
<1>1. slots' = [i \in DOMAIN slots |-> [slots[i] EXCEPT !.recent = FALSE]] BY DEF TimePasses
<1>2. IdsKept BY <1>1 DEF Base, Registry, SlotFields, IdsKept
<1> QED BY <1>2 DEF TimePasses, Still, Quiet, history

LEMMA ServerStill ==
  ASSUME Base, Direct \/ ServerStep \/ Stray \/ TimePasses PROVE Still
<1>1. CASE Direct BY <1>1, SlotsSame DEF Base, Direct, Still, Quiet, registry, history
<1>2. CASE Stray BY <1>2, SlotsSame DEF Base, Stray, Still, Quiet, registry
<1>3. CASE TimePasses BY <1>3, ClockStill
<1>4. CASE Notify BY <1>4, NotifyStill
<1>5. CASE Signal BY <1>5, SignalStill
<1>6. CASE \E i \in DOMAIN slots : get_cmd_ring(i)
  BY <1>6, SlotsSame DEF Base, get_cmd_ring, Still, Quiet, registry
<1>7. CASE try_get_command
  BY <1>7, SlotsSame DEF Base, try_get_command, Still, Quiet, registry, history
<1>8. CASE process_command
  BY <1>8, SlotsSame DEF Base, process_command, Still, Quiet, registry, history
<1>9. CASE AllocateReply
  BY <1>9, SlotsSame DEF Base, AllocateReply, Still, Quiet, registry, history
<1>10. CASE get_resp_ring
  BY <1>10, SlotsSame DEF Base, get_resp_ring, Still, Quiet, registry, history
<1>11. CASE PushReply
  BY <1>11, SlotsSame DEF Base, PushReply, Still, Quiet, registry, history
<1> QED BY <1>1, <1>2, <1>3, <1>4, <1>5, <1>6, <1>7, <1>8, <1>9, <1>10, <1>11 DEF ServerStep

-----------------------------------------------------------------------------
(* What is counted is finite. *)
LEMMA CountFinite ==
  /\ IsFiniteSet(Used) /\ Cardinality(Used) \in 0..MaxSessions
  /\ IsFiniteSet(Uncounted) /\ Cardinality(Uncounted) \in Nat
  /\ IsFiniteSet(Removed) /\ Cardinality(Removed) \in Nat
<1>1. MaxSessions \in Nat /\ IsFiniteSet(Clients) BY EngineAssumption
<1>2. IsFiniteSet(1..MaxSessions) /\ Cardinality(1..MaxSessions) = MaxSessions
  BY <1>1, FS_Interval
<1>3. Used \in SUBSET (1..MaxSessions) BY DEF Used
<1>4. Uncounted \in SUBSET Clients /\ Removed \in SUBSET Clients BY DEF Uncounted, Removed
<1>5. IsFiniteSet(Used) /\ Cardinality(Used) <= MaxSessions BY <1>2, <1>3, FS_Subset
<1>6. IsFiniteSet(Uncounted) /\ IsFiniteSet(Removed) BY <1>1, <1>4, FS_Subset
<1> QED BY <1>1, <1>5, <1>6, FS_CardinalityType

(* A step that keeps ids and counters, and no call enters or leaves the counting. *)
LEMMA QuietKept ==
  ASSUME Base, Balance, NEW c \in Clients, QuietMove(c)
  PROVE  Base' /\ Balance'
<1>1. Registry' BY DEF Base, Registry, QuietMove, Quiet, IdsKept
<1>2. Callers' BY DEF Base, Callers, QuietMove, Moves
<1>3. Sweeping' BY DEF Base, Sweeping, QuietMove, Quiet
<1>4. Used' = Used BY DEF Used, QuietMove, Quiet, IdsKept
<1>5. Uncounted' = Uncounted BY DEF Uncounted, QuietMove, Moves
<1>6. Removed' = Removed BY DEF Removed, QuietMove, Moves
<1>7. Due' = Due BY <1>4, <1>5, <1>6 DEF Due, QuietMove, Quiet
<1> QED BY <1>1, <1>2, <1>3, <1>7 DEF Base, Balance, QuietMove, Quiet

LEMMA StillKept == ASSUME Base, Balance, Still PROVE Base' /\ Balance'
<1>1. Registry' BY DEF Base, Registry, Still, Quiet, IdsKept
<1>2. Callers' BY DEF Base, Callers, Still
<1>3. Sweeping' BY DEF Base, Sweeping, Still, Quiet
<1>4. Used' = Used BY DEF Used, Still, Quiet, IdsKept
<1>5. Uncounted' = Uncounted /\ Removed' = Removed BY DEF Uncounted, Removed, Still
<1>6. Due' = Due BY <1>4, <1>5 DEF Due, Still, Quiet
<1> QED BY <1>1, <1>2, <1>3, <1>6 DEF Base, Balance, Still, Quiet

-----------------------------------------------------------------------------
(* Arithmetic of a counter that wraps. *)
LEMMA Division ==
  ASSUME NEW m \in Nat \ {0}, NEW x \in Int
  PROVE  x = m * (x \div m) + (x % m) /\ x % m \in 0..m - 1 /\ x \div m \in Int
OBVIOUS

(* A number that is a remainder plus a multiple leaves that remainder. *)
LEMMA Remainder ==
  ASSUME NEW m \in Nat \ {0}, NEW x \in Int, NEW q \in Int, NEW r \in 0..m - 1, x = m * q + r
  PROVE  x % m = r
<1>1. x = m * (x \div m) + (x % m) /\ x % m \in 0..m - 1 /\ x \div m \in Int BY Division
<1>2. \A k \in Nat : k >= 1 => m * k >= m OBVIOUS
<1>3. CASE q = x \div m BY <1>1, <1>3
<1>4. CASE q > x \div m
  <2>1. q - (x \div m) \in Nat /\ q - (x \div m) >= 1 BY <1>1, <1>4
  <2>2. m * (q - (x \div m)) >= m BY <1>2, <2>1
  <2>3. m * (q - (x \div m)) = (x % m) - r BY <1>1
  <2> QED BY <1>1, <2>2, <2>3
<1>5. CASE q < x \div m
  <2>1. (x \div m) - q \in Nat /\ (x \div m) - q >= 1 BY <1>1, <1>5
  <2>2. m * ((x \div m) - q) >= m BY <1>2, <2>1
  <2>3. m * ((x \div m) - q) = r - (x % m) BY <1>1
  <2> QED BY <1>1, <2>2, <2>3
<1> QED BY <1>1, <1>3, <1>4, <1>5

(* Adding to a remainder. *)
LEMMA AddModulo ==
  ASSUME NEW m \in Nat \ {0}, NEW x \in Int, NEW d \in Int
  PROVE  ((x % m) + d) % m = (x + d) % m
<1> DEFINE y == (x % m) + d
<1>1. x = m * (x \div m) + (x % m) /\ x % m \in 0..m - 1 /\ x \div m \in Int BY Division
<1>2. y \in Int BY <1>1
<1> HIDE DEF y
<1>3. y = m * (y \div m) + (y % m) /\ y % m \in 0..m - 1 /\ y \div m \in Int BY <1>2, Division
<1>4. x + d = m * ((x \div m) + (y \div m)) + (y % m) BY <1>1, <1>3 DEF y
<1>5. (x \div m) + (y \div m) \in Int /\ x + d \in Int BY <1>1, <1>3
<1>6. (x + d) % m = y % m BY <1>3, <1>4, <1>5, Remainder
<1> QED BY <1>6 DEF y

(* The counter keeps its type. *)
LEMMA Wraps ==
  ASSUME Base, NEW n \in Int PROVE (active_sessions + n) % CounterRange \in 0..CounterRange - 1
<1>1. CounterRange \in Nat \ {0} BY EngineAssumption
<1>2. active_sessions + n \in Int BY DEF Base, Registry
<1> QED BY <1>1, <1>2, Division

(* The counter follows what is due. *)
LEMMA CounterMoves ==
  ASSUME Base, Balance, crossed => crossed', NEW n \in Int,
         ~crossed => Due' = Due + n, active_sessions' = (active_sessions + n) % CounterRange
  PROVE  Balance'
<1>1. CounterRange \in Nat \ {0} BY EngineAssumption
<1>2. Due \in Int BY CountFinite DEF Due, Base, Sweeping, Sweepers
<1>3. CASE crossed' BY <1>3 DEF Balance
<1>4. CASE ~crossed
  <2>1. active_sessions = Due % CounterRange BY <1>4 DEF Balance
  <2>2. ((Due % CounterRange) + n) % CounterRange = (Due + n) % CounterRange
    BY <1>1, <1>2, AddModulo
  <2> QED BY <1>4, <2>1, <2>2 DEF Balance
<1> QED BY <1>3, <1>4

-----------------------------------------------------------------------------
(* create_session writes an id: a session more, which is not counted yet. *)
LEMMA WriteIdKept == ASSUME Base, Balance, NEW c \in Clients, WriteId(c) PROVE Base' /\ Balance'
<1> DEFINE i == client[c].slot
           n == next_session_id
           r == [client[c] EXCEPT !.pc = "touch", !.id = n, !.inherited = slots[i].pending # 0]
           d == [slots[i] EXCEPT !.id = n]
<1>1. client[c].pc = "write" BY DEF WriteId, At
<1>2. Caller(client[c]) BY DEF Base, Callers
<1>3. i \in 1..MaxSessions /\ n \in Nat \ {0} BY <1>1, <1>2 DEF Caller, Base, Registry
<1>4. Caller(r) /\ r.pc = "touch" BY <1>2, <1>3 DEF Caller, ClientFields
<1>5. client' = [client EXCEPT ![c] = r] BY DEF WriteId
<1>6. DOMAIN d = SlotFields /\ d.id = n BY <1>3 DEF Base, Registry, SlotFields
<1>7. slots' = [slots EXCEPT ![i] = d] BY DEF WriteId
<1>8. /\ next_session_id' = n + 1 /\ UNCHANGED <<active_sessions, sweeper>>
      /\ crossed' = (crossed \/ slots[i].id # 0)
  BY DEF WriteId
<1> HIDE DEF r, d
<1>9. Moves(c) /\ client'[c] = r BY <1>4, <1>5, Replaces DEF Base
<1>10. Base'
  <2>1. Registry' BY <1>3, <1>6, <1>7, <1>8 DEF Base, Registry
  <2>2. Callers' BY <1>9 DEF Base, Callers, Moves
  <2>3. Sweeping' BY <1>8 DEF Base, Sweeping
  <2> QED BY <2>1, <2>2, <2>3 DEF Base
<1>11. CASE crossed' BY <1>10, <1>11 DEF Balance
<1>12. CASE ~crossed'
  <2>1. ~crossed /\ slots[i].id = 0 BY <1>8, <1>12
  <2>2. Used' = Used \cup {i} /\ i \notin Used
    BY <1>3, <1>6, <1>7, <2>1 DEF Used, Base, Registry
  <2>3. Uncounted' = Uncounted \cup {c} /\ c \notin Uncounted
    BY <1>1, <1>4, <1>9 DEF Uncounted, InCount, Moves
  <2>4. Removed' = Removed BY <1>1, <1>4, <1>9 DEF Removed, InDiscount, Moves
  <2>5. Cardinality(Used') = Cardinality(Used) + 1 BY <2>2, CountFinite, FS_AddElement
  <2>6. Cardinality(Uncounted') = Cardinality(Uncounted) + 1
    BY <2>3, CountFinite, FS_AddElement
  <2>7. sweeper.cleaned \in Nat BY DEF Base, Sweeping, Sweepers
  <2>8. Due' = Due BY <1>8, <2>4, <2>5, <2>6, <2>7, CountFinite DEF Due
  <2> QED BY <1>8, <1>10, <2>1, <2>8 DEF Balance
<1> QED BY <1>11, <1>12

(* A session that was written is counted. *)
LEMMA CountUpKept == ASSUME Base, Balance, NEW c \in Clients, CountUp(c) PROVE Base' /\ Balance'
<1>1. client[c].pc = "count" /\ Goes(c, "allocate") BY DEF CountUp, At
<1>2. client[c].id # 0 BY <1>1 DEF Base, Callers, Caller
<1>3. Moves(c) /\ client'[c].pc = "allocate" BY <1>1, <1>2, GoesOn DEF Base
<1>4. /\ active_sessions' = (active_sessions + 1) % CounterRange
      /\ UNCHANGED <<slots, next_session_id, sweeper, crossed>>
  BY DEF CountUp, history
<1>5. active_sessions' \in 0..CounterRange - 1
  BY <1>4, Wraps
<1>6. Base'
  <2>1. Registry' BY <1>4, <1>5 DEF Base, Registry
  <2>2. Callers' BY <1>3 DEF Base, Callers, Moves
  <2>3. Sweeping' BY <1>4 DEF Base, Sweeping
  <2> QED BY <2>1, <2>2, <2>3 DEF Base
<1>7. Used' = Used BY <1>4 DEF Used
<1>8. Uncounted' = Uncounted \ {c} /\ c \in Uncounted
  BY <1>1, <1>3 DEF Uncounted, InCount, Moves
<1>9. Removed' = Removed BY <1>1, <1>3 DEF Removed, InDiscount, Moves
<1>10. Cardinality(Uncounted') = Cardinality(Uncounted) - 1
  BY <1>8, CountFinite, FS_RemoveElement
<1>11. sweeper.cleaned \in Nat BY DEF Base, Sweeping, Sweepers
<1>12. Due' = Due + 1 BY <1>4, <1>7, <1>9, <1>10, <1>11, CountFinite DEF Due
<1>13. Balance' BY <1>4, <1>12, CounterMoves
<1> QED BY <1>6, <1>13

(* remove_session clears an id: a session less, which is still counted. *)
LEMMA RemoveKept ==
  ASSUME Base, Balance, NEW c \in Clients, remove_session(c) PROVE Base' /\ Balance'
<1> DEFINE i == client[c].slot
           d == [slots[i] EXCEPT !.id = 0]
<1>1. client[c].pc = "drop" /\ Goes(c, "discount") BY DEF remove_session, At
<1>2. Caller(client[c]) BY DEF Base, Callers
<1>3. i \in 1..MaxSessions /\ client[c].id # 0 BY <1>1, <1>2 DEF Caller
<1>4. Moves(c) /\ client'[c].pc = "discount" BY <1>1, <1>3, GoesOn DEF Base
<1>5. DOMAIN d = SlotFields /\ d.id = 0 BY <1>3 DEF Base, Registry, SlotFields
<1>6. slots' = [slots EXCEPT ![i] = d] BY DEF remove_session, dropped
<1>7. /\ UNCHANGED <<next_session_id, active_sessions, sweeper>>
      /\ crossed' = (crossed \/ slots[i].id # client[c].id)
  BY DEF remove_session
<1> HIDE DEF d
<1>8. Base'
  <2>1. Registry' BY <1>3, <1>5, <1>6, <1>7 DEF Base, Registry
  <2>2. Callers' BY <1>4 DEF Base, Callers, Moves
  <2>3. Sweeping' BY <1>7 DEF Base, Sweeping
  <2> QED BY <2>1, <2>2, <2>3 DEF Base
<1>9. CASE crossed' BY <1>8, <1>9 DEF Balance
<1>10. CASE ~crossed'
  <2>1. ~crossed /\ slots[i].id # 0 BY <1>3, <1>7, <1>10
  <2>2. Used' = Used \ {i} /\ i \in Used
    BY <1>3, <1>5, <1>6, <2>1 DEF Used, Base, Registry
  <2>3. Removed' = Removed \cup {c} /\ c \notin Removed
    BY <1>1, <1>4 DEF Removed, InDiscount, Moves
  <2>4. Uncounted' = Uncounted BY <1>1, <1>4 DEF Uncounted, InCount, Moves
  <2>5. Cardinality(Used') = Cardinality(Used) - 1 BY <2>2, CountFinite, FS_RemoveElement
  <2>6. Cardinality(Removed') = Cardinality(Removed) + 1 BY <2>3, CountFinite, FS_AddElement
  <2>7. sweeper.cleaned \in Nat BY DEF Base, Sweeping, Sweepers
  <2>8. Due' = Due BY <1>7, <2>4, <2>5, <2>6, <2>7, CountFinite DEF Due
  <2> QED BY <1>7, <1>8, <2>1, <2>8 DEF Balance
<1> QED BY <1>9, <1>10

(* A session that was removed is discounted. *)
LEMMA CountDownKept ==
  ASSUME Base, Balance, NEW c \in Clients, CountDown(c) PROVE Base' /\ Balance'
<1> DEFINE f == [client[c] EXCEPT !.pc = "free"]
           r == IF client[c].undo THEN Outside ELSE f
<1>1. client[c].pc = "discount" /\ client' = [client EXCEPT ![c] = r] BY DEF CountDown, At
<1>2. Caller(client[c]) BY DEF Base, Callers
<1>3. Caller(f) /\ f.pc = "free" BY <1>1, <1>2 DEF Caller, ClientFields
<1>4. Caller(r) /\ r.pc \in {"out", "free"} BY <1>3, OutsideCaller
<1> HIDE DEF r
<1>5. Moves(c) /\ client'[c] = r BY <1>1, <1>4, Replaces DEF Base
<1>6. /\ active_sessions' = (active_sessions + (-1)) % CounterRange
      /\ UNCHANGED <<slots, next_session_id, sweeper, crossed>>
  BY DEF CountDown, discounted, history, Base, Registry
<1>7. active_sessions' \in 0..CounterRange - 1
  BY <1>6, Wraps
<1>8. Base'
  <2>1. Registry' BY <1>6, <1>7 DEF Base, Registry
  <2>2. Callers' BY <1>5 DEF Base, Callers, Moves
  <2>3. Sweeping' BY <1>6 DEF Base, Sweeping
  <2> QED BY <2>1, <2>2, <2>3 DEF Base
<1>9. Used' = Used BY <1>6 DEF Used
<1>10. Removed' = Removed \ {c} /\ c \in Removed
  BY <1>1, <1>4, <1>5 DEF Removed, InDiscount, Moves
<1>11. Uncounted' = Uncounted BY <1>1, <1>4, <1>5 DEF Uncounted, InCount, Moves
<1>12. Cardinality(Removed') = Cardinality(Removed) - 1
  BY <1>10, CountFinite, FS_RemoveElement
<1>13. sweeper.cleaned \in Nat BY DEF Base, Sweeping, Sweepers
<1>14. Due' = Due + (-1) BY <1>6, <1>9, <1>11, <1>12, <1>13, CountFinite DEF Due
<1>15. Balance' BY <1>6, <1>14, CounterMoves
<1> QED BY <1>8, <1>15

-----------------------------------------------------------------------------
(* cleanup_stale_sessions begins, or goes on to the next descriptor. *)
LEMMA LookKept ==
  ASSUME Base, Balance, cleanup_stale_sessions \/ SweepLook PROVE Base' /\ Balance'
<1>1. UNCHANGED <<slots, next_session_id, active_sessions, client, crossed>>
  BY DEF cleanup_stale_sessions, SweepLook, registry, history
<1>2. MaxSessions \in Nat BY EngineAssumption
<1>3. Sweeping' /\ sweeper'.cleaned = sweeper.cleaned
  <2>1. CASE cleanup_stale_sessions
    <3>1. sweeper.pc = "idle" /\ sweeper' = [pc |-> "look", at |-> 1, id |-> 0, cleaned |-> 0]
      BY <2>1 DEF cleanup_stale_sessions, Swept
    <3> QED BY <3>1 DEF Base, Sweeping, Sweepers
  <2>2. CASE SweepLook
    <3>1. sweeper.at \in 1..MaxSessions /\ sweeper.pc = "look"
      <4>1. sweeper.pc = "look" /\ sweeper.at <= MaxSessions BY <2>2 DEF SweepLook
      <4>2. sweeper.at \in Nat /\ sweeper.at # 0 BY <4>1 DEF Base, Sweeping, Sweepers
      <4> QED BY <1>2, <4>1, <4>2
    <3>2. slots[sweeper.at].id \in Nat BY <3>1 DEF Base, Registry
    <3>3. sweeper \in Sweepers /\ sweeper.at \in Nat BY DEF Base, Sweeping, Sweepers
    <3>4. CASE is_stale(sweeper.at)
      <4>1. sweeper' = [sweeper EXCEPT !.pc = "drop", !.id = slots[sweeper.at].id]
        BY <2>2, <3>4 DEF SweepLook
      <4>2. /\ sweeper' \in Sweepers /\ sweeper'.pc = "drop" /\ sweeper'.at = sweeper.at
            /\ sweeper'.id = slots[sweeper.at].id /\ sweeper'.cleaned = sweeper.cleaned
        BY <3>2, <3>3, <4>1 DEF Sweepers
      <4> QED BY <3>1, <3>4, <4>2 DEF Sweeping, is_stale
    <3>5. CASE ~is_stale(sweeper.at)
      <4>1. sweeper' = [sweeper EXCEPT !.at = @ + 1] BY <2>2, <3>5 DEF SweepLook
      <4>2. /\ sweeper' \in Sweepers /\ sweeper'.pc = "look" /\ sweeper'.at = sweeper.at + 1
            /\ sweeper'.cleaned = sweeper.cleaned
        BY <3>1, <3>3, <4>1 DEF Sweepers
      <4> QED BY <3>3, <4>2 DEF Sweeping
    <3> QED BY <3>4, <3>5
  <2> QED BY <2>1, <2>2
<1>4. Registry' /\ Callers' BY <1>1 DEF Base, Registry, Callers
<1>5. Used' = Used /\ Uncounted' = Uncounted /\ Removed' = Removed
  BY <1>1 DEF Used, Uncounted, Removed
<1>6. Due' = Due BY <1>3, <1>5 DEF Due
<1> QED BY <1>1, <1>3, <1>4, <1>6 DEF Base, Balance

(* The sweep clears an id, to be discounted at its end. *)
LEMMA DropKept == ASSUME Base, Balance, SweepDrop PROVE Base' /\ Balance'
<1> DEFINE i == sweeper.at
           d == [slots[i] EXCEPT !.id = 0]
<1>1. i \in 1..MaxSessions /\ sweeper.id # 0 BY DEF SweepDrop, Base, Sweeping
<1>2. DOMAIN d = SlotFields /\ d.id = 0 BY <1>1 DEF Base, Registry, SlotFields
<1>3. slots' = [slots EXCEPT ![i] = d] BY DEF SweepDrop, dropped
<1>4. /\ UNCHANGED <<next_session_id, active_sessions, client>>
      /\ sweeper' = [sweeper EXCEPT !.pc = "look", !.at = @ + 1, !.cleaned = @ + 1]
      /\ crossed => crossed'
      /\ ~crossed' => slots[i].id = sweeper.id
  BY DEF SweepDrop
<1> HIDE DEF d
<1>5. Sweeping' /\ sweeper'.cleaned = sweeper.cleaned + 1
  <2>s. sweeper \in Sweepers BY DEF Base, Sweeping
  <2>1. /\ sweeper \in Sweepers /\ sweeper'.pc = "look" /\ sweeper'.at = sweeper.at + 1
        /\ sweeper'.cleaned = sweeper.cleaned + 1 /\ sweeper' \in Sweepers
    <3>1. sweeper' = [sweeper EXCEPT !.pc = "look", !.at = sweeper.at + 1,
                                     !.cleaned = sweeper.cleaned + 1]
      BY <1>4
    <3> DEFINE a == sweeper.at + 1
               b == sweeper.cleaned + 1
    <3>2. a \in Nat /\ b \in Nat BY <2>s DEF Sweepers
    <3>3. sweeper' = [sweeper EXCEPT !.pc = "look", !.at = a, !.cleaned = b] BY <3>1
    <3> HIDE DEF a, b
    <3>4. sweeper' \in Sweepers BY <2>s, <3>2, <3>3 DEF Sweepers
    <3>5. sweeper'.pc = "look" /\ sweeper'.at = a /\ sweeper'.cleaned = b
      BY <2>s, <3>3 DEF Sweepers
    <3> QED BY <2>s, <3>4, <3>5 DEF a, b
  <2>2. sweeper.at \in Nat BY <2>1 DEF Sweepers
  <2> QED BY <2>1, <2>2 DEF Sweeping
<1>6. Registry' BY <1>1, <1>2, <1>3, <1>4 DEF Base, Registry
<1>7. Callers' BY <1>4 DEF Base, Callers
<1>8. CASE crossed' BY <1>5, <1>6, <1>7, <1>8 DEF Base, Balance
<1>9. CASE ~crossed'
  <2>1. ~crossed /\ slots[i].id # 0 BY <1>1, <1>4, <1>9
  <2>2. Used' = Used \ {i} /\ i \in Used
    BY <1>1, <1>2, <1>3, <2>1 DEF Used, Base, Registry
  <2>3. Uncounted' = Uncounted /\ Removed' = Removed BY <1>4 DEF Uncounted, Removed
  <2>4. Cardinality(Used') = Cardinality(Used) - 1 BY <2>2, CountFinite, FS_RemoveElement
  <2>5. sweeper.cleaned \in Nat BY DEF Base, Sweeping, Sweepers
  <2>6. Due' = Due BY <1>5, <2>3, <2>4, <2>5, CountFinite DEF Due
  <2> QED BY <1>4, <1>5, <1>6, <1>7, <2>1, <2>6 DEF Base, Balance
<1> QED BY <1>8, <1>9

(* The sweep discounts all it has cleared at once. *)
LEMMA EndKept == ASSUME Base, Balance, SweepEnds PROVE Base' /\ Balance'
<1> DEFINE n == sweeper.cleaned
<1>1. n \in Nat BY DEF Base, Sweeping, Sweepers
<1>2. /\ active_sessions' = (active_sessions + (-n)) % CounterRange
      /\ sweeper' = Swept /\ UNCHANGED <<slots, next_session_id, client, crossed>>
  BY <1>1 DEF SweepEnds, discounted, history, Base, Registry
<1>3. Sweeping' /\ sweeper'.cleaned = 0 BY <1>2 DEF Sweeping, Sweepers, Swept
<1>4. -n \in Int BY <1>1
<1>5. active_sessions' \in 0..CounterRange - 1
  BY <1>2, <1>4, Wraps
<1>6. Registry' /\ Callers' BY <1>2, <1>5 DEF Base, Registry, Callers
<1>7. Used' = Used /\ Uncounted' = Uncounted /\ Removed' = Removed
  BY <1>2 DEF Used, Uncounted, Removed
<1>8. Due' = Due + (-n) BY <1>1, <1>3, <1>7, CountFinite DEF Due
<1>9. Balance' BY <1>2, <1>4, <1>8, CounterMoves
<1> QED BY <1>3, <1>6, <1>9 DEF Base

-----------------------------------------------------------------------------
(* The registry is empty at first. *)
LEMMA BalanceInit == EngineInit => Base /\ Balance
<1> SUFFICES ASSUME EngineInit PROVE Base /\ Balance OBVIOUS
<1> USE DEF EngineInit
<1>1. Registry BY EngineAssumption DEF Registry, SessionDesc, SlotFields
<1>2. Callers BY OutsideCaller DEF Callers
<1>3. Sweeping BY DEF Sweeping, Sweepers, Swept
<1>4. Used = {} BY DEF Used, SessionDesc
<1>5. Uncounted = {} /\ Removed = {} BY OutsideCaller DEF Uncounted, Removed, InCount, InDiscount
<1>6. Due = 0 BY <1>4, <1>5, FS_EmptySet DEF Due, Swept
<1>7. CounterRange \in Nat \ {0} BY EngineAssumption
<1>8. 0 % CounterRange = 0 BY <1>7
<1> QED BY <1>1, <1>2, <1>3, <1>6, <1>8 DEF Base, Balance

(* Every step of every party keeps the balance. *)
LEMMA BalanceNext == Base /\ Balance /\ [EngineNext]_<<kvVars, engineVars>> => Base' /\ Balance'
<1> SUFFICES ASSUME Base, Balance, [EngineNext]_<<kvVars, engineVars>> PROVE Base' /\ Balance'
  OBVIOUS
<1>1. CASE UNCHANGED <<kvVars, engineVars>>
  <2>1. Still BY <1>1, SlotsSame DEF Base, Still, Quiet, engineVars, registry, history
  <2> QED BY <2>1, StillKept
<1>2. CASE Direct \/ ServerStep \/ Stray \/ TimePasses BY <1>2, ServerStill, StillKept
<1>3. CASE cleanup_stale_sessions \/ SweepLook BY <1>3, LookKept
<1>4. CASE SweepDrop BY <1>4, DropKept
<1>5. CASE SweepEnds BY <1>5, EndKept
<1>6. ASSUME NEW c \in Clients, ClientStep(c) PROVE Base' /\ Balance'
  <2>1. CASE create_session(c) BY <2>1, CreateQuiet, QuietKept
  <2>2. CASE find_free_slot(c) BY <2>2, FindQuiet, QuietKept
  <2>3. CASE WriteId(c) BY <2>3, WriteIdKept
  <2>4. CASE CountUp(c) BY <2>4, CountUpKept
  <2>5. CASE \E fails \in BOOLEAN : OpenEventfd(c, fails) BY <2>5, OpenQuiet, QuietKept
  <2>6. CASE AllocateRings(c) BY <2>6, AllocateQuiet, QuietKept
  <2>7. CASE PublishRings(c) BY <2>7, PublishQuiet, QuietKept
  <2>8. CASE detach_session(c) BY <2>8, DetachQuiet, QuietKept
  <2>9. CASE remove_session(c) BY <2>9, RemoveKept
  <2>10. CASE CountDown(c) BY <2>10, CountDownKept
  <2>11. CASE FreeRings(c) BY <2>11, FreeQuiet, QuietKept
  <2>12. CASE (\E command \in Requests : PushCommand(c, command)) \/ PopResponse(c)
    BY <2>12, UseQuiet, QuietKept
  <2>13. CASE Sleep(c) BY <2>13, SleepQuiet, QuietKept
  <2>14. CASE Wake(c) BY <2>14, WakeQuiet, QuietKept
  <2>15. CASE ack_notifications(c) BY <2>15, AckQuiet, QuietKept
  <2> QED
    BY <1>6, <2>1, <2>2, <2>3, <2>4, <2>5, <2>6, <2>7, <2>8, <2>9, <2>10, <2>11, <2>12, <2>13,
       <2>14, <2>15 DEF ClientStep
<1> QED BY <1>1, <1>2, <1>3, <1>4, <1>5, <1>6 DEF EngineNext

(* When no call on the registry is under way, active_sessions is the number of descriptors   *)
(* in use, for any number of clients and descriptors and although fetch_sub wraps below zero *)
(* in between, unless two calls changed one descriptor at once (session.rs:163-195, 224-270).*)
THEOREM SessionsAreCounted == EngineSpec => []ActiveCounted
<1>1. Base /\ Balance => ActiveCounted
  <2> SUFFICES ASSUME Base, Balance, ~crossed, sweeper.pc = "idle",
                      \A c \in Clients : client[c].pc \in {"out", "in", "asleep", "awake"}
               PROVE  active_sessions = Cardinality({i \in DOMAIN slots : slots[i].id # 0})
    BY DEF ActiveCounted
  <2>1. {i \in DOMAIN slots : slots[i].id # 0} = Used BY DEF Used, Base, Registry
  <2>2. Uncounted = {} /\ Removed = {} BY DEF Uncounted, Removed, InCount, InDiscount
  <2>3. sweeper.cleaned = 0 BY DEF Base, Sweeping
  <2>4. Due = Cardinality(Used) BY <2>2, <2>3, FS_EmptySet, CountFinite DEF Due
  <2>5. Cardinality(Used) \in 0..CounterRange - 1 /\ CounterRange \in Nat \ {0}
    BY CountFinite, EngineAssumption
  <2>6. Cardinality(Used) = CounterRange * 0 + Cardinality(Used) BY <2>5
  <2>7. Cardinality(Used) % CounterRange = Cardinality(Used) BY <2>5, <2>6, Remainder
  <2> QED BY <2>1, <2>4, <2>7 DEF Balance
<1> QED BY <1>1, BalanceInit, BalanceNext, PTL DEF EngineSpec

-----------------------------------------------------------------------------
(* The arena.  Every block that was ever taken has an owner, which the code does not record: *)
(* who says for the first word of a block what it is used for.                               *)
Offsets == 0..ArenaSize - 1
ArenaFields == {"memory", "current", "free_lists", "width", "smashed"}
Nobody == <<"none", 0>>
Free(c) == <<"free", c>>
IsOwner(w) == w # Nobody /\ \A c \in 1..Classes : w # Free(c)

(* The blocks lie apart, below the bump pointer. *)
Blocks(A) ==
  /\ DOMAIN A = ArenaFields /\ DOMAIN A.memory = Offsets
  /\ A.current \in 1..ArenaSize
  /\ A.free_lists \in [1..Classes -> Offsets] /\ A.width \in [Offsets -> Nat]
  /\ \A o \in Offsets : A.width[o] > 0 => o > 0 /\ o + A.width[o] <= A.current
  /\ \A o, p \in Offsets : o < p /\ A.width[o] > 0 /\ A.width[p] > 0 => o + A.width[o] <= p

(* A free list goes through blocks of its class, each of them once. *)
Chain(A, who, c) ==
  /\ A.free_lists[c] # 0 => who[A.free_lists[c]] = Free(c)
  /\ \A o \in Offsets : who[o] = Free(c) =>
       LET next == A.memory[o][2] IN
       /\ A.width[o] >= size_for_class(c) /\ A.width[o] >= NodeSize
       /\ A.memory[o][1] = "next" /\ next \in Offsets
       /\ next # 0 => /\ who[next] = Free(c) /\ next # A.free_lists[c]
                      /\ \A p \in Offsets : who[p] = Free(c) /\ A.memory[p][2] = next => p = o

Heap(A, who) ==
  /\ Blocks(A) /\ DOMAIN who = Offsets
  /\ \A o \in Offsets : who[o] # Nobody => A.width[o] > 0
  /\ \A c \in 1..Classes : Chain(A, who, c)

(* The block at o gets the owner w. *)
Given(who, o, w, who1) ==
  /\ DOMAIN who1 = Offsets /\ who1[o] = w
  /\ \A p \in Offsets : p # o => who1[p] = who[p]

(* Blocks in use, other than those in X, keep their owner, size and contents. *)
Keeps(A, who, B, who1, X) ==
  \A o \in Offsets : IsOwner(who[o]) /\ o \notin X =>
    /\ who1[o] = who[o] /\ B.width[o] = A.width[o]
    /\ \A p \in o..o + A.width[o] - 1 : B.memory[p] = A.memory[p]

(* No word becomes a ring, and none that is one changes. *)
NoNewRings(A, B) == \A p \in Offsets : B.memory[p][1] = "ring" => B.memory[p] = A.memory[p]

(* Words outside the block at o stay. *)
OnlyIn(A, M, o) ==
  DOMAIN M = Offsets /\ \A p \in Offsets : p \notin o..o + A.width[o] - 1 => M[p] = A.memory[p]

LEMMA OffsetNat == Offsets \subseteq Nat /\ ArenaSize \in Nat \ {0} /\ 0 \in Offsets
BY KvAssumption DEF Offsets

LEMMA ClassSizes == \A c \in 1..Classes : size_for_class(c) \in Int
<1> SUFFICES ASSUME NEW c \in 1..Classes PROVE 2 ^ (c - 1) \in Int BY DEF size_for_class
<1>1. Classes \in Nat BY KvAssumption
<1>2. c - 1 \in Nat BY <1>1
<1> QED BY <1>2

LEMMA ClassFound ==
  ASSUME NEW n \in Nat, HasClass(n)
  PROVE  size_class_for(n) \in 1..Classes /\ n <= size_for_class(size_class_for(n))
<1> DEFINE S == {c \in 1..Classes : n <= size_for_class(c)}
<1>1. Classes \in Nat \ {0} BY KvAssumption
<1>2. Classes \in S BY <1>1 DEF HasClass
<1>3. S \subseteq Nat BY <1>1
<1>4. Min(S) \in S
  <2> HIDE DEF S
  <2> QED BY <1>2, <1>3, MinElement
<1> QED BY <1>4 DEF size_class_for

LEMMA BlocksApart ==
  ASSUME NEW A, NEW who, Heap(A, who), NEW o \in Offsets, NEW q \in Offsets, who[o] # Nobody,
         who[q] # Nobody, o # q, NEW p \in q..q + A.width[q] - 1
  PROVE  p \notin o..o + A.width[o] - 1 /\ p \in Offsets
<1>1. A.width[o] > 0 /\ A.width[q] > 0 BY DEF Heap
<1>2. o \in Nat /\ q \in Nat /\ A.width[o] \in Nat /\ A.width[q] \in Nat /\ A.current \in Nat
      /\ ArenaSize \in Nat
  BY OffsetNat DEF Heap, Blocks
<1>3. /\ o < q => o + A.width[o] <= q
      /\ q < o => q + A.width[q] <= o
      /\ q + A.width[q] <= A.current /\ A.current <= ArenaSize
  BY <1>1, <1>2 DEF Heap, Blocks
<1> QED BY <1>1, <1>2, <1>3 DEF Offsets

LEMMA WriteKeeps ==
  ASSUME NEW A, NEW who, Heap(A, who), NEW o \in Offsets, IsOwner(who[o]), NEW B,
         OnlyIn(A, B.memory, o), B.width = A.width, NEW who1,
         \A q \in Offsets : q # o => who1[q] = who[q]
  PROVE  Keeps(A, who, B, who1, {o})
<1> SUFFICES ASSUME NEW q \in Offsets, IsOwner(who[q]), q # o
             PROVE  /\ who1[q] = who[q]
                    /\ \A p \in q..q + A.width[q] - 1 : B.memory[p] = A.memory[p]
  BY DEF Keeps
<1>1. who[o] # Nobody /\ who[q] # Nobody BY DEF IsOwner
<1>2. \A p \in q..q + A.width[q] - 1 : p \notin o..o + A.width[o] - 1 /\ p \in Offsets
  BY <1>1, BlocksApart
<1> QED BY <1>2 DEF OnlyIn

(* Contents of a block that is in use may change. *)
LEMMA WriteHeap ==
  ASSUME NEW A, NEW who, Heap(A, who), NEW o \in Offsets, IsOwner(who[o]), NEW B,
         DOMAIN B = ArenaFields, OnlyIn(A, B.memory, o), B.current = A.current,
         B.free_lists = A.free_lists, B.width = A.width
  PROVE  Heap(B, who)
<1> DEFINE M == B.memory
<1>1. TRUE OBVIOUS
<1>2. Blocks(B) BY <1>1 DEF Heap, Blocks, OnlyIn
<1>3. ASSUME NEW c \in 1..Classes PROVE Chain(B, who, c)
  <2>1. ASSUME NEW p \in Offsets, who[p] = Free(c) PROVE M[p] = A.memory[p]
    <3>1. p # o BY <2>1 DEF IsOwner
    <3>2. A.width[o] > 0 /\ A.width[p] > 0 BY <2>1 DEF Heap, IsOwner, Nobody, Free
    <3>3. o \in Nat /\ p \in Nat /\ A.width[o] \in Nat /\ A.width[p] \in Nat
      BY OffsetNat DEF Heap, Blocks
    <3>4. p \notin o..o + A.width[o] - 1 BY <3>1, <3>2, <3>3 DEF Heap, Blocks
    <3> QED BY <3>4 DEF OnlyIn
  <2>2. Chain(A, who, c) BY DEF Heap
  <2> QED BY <1>1, <2>1, <2>2 DEF Chain
<1> QED BY <1>2, <1>3 DEF Heap

(* allocate gives a block that nobody uses, large enough, and no memory twice. *)
LEMMA AllocateHeap ==
  ASSUME NEW A, NEW who, Heap(A, who), NEW n \in Nat \ {0}, NEW align \in Nat \ {0},
         NEW w, IsOwner(w), NEW a, a = allocate(A, n, align)
  PROVE  /\ a.offset \in Offsets /\ a.arena.memory = A.memory /\ a.arena.smashed = A.smashed
         /\ a.offset = 0 => a.arena = A
         /\ a.offset # 0 => /\ ~IsOwner(who[a.offset]) /\ n <= a.arena.width[a.offset]
                            /\ \E who1 : /\ Given(who, a.offset, w, who1) /\ Heap(a.arena, who1)
                                         /\ Keeps(A, who, a.arena, who1, {})
<1> DEFINE c == size_class_for(n)
           head == A.free_lists[c]
           start == aligned(A.current, align)
           popped1 == [A EXCEPT !.free_lists[c] = after_pop(A, head)]
           bumped == [A EXCEPT !.current = start + n, !.width[start] = n]
<1>h. DOMAIN A = ArenaFields BY DEF Heap, Blocks
<1>1. CASE HasClass(n) /\ head # 0 /\ head % align = 0
  <2>1. allocate(A, n, align) = [offset |-> head, arena |-> popped1] BY <1>1 DEF allocate
  <2>2. c \in 1..Classes /\ n <= size_for_class(c) BY <1>1, ClassFound
  <2> DEFINE next == A.memory[head][2]
  <2>3. /\ DOMAIN popped1 = ArenaFields /\ popped1.memory = A.memory
        /\ popped1.current = A.current /\ popped1.width = A.width
        /\ popped1.smashed = A.smashed
        /\ popped1.free_lists = [A.free_lists EXCEPT ![c] = next]
    BY <1>h DEF ArenaFields, after_pop
  <2>4. head \in Offsets /\ Chain(A, who, c) BY <2>2 DEF Heap, Blocks
  <2> HIDE DEF c
  <2>5. /\ who[head] = Free(c) /\ A.width[head] >= size_for_class(c) /\ next \in Offsets
        /\ next # 0 => who[next] = Free(c) /\ next # head
        /\ \A p \in Offsets : who[p] = Free(c) /\ A.memory[p][2] = next /\ next # 0 => p = head
    BY <1>1, <2>4 DEF Chain
  <2>6. n <= A.width[head]
    <3>1. A.width[head] \in Nat /\ size_for_class(c) \in Int
      BY <2>2, <2>4, ClassSizes DEF Heap, Blocks
    <3> QED BY <2>2, <2>5, <3>1
  <2> DEFINE who1 == [who EXCEPT ![head] = w]
  <2> HIDE DEF popped1, head, next
  <2>7. Blocks(popped1) BY <2>2, <2>3, <2>5 DEF Heap, Blocks
  <2>8. DOMAIN who1 = Offsets /\ \A o \in Offsets : who1[o] # Nobody => popped1.width[o] > 0
    <3>1. A.width[head] > 0 BY <2>4, <2>5 DEF Heap, Free, Nobody
    <3> QED BY <2>3, <2>4, <3>1 DEF Heap
  <2>9. ASSUME NEW d \in 1..Classes PROVE Chain(popped1, who1, d)
    <3>1. Chain(A, who, d) BY DEF Heap
    <3>2. \A o \in Offsets : who1[o] = Free(d) <=> who[o] = Free(d) /\ o # head
      BY <2>4 DEF Heap, IsOwner
    <3>3. CASE d = c
      <4>1. popped1.free_lists[d] = next BY <2>2, <2>3, <3>3 DEF Heap, Blocks
      <4>2. next # 0 => who1[next] = Free(d) BY <2>5, <3>2, <3>3
      <4>3. ASSUME NEW o \in Offsets, who1[o] = Free(d)
            PROVE  LET x == A.memory[o][2] IN
                   /\ A.width[o] >= size_for_class(d) /\ A.width[o] >= NodeSize
                   /\ A.memory[o][1] = "next" /\ x \in Offsets
                   /\ x # 0 => /\ who1[x] = Free(d) /\ x # next
                               /\ \A p \in Offsets : who1[p] = Free(d) /\ A.memory[p][2] = x => p = o
        <5>1. who[o] = Free(d) /\ o # head BY <3>2, <4>3
        <5>2. A.memory[o][2] # 0 => A.memory[o][2] # head /\ A.memory[o][2] # next
          BY <2>5, <3>1, <3>3, <5>1 DEF Chain, head
        <5> QED BY <3>1, <3>2, <5>1, <5>2 DEF Chain
      <4> HIDE DEF who1
      <4> QED BY <2>3, <4>1, <4>2, <4>3 DEF Chain
    <3>4. CASE d # c
      <4>1. popped1.free_lists[d] = A.free_lists[d] BY <2>2, <2>3, <3>4 DEF Heap, Blocks
      <4>2. who[head] # Free(d) BY <2>5, <3>4 DEF Free
      <4>3. \A o \in Offsets : who1[o] = Free(d) <=> who[o] = Free(d) BY <3>2, <4>2
      <4> HIDE DEF who1
      <4>4. A.free_lists[d] \in Offsets BY DEF Heap, Blocks
      <4> QED BY <2>3, <3>1, <4>1, <4>3, <4>4 DEF Chain
    <3> QED BY <3>3, <3>4
  <2>10. Heap(popped1, who1) BY <2>7, <2>8, <2>9 DEF Heap
  <2>11. ~IsOwner(who[head]) BY <2>2, <2>5 DEF IsOwner
  <2>12. Given(who, head, w, who1) BY <2>4 DEF Given, Heap
  <2>13. Keeps(A, who, popped1, who1, {}) BY <2>3, <2>11, <2>12 DEF Keeps, Given
  <2>14. a.offset = head /\ a.arena = popped1 BY <2>1 DEF head
  <2>15. a.offset # 0 BY <1>1, <2>14 DEF head
  <2> HIDE DEF who1
  <2> QED BY <2>3, <2>4, <2>6, <2>10, <2>11, <2>12, <2>13, <2>14, <2>15
<1>2. CASE ~(HasClass(n) /\ head # 0 /\ head % align = 0) /\ fits(start + n)
  <2>1. allocate(A, n, align) = [offset |-> start, arena |-> bumped] BY <1>2 DEF allocate
  <2>2. start \in Nat /\ start >= A.current /\ A.current \in 1..ArenaSize /\ start + n <= ArenaSize
    <3>1. A.current \in Nat /\ A.current \in 1..ArenaSize BY OffsetNat DEF Heap, Blocks
    <3> QED BY <1>2, <3>1, OffsetNat DEF aligned, fits
  <2> HIDE DEF start
  <2>3. start \in Offsets /\ start > 0 BY <2>2, OffsetNat DEF Offsets
  <2>4. /\ DOMAIN bumped = ArenaFields /\ bumped.memory = A.memory
        /\ bumped.current = start + n /\ bumped.width = [A.width EXCEPT ![start] = n]
        /\ bumped.smashed = A.smashed /\ bumped.free_lists = A.free_lists
    BY <1>h DEF ArenaFields
  <2> HIDE DEF bumped
  <2>5. A.width \in [Offsets -> Nat] /\ bumped.width[start] = n
        /\ \A o \in Offsets : o # start => bumped.width[o] = A.width[o]
    BY <2>3, <2>4 DEF Heap, Blocks
  <2>6. \A o \in Offsets : A.width[o] > 0 => o + A.width[o] <= start
    <3> SUFFICES ASSUME NEW o \in Offsets, A.width[o] > 0 PROVE o + A.width[o] <= start OBVIOUS
    <3>1. o + A.width[o] <= A.current BY DEF Heap, Blocks
    <3>2. o \in Nat /\ A.width[o] \in Nat /\ A.current \in Nat
      BY <2>2, <2>5, OffsetNat
    <3> QED BY <2>2, <3>1, <3>2
  <2>7. Blocks(bumped)
    <3>1. bumped.current \in 1..ArenaSize BY <2>2, <2>4, OffsetNat
    <3>2. bumped.width \in [Offsets -> Nat] BY <2>4, <2>5
    <3>3. \A o \in Offsets : bumped.width[o] > 0 => o > 0 /\ o + bumped.width[o] <= bumped.current
      <4> SUFFICES ASSUME NEW o \in Offsets, bumped.width[o] > 0
                   PROVE  o > 0 /\ o + bumped.width[o] <= bumped.current
        OBVIOUS
      <4>1. o \in Nat /\ A.width[o] \in Nat BY <2>5, OffsetNat
      <4>2. o # start => o > 0 BY <2>5 DEF Heap, Blocks
      <4> QED BY <2>2, <2>3, <2>4, <2>5, <2>6, <4>1, <4>2
    <3>4. \A o, p \in Offsets : o < p /\ bumped.width[o] > 0 /\ bumped.width[p] > 0
            => o + bumped.width[o] <= p
      <4> SUFFICES ASSUME NEW o \in Offsets, NEW p \in Offsets, o < p, bumped.width[o] > 0,
                          bumped.width[p] > 0
                   PROVE  o + bumped.width[o] <= p
        OBVIOUS
      <4>1. o \in Nat /\ p \in Nat /\ A.width[o] \in Nat /\ A.width[p] \in Nat BY <2>5, OffsetNat
      <4>2. o # start
        <5> SUFFICES ASSUME o = start PROVE FALSE OBVIOUS
        <5>1. A.width[p] > 0 BY <2>5, <4>1
        <5>2. p + A.width[p] <= start BY <2>6, <5>1
        <5> QED BY <4>1, <5>1, <5>2
      <4>3. CASE p = start BY <2>5, <2>6, <4>2, <4>3
      <4>4. CASE p # start BY <2>5, <4>2, <4>4 DEF Heap, Blocks
      <4> QED BY <4>3, <4>4
    <3> QED BY <2>4, <3>1, <3>2, <3>3, <3>4 DEF Heap, Blocks
  <2>8. who[start] = Nobody
    <3>1. ~(A.width[start] > 0)
      <4>1. A.width[start] > 0 => start + A.width[start] <= start BY <2>3, <2>6
      <4>2. A.width[start] \in Nat BY <2>3, <2>5
      <4> QED BY <2>2, <4>1, <4>2
    <3> QED BY <2>3, <3>1 DEF Heap
  <2> DEFINE who1 == [who EXCEPT ![start] = w]
  <2>9. DOMAIN who1 = Offsets /\ \A o \in Offsets : who1[o] # Nobody => bumped.width[o] > 0
    BY <2>3, <2>5 DEF Heap
  <2>10. ASSUME NEW d \in 1..Classes PROVE Chain(bumped, who1, d)
    <3>1. Chain(A, who, d) BY DEF Heap
    <3>2. \A o \in Offsets : who1[o] = Free(d) <=> who[o] = Free(d)
      BY <2>3, <2>8 DEF Heap, IsOwner, Free, Nobody
    <3>3. \A o \in Offsets : who[o] = Free(d) => bumped.width[o] = A.width[o]
      BY <2>5, <2>8 DEF Free, Nobody
    <3>4. A.free_lists[d] \in Offsets BY DEF Heap, Blocks
    <3> HIDE DEF who1
    <3> QED BY <2>4, <3>1, <3>2, <3>3, <3>4 DEF Chain
  <2>11. Heap(bumped, who1) BY <2>7, <2>9, <2>10 DEF Heap
  <2>12. ~IsOwner(who[start]) BY <2>8 DEF IsOwner
  <2>13. \A o \in Offsets : who[o] # Nobody => bumped.width[o] = A.width[o] BY <2>5, <2>8
  <2>14. n <= bumped.width[start] BY <2>5
  <2>15. start # 0 BY <2>2, <2>3
  <2>16. a.offset = start /\ a.arena = bumped BY <2>1
  <2>17. Given(who, start, w, who1) BY <2>3 DEF Given, Heap
  <2>18. Keeps(A, who, bumped, who1, {})
    BY <2>4, <2>12, <2>13, <2>17 DEF Keeps, Given, IsOwner
  <2> HIDE DEF who1
  <2> QED BY <2>3, <2>4, <2>11, <2>12, <2>14, <2>15, <2>16, <2>17, <2>18
<1>3. CASE ~(HasClass(n) /\ head # 0 /\ head % align = 0) /\ ~fits(start + n)
  <2>1. allocate(A, n, align) = [offset |-> 0, arena |-> A] BY <1>3 DEF allocate
  <2> QED BY <2>1, OffsetNat
<1> QED BY <1>1, <1>2, <1>3

LEMMA MaxOfTwo == ASSUME NEW a \in Int, NEW b \in Int PROVE Max({a, b}) = IF a >= b THEN a ELSE b
BY DEF Max

(* What belongs to nobody any more. *)
Lost == <<"lost", 0>>

(* free puts a block that was in use on the list of its class, or gives it up. *)
LEMMA FreeHeap ==
  ASSUME NEW A, NEW who, Heap(A, who), NEW o \in Offsets, IsOwner(who[o]),
         NEW n \in Nat \ {0}, NEW F, F = free(A, o, n), ~F.smashed
  PROVE  /\ \E who1, x : /\ Given(who, o, x, who1) /\ x[1] \in {"lost", "free"}
                         /\ Heap(F, who1) /\ Keeps(A, who, F, who1, {o})
         /\ ~A.smashed /\ NoNewRings(A, F) /\ F.width = A.width
<1> DEFINE c == size_class_for(n)
           M == [p \in DOMAIN A.memory |->
                   IF p = o THEN <<"next", A.free_lists[c]>>
                   ELSE IF p = o + 1 THEN <<"size", size_for_class(c)>> ELSE A.memory[p]]
           B == [A EXCEPT !.memory = M, !.free_lists[c] = o,
                          !.smashed = @ \/ A.width[o] < Max({size_for_class(c), NodeSize})]
<1>h. DOMAIN A = ArenaFields /\ DOMAIN A.memory = Offsets /\ A.width \in [Offsets -> Nat]
  BY DEF Heap, Blocks
<1>w. A.width[o] > 0 BY DEF Heap, IsOwner
<1>1. CASE HasClass(n)
  <2>1. free(A, o, n) = B BY <1>1 DEF free
  <2>2. c \in 1..Classes BY <1>1, ClassFound
  <2> HIDE DEF c
  <2>3. /\ DOMAIN B = ArenaFields /\ B.memory = M /\ B.current = A.current
        /\ B.width = A.width /\ B.free_lists = [A.free_lists EXCEPT ![c] = o]
        /\ B.smashed = (A.smashed \/ A.width[o] < Max({size_for_class(c), NodeSize}))
    BY <1>h DEF ArenaFields
  <2> HIDE DEF B
  <2>4. ~A.smashed /\ A.width[o] >= size_for_class(c) /\ A.width[o] >= NodeSize
    <3>1. ~A.smashed /\ ~(A.width[o] < Max({size_for_class(c), NodeSize})) BY <2>1, <2>3
    <3>2. size_for_class(c) \in Int /\ NodeSize \in Int /\ A.width[o] \in Int
      BY <1>h, <2>2, ClassSizes DEF NodeSize
    <3>3. Max({size_for_class(c), NodeSize}) =
            IF size_for_class(c) >= NodeSize THEN size_for_class(c) ELSE NodeSize
      BY <3>2, MaxOfTwo
    <3> QED BY <3>1, <3>2, <3>3
  <2>5. OnlyIn(A, M, o)
    <3>1. o \in Nat /\ A.width[o] \in Nat /\ A.width[o] >= 2
      BY <1>h, <2>4, OffsetNat DEF NodeSize
    <3>2. o \in o..o + A.width[o] - 1 /\ o + 1 \in o..o + A.width[o] - 1 BY <3>1
    <3> QED BY <1>h, <3>2 DEF OnlyIn
  <2> DEFINE who1 == [who EXCEPT ![o] = Free(c)]
  <2>6. Blocks(B) BY <1>h, <2>2, <2>3 DEF Heap, Blocks
  <2>7. DOMAIN who1 = Offsets /\ \A p \in Offsets : who1[p] # Nobody => B.width[p] > 0
    BY <1>w, <2>3 DEF Heap
  <2>8. \A p \in Offsets : who[p] # Nobody /\ p # o => M[p] = A.memory[p]
    <3> SUFFICES ASSUME NEW p \in Offsets, who[p] # Nobody, p # o PROVE M[p] = A.memory[p]
      OBVIOUS
    <3>1. A.width[p] > 0 BY DEF Heap
    <3>2. p \in Nat /\ o \in Nat /\ A.width[p] \in Nat /\ A.width[o] \in Nat
      BY <1>h, OffsetNat
    <3>3. p \notin o..o + A.width[o] - 1 BY <1>w, <3>1, <3>2 DEF Heap, Blocks
    <3> QED BY <2>5, <3>3 DEF OnlyIn
  <2>9. M[o] = <<"next", A.free_lists[c]>> BY <1>h
  <2> HIDE DEF M
  <2>10. ASSUME NEW d \in 1..Classes PROVE Chain(B, who1, d)
    <3>1. Chain(A, who, d) BY DEF Heap
    <3>2. A.free_lists[d] \in Offsets BY DEF Heap, Blocks
    <3>3. who[o] # Free(d) BY DEF IsOwner
    <3>4. \A p \in Offsets : who[p] = Free(d) => M[p] = A.memory[p]
      BY <2>8, <3>3 DEF Free, Nobody
    <3>5. CASE d = c
      <4>1. B.free_lists[d] = o BY <2>2, <2>3, <3>5 DEF Heap, Blocks
      <4>2. \A p \in Offsets : who1[p] = Free(d) <=> (who[p] = Free(d) \/ p = o)
        BY <3>5 DEF Heap
      <4>3. M[o] = <<"next", A.free_lists[d]>> BY <2>9, <3>5
      <4>4. ASSUME NEW p \in Offsets, who1[p] = Free(d)
            PROVE  LET x == M[p][2] IN
                   /\ A.width[p] >= size_for_class(d) /\ A.width[p] >= NodeSize
                   /\ M[p][1] = "next" /\ x \in Offsets
                   /\ x # 0 => /\ who1[x] = Free(d) /\ x # o
                               /\ \A q \in Offsets : who1[q] = Free(d) /\ M[q][2] = x => q = p
        <5>1. CASE p = o
          <6>1. M[p][1] = "next" /\ M[p][2] = A.free_lists[d] BY <4>3, <5>1
          <6>2. A.free_lists[d] # 0 => who[A.free_lists[d]] = Free(d) BY <3>1 DEF Chain
          <6>3. A.free_lists[d] # 0 => A.free_lists[d] # o BY <3>3, <6>2
          <6>4. ASSUME NEW q \in Offsets, who1[q] = Free(d), M[q][2] = A.free_lists[d],
                       A.free_lists[d] # 0
                PROVE  q = p
            <7>1. CASE who[q] = Free(d)
              <8>1. M[q] = A.memory[q] BY <3>4, <7>1
              <8> QED BY <3>1, <6>4, <7>1, <8>1 DEF Chain
            <7> QED BY <4>2, <5>1, <6>4, <7>1
          <6> HIDE DEF who1
          <6> QED BY <2>4, <3>2, <3>5, <4>2, <5>1, <6>1, <6>2, <6>3, <6>4
        <5>2. CASE p # o
          <6>1. who[p] = Free(d) BY <4>2, <4>4, <5>2
          <6>2. M[p] = A.memory[p] BY <3>4, <6>1
          <6> DEFINE x == A.memory[p][2]
          <6>3. /\ A.width[p] >= size_for_class(d) /\ A.width[p] >= NodeSize
                /\ M[p][1] = "next" /\ x \in Offsets
                /\ x # 0 => who[x] = Free(d) /\ x # A.free_lists[d]
                /\ x # 0 => \A q \in Offsets : who[q] = Free(d) /\ A.memory[q][2] = x => q = p
            BY <3>1, <6>1, <6>2 DEF Chain
          <6> HIDE DEF x
          <6>4. x # 0 => who1[x] = Free(d) /\ x # o BY <3>3, <4>2, <6>3
          <6>5. ASSUME NEW q \in Offsets, who1[q] = Free(d), M[q][2] = x, x # 0
                PROVE  q = p
            <7>1. q # o BY <4>3, <6>3, <6>5
            <7>2. who[q] = Free(d) BY <4>2, <6>5, <7>1
            <7> QED BY <3>4, <6>3, <6>5, <7>2
          <6>6. M[p][2] = x BY <6>2 DEF x
          <6> HIDE DEF who1
          <6> QED BY <6>3, <6>4, <6>5, <6>6
        <5> QED BY <5>1, <5>2
      <4>5. who1[o] = Free(d) BY <3>5 DEF Heap
      <4> HIDE DEF who1
      <4> QED BY <2>3, <4>1, <4>4, <4>5 DEF Chain
    <3>6. CASE d # c
      <4>1. B.free_lists[d] = A.free_lists[d] BY <2>2, <2>3, <3>6 DEF Heap, Blocks
      <4>2. \A p \in Offsets : who1[p] = Free(d) <=> who[p] = Free(d)
        BY <3>3, <3>6 DEF Heap, Free
      <4> HIDE DEF who1
      <4> QED BY <2>3, <3>1, <3>2, <3>4, <4>1, <4>2 DEF Chain
    <3> QED BY <3>5, <3>6
  <2>11. Heap(B, who1) BY <2>6, <2>7, <2>10 DEF Heap
  <2>12. \A p \in Offsets : M[p][1] = "ring" => M[p] = A.memory[p] BY <1>h DEF M
  <2>13. F = B BY <2>1
  <2>14. Given(who, o, Free(c), who1) BY DEF Given, Heap
  <2>15. Keeps(A, who, B, who1, {o}) BY <2>3, <2>5, <2>14, WriteKeeps DEF Given
  <2>16. NoNewRings(A, B) BY <2>3, <2>12 DEF NoNewRings
  <2>17. Free(c)[1] = "free" BY DEF Free
  <2> HIDE DEF who1
  <2> QED BY <2>3, <2>4, <2>11, <2>13, <2>14, <2>15, <2>16, <2>17
<1>2. CASE ~HasClass(n)
  <2>1. free(A, o, n) = A BY <1>2 DEF free
  <2> DEFINE who1 == [who EXCEPT ![o] = Lost]
  <2>2. DOMAIN who1 = Offsets /\ \A p \in Offsets : who1[p] # Nobody => A.width[p] > 0
    BY <1>w DEF Heap
  <2>3. ASSUME NEW d \in 1..Classes PROVE Chain(A, who1, d)
    <3>1. Chain(A, who, d) BY DEF Heap
    <3>2. \A p \in Offsets : who1[p] = Free(d) <=> who[p] = Free(d)
      BY DEF Heap, IsOwner, Free, Lost
    <3>3. A.free_lists[d] \in Offsets BY DEF Heap, Blocks
    <3> HIDE DEF who1
    <3> QED BY <3>1, <3>2, <3>3 DEF Chain
  <2>4. Heap(A, who1) BY <2>2, <2>3 DEF Heap
  <2>5. OnlyIn(A, A.memory, o) BY <1>h DEF OnlyIn
  <2>6. Given(who, o, Lost, who1) BY DEF Given, Heap
  <2>7. Keeps(A, who, A, who1, {o}) BY <2>5, <2>6, WriteKeeps DEF Given
  <2>8. NoNewRings(A, A) BY DEF NoNewRings
  <2>9. Lost[1] = "lost" BY DEF Lost
  <2>10. F = A BY <2>1
  <2> HIDE DEF who1
  <2> QED BY <2>4, <2>6, <2>7, <2>8, <2>9, <2>10
<1> QED BY <1>1, <1>2

-----------------------------------------------------------------------------
LEMMA KeepsAfter ==
  ASSUME NEW A, NEW B, NEW C, NEW who, NEW who1, NEW who2, NEW X, NEW Y,
         Keeps(A, who, B, who1, X), Keeps(B, who1, C, who2, Y)
  PROVE  Keeps(A, who, C, who2, X \cup Y)
<1> SUFFICES ASSUME NEW o \in Offsets, IsOwner(who[o]), o \notin X \cup Y
             PROVE  /\ who2[o] = who[o] /\ C.width[o] = A.width[o]
                    /\ \A p \in o..o + A.width[o] - 1 : C.memory[p] = A.memory[p]
  BY DEF Keeps
<1>1. /\ who1[o] = who[o] /\ B.width[o] = A.width[o]
      /\ \A p \in o..o + A.width[o] - 1 : B.memory[p] = A.memory[p]
  BY DEF Keeps
<1>2. /\ who2[o] = who1[o] /\ C.width[o] = B.width[o]
      /\ \A p \in o..o + B.width[o] - 1 : C.memory[p] = B.memory[p]
  BY <1>1 DEF Keeps
<1> QED BY <1>1, <1>2

LEMMA HeapFields ==
  ASSUME NEW A, NEW who, Heap(A, who), Becomes(A) PROVE Heap(Arena, who)'
<1>1. /\ DOMAIN Arena' = ArenaFields /\ Arena'.memory = A.memory /\ Arena'.current = A.current
      /\ Arena'.free_lists = A.free_lists /\ Arena'.width = A.width
  BY DEF Becomes, Arena, ArenaFields
<1>2. Blocks(Arena') BY <1>1 DEF Heap, Blocks
<1>3. \A c \in 1..Classes : Chain(Arena', who, c) BY <1>1 DEF Heap, Chain
<1> QED BY <1>1, <1>2, <1>3 DEF Heap

(* A key and a value find room in the block. *)
Room(A, o, v) == KeyLen + Length(v) <= A.width[o]

(* The words of the block at o. *)
Holding(A, o, k, v) ==
  /\ Room(A, o, v) /\ A.memory[o] = <<"key", k>>
  /\ \A j \in 1..Length(v) : A.memory[o + j] = <<"value", v, j>>

(* Key and value are written to the block of their entry. *)
LEMMA CopiedHeap ==
  ASSUME NEW A, NEW who, Heap(A, who), NEW o \in Offsets, IsOwner(who[o]),
         NEW k \in Keys, NEW v \in Values, Room(A, o, v),
         NEW C, C = copied(A, o, k, v)
  PROVE  /\ Heap(C, who) /\ Keeps(A, who, C, who, {o}) /\ C.smashed = A.smashed
         /\ Holding(C, o, k, v) /\ NoNewRings(A, C)
<1> DEFINE M == [p \in DOMAIN A.memory |->
                   IF p = o THEN <<"key", k>>
                   ELSE IF p \in o + 1 .. o + Length(v) THEN <<"value", v, p - o>>
                   ELSE A.memory[p]]
           B == [A EXCEPT !.memory = M]
<1>h. DOMAIN A = ArenaFields /\ DOMAIN A.memory = Offsets /\ A.width \in [Offsets -> Nat]
  BY DEF Heap, Blocks
<1>1. copied(A, o, k, v) = B BY DEF copied
<1>2. B.memory = M /\ B.width = A.width /\ B.smashed = A.smashed BY <1>h DEF ArenaFields
<1>3. Length(v) \in Nat BY KvAssumption DEF Values, Length
<1>4. o \in Nat /\ A.width[o] \in Nat BY <1>h, OffsetNat
<1>5. o + 1 .. o + Length(v) \subseteq o..o + A.width[o] - 1 /\ o \in o..o + A.width[o] - 1
  BY <1>3, <1>4 DEF KeyLen, Room
<1>6. OnlyIn(A, M, o) BY <1>h, <1>5 DEF OnlyIn
<1>7. Heap(B, who)
  <2>1. DOMAIN B = ArenaFields /\ B.current = A.current /\ B.free_lists = A.free_lists
    BY <1>h DEF ArenaFields
  <2> HIDE DEF B
  <2> QED BY <1>2, <1>6, <2>1, WriteHeap
<1>8. Keeps(A, who, B, who, {o})
  <2> HIDE DEF B
  <2> QED BY <1>2, <1>6, WriteKeeps
<1>9. B.memory[o] = <<"key", k>> BY <1>h, <1>2
<1>10. ASSUME NEW j \in 1..Length(v) PROVE B.memory[o + j] = <<"value", v, j>>
  <2>1. o + j \in o + 1 .. o + Length(v) /\ o + j # o /\ o + j - o = j BY <1>3, <1>4
  <2>2. o + j \in Offsets
    <3>1. o + j \in o..o + A.width[o] - 1 BY <1>5, <2>1
    <3>2. o + A.width[o] <= A.current /\ A.current \in 1..ArenaSize
      BY DEF Heap, Blocks, IsOwner
    <3> QED BY <1>4, <2>1, <3>1, <3>2, OffsetNat DEF Offsets
  <2>3. PICK p : p = o + j OBVIOUS
  <2>4. p \in Offsets /\ p # o /\ p \in o + 1 .. o + Length(v) BY <2>1, <2>2, <2>3
  <2>5. p - o = j BY <1>3, <1>4, <2>3
  <2>6. M[p] = <<"value", v, p - o>> BY <1>h, <2>4
  <2> HIDE DEF B, M
  <2> QED BY <1>2, <2>3, <2>5, <2>6
<1>11. NoNewRings(A, B)
  <2> HIDE DEF B
  <2> QED BY <1>h, <1>2 DEF NoNewRings
<1>12. Holding(B, o, k, v) BY <1>2, <1>9, <1>10 DEF Holding, Room
<1> QED BY <1>1, <1>2, <1>7, <1>8, <1>11, <1>12

-----------------------------------------------------------------------------
(* The table.  at says for a key that is stored in which slot it is. *)
Slot == 0..Capacity - 1
Entry == [hash : Nat, version : Nat, key_len : Nat, val_len : Nat, data_offset : Offsets]
OfEntry(i) == <<"entry", i>>

(* The slot lies on the key's probe path, with no empty one before it. *)
Path(E, k, i) ==
  \E j \in Slot : probe(k, j) = i /\ \A l \in 0..j - 1 : E[probe(k, l)].hash # EMPTY_HASH

Stored(E, A, who, i, k, v) ==
  /\ i \in Slot /\ E[i].hash = hash_key(k) /\ E[i].key_len = KeyLen /\ E[i].val_len = Length(v)
  /\ who[E[i].data_offset] = OfEntry(i) /\ Holding(A, E[i].data_offset, k, v)
  /\ Path(E, k, i)

(* The entry e names the block at o for key and value; a function changed in one place. *)
Names(e, k, v, o) ==
  e.hash = hash_key(k) /\ e.key_len = KeyLen /\ e.val_len = Length(v) /\ e.data_offset = o
Differs(E, E1, i) == E1 \in [Slot -> Entry] /\ \A j \in Slot : j # i => E1[j] = E[j]
Sets(S, S1, k, v) == S1 = [S EXCEPT ![k] = v]

(* No other key is in the slot; no other slot has a block in X. *)
SlotOf(S, at, k, i) ==
  (S[k] # Nothing => at[k] = i) /\ \A l \in Keys : l # k /\ S[l] # Nothing => at[l] # i
BlocksOf(who, X, i) == \A o \in X : who[o][1] = "entry" => who[o] = OfEntry(i)

Table(E, A, S, who, at) ==
  /\ E \in [Slot -> Entry] /\ S \in [Keys -> Values \cup {Nothing}]
  /\ \A k \in Keys : S[k] # Nothing => Stored(E, A, who, at[k], k, S[k])
  /\ \A i \in Slot : E[i].hash \notin {EMPTY_HASH, TOMBSTONE_HASH} =>
       \E k \in Keys : S[k] # Nothing /\ at[k] = i

LEMMA HashNat == \A k \in Keys : hash_key(k) \in Nat /\ hash_key(k) > 1
BY KvAssumption DEF hash_key, TOMBSTONE_HASH

LEMMA ProbeSlot == \A k \in Keys : \A j \in Nat : probe(k, j) \in Slot
<1> SUFFICES ASSUME NEW k \in Keys, NEW j \in Nat PROVE probe(k, j) \in Slot OBVIOUS
<1>1. hash_key(k) + j \in Nat BY HashNat
<1>2. Capacity \in Nat \ {0} BY KvAssumption
<1> QED BY <1>1, <1>2 DEF probe, Slot

LEMMA Lengths == /\ \A v \in Values : Length(v) \in Nat
                 /\ Nothing \notin Values /\ KeyLen \in Nat /\ KeyLen = 1
BY KvAssumption DEF Values, Length, Nothing, KeyLen

(* Probing comes to every slot. *)
LEMMA ProbeAll ==
  ASSUME NEW k \in Keys, NEW i \in Slot
  PROVE  \E j \in Slot : probe(k, j) = i
<1> DEFINE h == hash_key(k)
           x == i - h
           j == x % Capacity
<1>1. h \in Nat /\ Capacity \in Nat \ {0} /\ i \in Nat /\ i \in 0..Capacity - 1
  BY HashNat, KvAssumption DEF Slot
<1>2. probe(k, j) = (h + j) % Capacity BY DEF probe
<1>3. x \in Int /\ x + h = i BY <1>1
<1> HIDE DEF h, x
<1>4. j \in Slot /\ j \in Int BY <1>1, <1>3, Division DEF Slot
<1>5. (j + h) % Capacity = (x + h) % Capacity BY <1>1, <1>3, h \in Int, AddModulo, Zenon
<1>6. i % Capacity = i BY <1>1
<1>7. h + j = j + h BY <1>1, <1>4
<1>8. probe(k, j) = i BY <1>2, <1>3, <1>5, <1>6, <1>7
<1> QED BY <1>4, <1>8

(* A key's probe ends in a table with an empty slot. *)
LEMMA ProbeEnds ==
  ASSUME NEW k \in Keys, DOMAIN entries \subseteq Slot, SlotLeft
  PROVE  Steps(k) # {}
<1>1. PICK i \in Slot : entries[i].hash = EMPTY_HASH BY DEF SlotLeft
<1>2. PICK j \in Slot : probe(k, j) = i BY ProbeAll
<1> QED BY <1>1, <1>2 DEF Steps, Stops, Slot

(* Only one key is in a slot. *)
LEMMA OneKey ==
  ASSUME NEW E, NEW A, NEW S, NEW who, NEW at, Table(E, A, S, who, at), NEW k \in Keys,
         NEW l \in Keys, S[k] # Nothing, S[l] # Nothing, at[k] = at[l]
  PROVE  k = l
<1>1. Stored(E, A, who, at[k], k, S[k]) /\ Stored(E, A, who, at[l], l, S[l]) BY DEF Table
<1>2. <<"key", k>> = <<"key", l>> BY <1>1 DEF Stored, Holding
<1> QED BY <1>2

LEMMA EntryIsOwner == \A i : IsOwner(OfEntry(i))
BY DEF IsOwner, OfEntry, Nobody, Free

(* Blocks that keep their contents hold what they held. *)
LEMMA HoldingKept ==
  ASSUME NEW A, NEW who, Heap(A, who), NEW B, NEW who1, NEW X, Keeps(A, who, B, who1, X),
         NEW o \in Offsets, o \notin X, IsOwner(who[o]), NEW k \in Keys, NEW v \in Values,
         Holding(A, o, k, v)
  PROVE  Holding(B, o, k, v) /\ who1[o] = who[o]
<1>1. /\ who1[o] = who[o] /\ B.width[o] = A.width[o]
      /\ \A p \in o..o + A.width[o] - 1 : B.memory[p] = A.memory[p]
  BY DEF Keeps
<1>2. o \in Nat /\ A.width[o] \in Nat /\ Length(v) \in Nat
  BY OffsetNat, Lengths DEF Heap, Blocks
<1>3. 1 + Length(v) <= A.width[o] BY Lengths DEF Holding, Room
<1>4. o \in o..o + A.width[o] - 1 BY <1>2, <1>3
<1>5. \A j \in 1..Length(v) : o + j \in o..o + A.width[o] - 1 BY <1>2, <1>3
<1> QED BY <1>1, <1>4, <1>5 DEF Holding, Room

(* The table stays when the blocks of its entries do. *)
LEMMA TableKept ==
  ASSUME NEW E, NEW A, NEW S, NEW who, NEW at, Table(E, A, S, who, at), Heap(A, who),
         NEW B, NEW who1, NEW X, Keeps(A, who, B, who1, X),
         \A o \in X : who[o][1] # "entry"
  PROVE  Table(E, B, S, who1, at)
<1>1. ASSUME NEW k \in Keys, S[k] # Nothing PROVE Stored(E, B, who1, at[k], k, S[k])
  <2>1. Stored(E, A, who, at[k], k, S[k]) BY <1>1 DEF Table
  <2> DEFINE o == E[at[k]].data_offset
  <2>2. E[at[k]] \in Entry BY <2>1 DEF Table, Stored
  <2>3. o \in Offsets BY <2>2 DEF Entry
  <2>4. who[o] = OfEntry(at[k]) BY <2>1 DEF Stored
  <2>5. o \notin X BY <2>4 DEF OfEntry
  <2>6. S[k] \in Values BY <1>1 DEF Table
  <2>7. Holding(B, o, k, S[k]) /\ who1[o] = who[o]
    <3>1. Holding(A, o, k, S[k]) BY <2>1 DEF Stored
    <3> HIDE DEF o
    <3> QED BY <2>3, <2>4, <2>5, <2>6, <3>1, HoldingKept, EntryIsOwner
  <2> QED BY <2>1, <2>4, <2>7 DEF Stored
<1> QED BY <1>1 DEF Table

(* The slots of the other keys, when one slot was written and keeps or gets a hash. *)
LEMMA OtherStored ==
  ASSUME NEW E, NEW A, NEW S, NEW who, NEW at, Table(E, A, S, who, at), Heap(A, who),
         NEW i \in Slot, NEW E1, \A j \in Slot : j # i => E1[j] = E[j], E1[i].hash # EMPTY_HASH,
         NEW B, NEW who1, NEW X, Keeps(A, who, B, who1, X),
         \A o \in X : who[o][1] = "entry" => who[o] = OfEntry(i),
         NEW k \in Keys, S[k] # Nothing, at[k] # i
  PROVE  Stored(E1, B, who1, at[k], k, S[k])
<1>1. Stored(E, A, who, at[k], k, S[k]) BY DEF Table
<1> DEFINE o == E[at[k]].data_offset
<1>2. at[k] \in Slot /\ E1[at[k]] = E[at[k]] BY <1>1 DEF Stored
<1>3. o \in Offsets
  <2>1. E[at[k]] \in Entry BY <1>2 DEF Table
  <2> QED BY <2>1 DEF Entry
<1>4. who[o] = OfEntry(at[k]) BY <1>1 DEF Stored
<1>5. o \notin X BY <1>4 DEF OfEntry
<1>6. Holding(B, o, k, S[k]) /\ who1[o] = who[o]
  <2>1. Holding(A, o, k, S[k]) /\ S[k] \in Values BY <1>1 DEF Stored, Table
  <2> HIDE DEF o
  <2> QED BY <1>3, <1>4, <1>5, <2>1, HoldingKept, EntryIsOwner
<1>7. Path(E1, k, at[k])
  <2>1. PICK j \in Slot : probe(k, j) = at[k] /\ \A l \in 0..j - 1 : E[probe(k, l)].hash # EMPTY_HASH
    BY <1>1 DEF Stored, Path
  <2>2. ASSUME NEW l \in 0..j - 1 PROVE E1[probe(k, l)].hash # EMPTY_HASH
    <3>1. l \in Nat BY DEF Slot
    <3>2. probe(k, l) \in Slot BY <3>1, ProbeSlot
    <3> QED BY <2>1, <3>2
  <2> QED BY <2>1, <2>2 DEF Path
<1> QED BY <1>1, <1>2, <1>4, <1>6, <1>7 DEF Stored

(* A slot on the path of a key is written, and the words of its block. *)
LEMMA TableStored ==
  ASSUME NEW E, NEW A, NEW S, NEW who, NEW at, Table(E, A, S, who, at), Heap(A, who),
         NEW i \in Slot, NEW k \in Keys, NEW v \in Values, Path(E, k, i), SlotOf(S, at, k, i),
         NEW E1, Differs(E, E1, i), NEW o, Names(E1[i], k, v, o), NEW S1, Sets(S, S1, k, v),
         NEW B, NEW who1, NEW X, Keeps(A, who, B, who1, X), BlocksOf(who, X, i),
         who1[o] = OfEntry(i), Holding(B, o, k, v)
  PROVE  \E at1 : Table(E1, B, S1, who1, at1)
<1> USE DEF Differs, Names, Sets, SlotOf, BlocksOf
<1> DEFINE at1 == [l \in Keys |-> IF l = k THEN i ELSE at[l]]
<1>1. S \in [Keys -> Values \cup {Nothing}] BY DEF Table
<1>2. /\ S1 \in [Keys -> Values \cup {Nothing}] /\ S1[k] = v
      /\ \A l \in Keys : l # k => S1[l] = S[l]
  BY <1>1
<1>3. E1[i].hash # EMPTY_HASH /\ E1[i].hash # TOMBSTONE_HASH
  BY HashNat DEF EMPTY_HASH, TOMBSTONE_HASH
<1>4. Path(E1, k, i)
  <2>1. PICK j \in Slot : probe(k, j) = i /\ \A l \in 0..j - 1 : E[probe(k, l)].hash # EMPTY_HASH
    BY DEF Path
  <2>2. ASSUME NEW l \in 0..j - 1 PROVE E1[probe(k, l)].hash # EMPTY_HASH
    <3>1. l \in Nat BY DEF Slot
    <3>2. probe(k, l) \in Slot BY <3>1, ProbeSlot
    <3> QED BY <1>3, <2>1, <3>2
  <2> QED BY <2>1, <2>2 DEF Path
<1>5. ASSUME NEW l \in Keys, S1[l] # Nothing PROVE Stored(E1, B, who1, at1[l], l, S1[l])
  <2>1. CASE l = k BY <1>2, <1>4, <2>1 DEF Stored
  <2>2. CASE l # k
    <3>1. S1[l] = S[l] /\ at1[l] = at[l] BY <1>2, <2>2
    <3> QED BY <1>3, <1>5, <2>2, <3>1, OtherStored
  <2> QED BY <2>1, <2>2
<1>6. ASSUME NEW j \in Slot, E1[j].hash \notin {EMPTY_HASH, TOMBSTONE_HASH}
      PROVE  \E l \in Keys : S1[l] # Nothing /\ at1[l] = j
  <2>1. CASE j = i BY <1>2, <2>1, Lengths
  <2>2. CASE j # i
    <3>1. PICK l \in Keys : S[l] # Nothing /\ at[l] = j BY <1>6, <2>2 DEF Table
    <3>2. l # k BY <2>2, <3>1
    <3> QED BY <1>2, <3>1, <3>2
  <2> QED BY <2>1, <2>2
<1> HIDE DEF at1
<1> QED BY <1>2, <1>5, <1>6 DEF Table

(* A slot becomes a tombstone. *)
LEMMA TableRemoved ==
  ASSUME NEW E, NEW A, NEW S, NEW who, NEW at, Table(E, A, S, who, at), Heap(A, who),
         NEW k \in Keys, S[k] # Nothing,
         NEW E1, Differs(E, E1, at[k]), E1[at[k]].hash = TOMBSTONE_HASH,
         NEW S1, Sets(S, S1, k, Nothing),
         NEW B, NEW who1, NEW X, Keeps(A, who, B, who1, X), BlocksOf(who, X, at[k])
  PROVE  Table(E1, B, S1, who1, at)
<1> USE DEF Differs, Sets, BlocksOf
<1>1. S \in [Keys -> Values \cup {Nothing}] BY DEF Table
<1>2. /\ S1 \in [Keys -> Values \cup {Nothing}] /\ S1[k] = Nothing
      /\ \A l \in Keys : l # k => S1[l] = S[l]
  BY <1>1
<1>3. at[k] \in Slot BY DEF Table, Stored
<1>4. E1[at[k]].hash # EMPTY_HASH BY DEF EMPTY_HASH, TOMBSTONE_HASH
<1>5. ASSUME NEW l \in Keys, S1[l] # Nothing PROVE Stored(E1, B, who1, at[l], l, S1[l])
  <2>1. l # k /\ S1[l] = S[l] BY <1>2, <1>5
  <2>2. at[l] # at[k] BY <1>5, <2>1, OneKey
  <2> QED BY <1>3, <1>4, <1>5, <2>1, <2>2, OtherStored
<1>6. ASSUME NEW j \in Slot, E1[j].hash \notin {EMPTY_HASH, TOMBSTONE_HASH}
      PROVE  \E l \in Keys : S1[l] # Nothing /\ at[l] = j
  <2>1. j # at[k] BY <1>6
  <2>2. PICK l \in Keys : S[l] # Nothing /\ at[l] = j BY <1>6, <2>1 DEF Table
  <2> QED BY <1>2, <2>1, <2>2
<1> QED BY <1>2, <1>5, <1>6 DEF Table

(* What find_entry finds. *)
LEMMA Lookup ==
  ASSUME NEW who, NEW at, Table(entries, Arena, stored, who, at), NEW k \in Keys
  PROVE  /\ Found(k) <=> stored[k] # Nothing
         /\ Found(k) => find_entry(k) = at[k]
         /\ Steps(k) # {} => find_entry(k) \in Slot
         /\ Steps(k) # {} /\ ~Found(k) => /\ entries[find_entry(k)].hash = EMPTY_HASH
                                          /\ Path(entries, k, find_entry(k))
<1>1. ASSUME NEW i \in Slot, IsMatch(entries[i], k) PROVE stored[k] # Nothing /\ at[k] = i
  <2>1. entries[i].hash \notin {EMPTY_HASH, TOMBSTONE_HASH}
    BY <1>1, HashNat DEF IsMatch, EMPTY_HASH, TOMBSTONE_HASH
  <2>2. PICK l \in Keys : stored[l] # Nothing /\ at[l] = i BY <2>1 DEF Table
  <2>3. Stored(entries, Arena, who, i, l, stored[l]) BY <2>2 DEF Table
  <2>4. memory[entries[i].data_offset] = <<"key", l>> BY <2>3 DEF Stored, Holding, Arena
  <2>5. memory[entries[i].data_offset] = <<"key", k>> BY <1>1 DEF IsMatch, keys_equal
  <2>6. l = k BY <2>4, <2>5
  <2> QED BY <2>2, <2>6
<1>2. Steps(k) \subseteq Nat /\ Steps(k) \subseteq Slot
  BY KvAssumption DEF Steps, Slot
<1>3. ASSUME Steps(k) # {}
      PROVE  /\ Min(Steps(k)) \in Slot /\ Stops(k, Min(Steps(k))) /\ find_entry(k) \in Slot
             /\ \A j \in Steps(k) : Min(Steps(k)) <= j
  <2>1. Min(Steps(k)) \in Steps(k) /\ \A j \in Steps(k) : Min(Steps(k)) <= j
    BY <1>2, <1>3, MinElement
  <2>2. Min(Steps(k)) \in Nat BY <1>2, <2>1
  <2>3. find_entry(k) \in Slot BY <2>2, ProbeSlot DEF find_entry
  <2> QED BY <1>2, <2>1, <2>3 DEF Steps
<1>4. Found(k) => stored[k] # Nothing /\ find_entry(k) = at[k] BY <1>1, <1>3 DEF Found
<1>5. ASSUME stored[k] # Nothing PROVE Found(k)
  <2>1. Stored(entries, Arena, who, at[k], k, stored[k]) BY <1>5 DEF Table
  <2>2. IsMatch(entries[at[k]], k) BY <2>1 DEF Stored, Holding, Arena, IsMatch, keys_equal
  <2>3. PICK j \in Slot : probe(k, j) = at[k]
                          /\ \A l \in 0..j - 1 : entries[probe(k, l)].hash # EMPTY_HASH
    BY <2>1 DEF Stored, Path
  <2>4. j \in Steps(k) BY <2>2, <2>3 DEF Steps, Stops, Slot
  <2> DEFINE m == Min(Steps(k))
  <2>5. m \in Slot /\ Stops(k, m) /\ m <= j BY <1>3, <2>4
  <2>6. find_entry(k) = probe(k, m) BY DEF find_entry
  <2> HIDE DEF m
  <2>7. CASE m = j BY <2>2, <2>3, <2>4, <2>6, <2>7 DEF Found
  <2>8. CASE m # j
    <3>1. m \in 0..j - 1 BY <2>5, <2>8 DEF Slot
    <3>2. IsMatch(entries[probe(k, m)], k) BY <2>3, <2>5, <3>1 DEF Stops
    <3> QED BY <2>4, <2>6, <3>2 DEF Found
  <2> QED BY <2>7, <2>8
<1>6. ASSUME Steps(k) # {}, ~Found(k)
      PROVE  entries[find_entry(k)].hash = EMPTY_HASH /\ Path(entries, k, find_entry(k))
  <2> DEFINE m == Min(Steps(k))
  <2>1. m \in Slot /\ Stops(k, m) /\ \A j \in Steps(k) : m <= j BY <1>3, <1>6
  <2>2. find_entry(k) = probe(k, m) BY DEF find_entry
  <2> HIDE DEF m
  <2>3. entries[find_entry(k)].hash = EMPTY_HASH BY <1>6, <2>1, <2>2 DEF Stops, Found
  <2>4. ASSUME NEW l \in 0..m - 1 PROVE entries[probe(k, l)].hash # EMPTY_HASH
    <3>1. l \in 0..Capacity - 1 /\ ~(m <= l) BY <2>1, KvAssumption DEF Slot
    <3>2. l \notin Steps(k) BY <2>1, <3>1
    <3> QED BY <3>1, <3>2 DEF Steps, Stops
  <2> QED BY <2>1, <2>2, <2>3, <2>4 DEF Path
<1> QED BY <1>3, <1>4, <1>5, <1>6

-----------------------------------------------------------------------------
(* Operations on the table. *)
KvMem(who, at) == Heap(Arena, who) /\ Table(entries, Arena, stored, who, at)
Entries(who) == {o \in Offsets : who[o][1] = "entry"}

(* An operation keeps heap and table, and touches no block that is not an entry's. *)
KvKept(who) ==
  \E who1, at1 : /\ KvMem(who1, at1)' /\ Keeps(Arena, who, Arena', who1, Entries(who))
                 /\ NoNewRings(Arena, Arena')

LEMMA ArenaNow ==
  ASSUME NEW A, Becomes(A)
  PROVE  Arena'.memory = A.memory /\ Arena'.width = A.width /\ Arena'.smashed = A.smashed
BY DEF Becomes, Arena

LEMMA EntryOwner == \A w : w[1] = "entry" => IsOwner(w)
<1> SUFFICES ASSUME NEW w, w[1] = "entry" PROVE IsOwner(w) OBVIOUS
<1>1. Nobody[1] = "none" /\ \A c : Free(c)[1] = "free" BY DEF Nobody, Free
<1> QED BY <1>1 DEF IsOwner

(* Key and value are copied to a block of the slot, which takes the key in. *)
LEMMA PutKept ==
  ASSUME NEW who, NEW at, KvMem(who, at), NEW i \in Slot, NEW k \in Keys, NEW v \in Values,
         Path(entries, k, i), SlotOf(stored, at, k, i),
         NEW G, NEW o \in Offsets, NEW who1, Heap(G, who1), who1[o] = OfEntry(i), Room(G, o, v),
         NEW X, Keeps(Arena, who, G, who1, X), BlocksOf(who, X, i), X \subseteq Entries(who),
         NoNewRings(Arena, G), Becomes(copied(G, o, k, v)),
         Differs(entries, entries', i), Names(entries'[i], k, v, o), Sets(stored, stored', k, v)
  PROVE  KvKept(who)
<1>1. PICK C : C = copied(G, o, k, v) OBVIOUS
<1>2. /\ Heap(C, who1) /\ Keeps(G, who1, C, who1, {o}) /\ NoNewRings(G, C)
      /\ Holding(C, o, k, v)
  <2>1. IsOwner(who1[o]) BY EntryIsOwner
  <2> QED BY <1>1, <2>1, CopiedHeap
<1>3. Becomes(C) BY <1>1
<1>4. Heap(Arena, who1)' BY <1>2, <1>3, HeapFields
<1>5. Arena'.memory = C.memory /\ Arena'.width = C.width BY <1>3, ArenaNow
<1>6. Keeps(Arena, who, C, who1, X \cup {o}) BY <1>2, KeepsAfter
<1>7. Keeps(Arena, who, Arena', who1, X \cup {o}) BY <1>5, <1>6 DEF Keeps
<1>8. who[o][1] = "entry" => who[o] = OfEntry(i)
  <2> SUFFICES ASSUME who[o][1] = "entry", o \notin X PROVE who[o] = OfEntry(i)
    BY DEF BlocksOf
  <2> QED BY EntryOwner DEF Keeps
<1>9. Holding(Arena', o, k, v) BY <1>2, <1>5 DEF Holding, Room
<1>10. PICK at1 : Table(entries', Arena', stored', who1, at1)
  <2>1. Table(entries, Arena, stored, who, at) /\ Heap(Arena, who) BY DEF KvMem
  <2>2. BlocksOf(who, X \cup {o}, i) BY <1>8 DEF BlocksOf
  <2> QED BY <1>7, <1>9, <2>1, <2>2, TableStored
<1>11. Keeps(Arena, who, Arena', who1, Entries(who))
  <2>1. IsOwner(who[o]) /\ o \notin X => o \in Entries(who)
    BY DEF Keeps, Entries, OfEntry
  <2>2. \A p \in Offsets : IsOwner(who[p]) /\ p \notin Entries(who) => p \notin X \cup {o}
    BY <2>1
  <2> QED BY <1>7, <2>2 DEF Keeps
<1>12. NoNewRings(Arena, Arena') BY <1>2, <1>5 DEF NoNewRings
<1>13. KvMem(who1, at1)' BY <1>4, <1>10 DEF KvMem
<1> QED BY <1>11, <1>12, <1>13 DEF KvKept

LEMMA InsertNewKept ==
  ASSUME NEW who, NEW at, KvMem(who, at), NEW k \in Keys, NEW v \in Values, InsertNew(k, v)
  PROVE  KvKept(who)
<1> DEFINE i == find_entry(k)
           n == KeyLen + Length(v)
           a == allocate(Arena, n, 1)
           e == [hash |-> hash_key(k), version |-> 1, key_len |-> KeyLen,
                 val_len |-> Length(v), data_offset |-> a.offset]
<1>1. /\ Steps(k) # {} /\ ~Found(k) /\ a.offset # 0 /\ Becomes(copied(a.arena, a.offset, k, v))
      /\ entries' = [entries EXCEPT ![i] = e] /\ stored' = [stored EXCEPT ![k] = v]
  BY DEF InsertNew
<1>2. Table(entries, Arena, stored, who, at) /\ Heap(Arena, who) BY DEF KvMem
<1>3. i \in Slot /\ entries[i].hash = EMPTY_HASH /\ Path(entries, k, i) /\ stored[k] = Nothing
  BY <1>1, <1>2, Lookup
<1>4. \A l \in Keys : stored[l] # Nothing => at[l] # i
  <2> SUFFICES ASSUME NEW l \in Keys, stored[l] # Nothing, at[l] = i PROVE FALSE OBVIOUS
  <2>1. entries[i].hash = hash_key(l) BY <1>2 DEF Table, Stored
  <2> QED BY <1>3, <2>1, HashNat DEF EMPTY_HASH
<1>5. n \in Nat \ {0} BY Lengths
<1> HIDE DEF a, n
<1>6. /\ a.offset \in Offsets /\ a.arena.memory = memory /\ n <= a.arena.width[a.offset]
      /\ \E who1 : /\ Given(who, a.offset, OfEntry(i), who1) /\ Heap(a.arena, who1)
                   /\ Keeps(Arena, who, a.arena, who1, {})
  <2>1. a = allocate(Arena, n, 1) /\ Arena.memory = memory BY DEF a, Arena
  <2>2. 1 \in Nat \ {0} OBVIOUS
  <2> HIDE DEF i
  <2> QED BY <1>1, <1>2, <1>5, <2>1, <2>2, AllocateHeap, EntryIsOwner
<1>7. PICK who1 : /\ Given(who, a.offset, OfEntry(i), who1) /\ Heap(a.arena, who1)
                  /\ Keeps(Arena, who, a.arena, who1, {})
  BY <1>6
<1>8. NoNewRings(Arena, a.arena) BY <1>6 DEF NoNewRings, Arena
<1>9. e \in Entry BY <1>6, HashNat, Lengths DEF Entry
<1>10. Differs(entries, entries', i) /\ entries'[i] = e
  <2>1. entries \in [Slot -> Entry] BY <1>2 DEF Table
  <2> HIDE DEF e, i
  <2> QED BY <1>1, <1>3, <1>9, <2>1 DEF Differs
<1>11. Names(e, k, v, a.offset) BY DEF Names
<1>12. who1[a.offset] = OfEntry(i) BY <1>7 DEF Given
<1>13. SlotOf(stored, at, k, i) /\ Sets(stored, stored', k, v) BY <1>1, <1>3, <1>4 DEF SlotOf, Sets
<1>14. BlocksOf(who, {}, i) /\ {} \subseteq Entries(who) BY DEF BlocksOf
<1>15. Room(a.arena, a.offset, v) BY <1>6 DEF Room, n
<1> HIDE DEF e, i
<1>16. Names(entries'[i], k, v, a.offset) BY <1>10, <1>11
<1>17. PICK G, o : G = a.arena /\ o = a.offset OBVIOUS
<1>18. /\ o \in Offsets /\ Becomes(copied(G, o, k, v)) /\ who1[o] = OfEntry(i)
       /\ Heap(G, who1) /\ Keeps(Arena, who, G, who1, {}) /\ NoNewRings(Arena, G) /\ Room(G, o, v)
       /\ Names(entries'[i], k, v, o)
  BY <1>1, <1>6, <1>7, <1>8, <1>12, <1>15, <1>16, <1>17
<1>19. i \in Slot /\ Path(entries, k, i) /\ Differs(entries, entries', i) BY <1>3, <1>10
<1> QED BY <1>13, <1>14, <1>18, <1>19, PutKept

(* The length of what is in an entry's block. *)
Sized(e) ==
  e.key_len + e.val_len \in Nat \ {0} /\ e.key_len + e.val_len <= width[e.data_offset]

LEMMA FreeFields ==
  ASSUME NEW A, DOMAIN A = ArenaFields, NEW o, NEW n, NEW F, F = free(A, o, n)
  PROVE  DOMAIN F = ArenaFields
BY DEF free, ArenaFields

LEMMA AllocateFields ==
  ASSUME NEW A, DOMAIN A = ArenaFields, NEW n, NEW align, NEW a, a = allocate(A, n, align)
  PROVE  a.arena.smashed = A.smashed /\ DOMAIN a.arena = ArenaFields
<1>1. PICK c, x, st, y :
        \/ a = [offset |-> x, arena |-> [A EXCEPT !.free_lists[c] = y]]
        \/ a = [offset |-> x, arena |-> [A EXCEPT !.current = y, !.width[st] = n]]
        \/ a = [offset |-> x, arena |-> A]
  BY DEF allocate
<1>2. CASE a = [offset |-> x, arena |-> [A EXCEPT !.free_lists[c] = y]] BY <1>2 DEF ArenaFields
<1>3. CASE a = [offset |-> x, arena |-> [A EXCEPT !.current = y, !.width[st] = n]]
  <2> DEFINE B == [A EXCEPT !.current = y, !.width[st] = n]
  <2>1. B.smashed = A.smashed /\ DOMAIN B = ArenaFields BY DEF ArenaFields
  <2>2. a.arena = B BY <1>3
  <2> HIDE DEF B
  <2> QED BY <2>1, <2>2
<1>4. CASE a = [offset |-> x, arena |-> A] BY <1>4
<1> QED BY <1>1, <1>2, <1>3, <1>4

(* What is in the slot of a key that is found. *)
LEMMA FoundEntry ==
  ASSUME NEW who, NEW at, KvMem(who, at), NEW k \in Keys, Found(k), NEW e,
         e = entries[find_entry(k)]
  PROVE  /\ find_entry(k) = at[k] /\ at[k] \in Slot /\ SlotOf(stored, at, k, at[k])
         /\ Path(entries, k, at[k]) /\ e \in Entry /\ e.data_offset \in Offsets
         /\ who[e.data_offset] = OfEntry(at[k]) /\ e.hash = hash_key(k) /\ e.key_len = KeyLen
         /\ Sized(e) /\ stored[k] # Nothing
<1>1. Table(entries, Arena, stored, who, at) BY DEF KvMem
<1>2. stored[k] # Nothing /\ find_entry(k) = at[k] BY <1>1, Lookup
<1>3. Stored(entries, Arena, who, at[k], k, stored[k]) /\ stored[k] \in Values BY <1>1, <1>2 DEF Table
<1>4. at[k] \in Slot /\ e = entries[at[k]] /\ Path(entries, k, at[k]) BY <1>2, <1>3 DEF Stored
<1>5. e \in Entry BY <1>1, <1>4 DEF Table
<1>6. e.data_offset \in Offsets BY <1>5 DEF Entry
<1>7. /\ who[e.data_offset] = OfEntry(at[k]) /\ e.key_len = KeyLen /\ e.val_len = Length(stored[k])
      /\ e.hash = hash_key(k) /\ KeyLen + Length(stored[k]) <= width[e.data_offset]
  BY <1>3, <1>4 DEF Stored, Holding, Room, Arena
<1>8. Sized(e) BY <1>3, <1>7, Lengths DEF Sized
<1>9. SlotOf(stored, at, k, at[k]) BY <1>1, <1>2, OneKey DEF SlotOf
<1> QED BY <1>2, <1>4, <1>5, <1>6, <1>7, <1>8, <1>9

(* The block of an entry that grows. *)
LEMMA GrownHeap ==
  ASSUME NEW who, NEW at, KvMem(who, at), NEW k \in Keys, Found(k), NEW e,
         e = entries[find_entry(k)], NEW v \in Values, NEW g, g = Grown(e, KeyLen + Length(v)),
         g.offset # 0, ~g.arena.smashed
  PROVE  /\ g.offset \in Offsets /\ Room(g.arena, g.offset, v)
         /\ \E who1 : /\ Heap(g.arena, who1) /\ who1[g.offset] = OfEntry(at[k])
                      /\ Keeps(Arena, who, g.arena, who1, {e.data_offset})
         /\ NoNewRings(Arena, g.arena)
<1> DEFINE n == KeyLen + Length(v)
           m == e.key_len + e.val_len
           o == e.data_offset
<1>1. n \in Nat \ {0} BY Lengths
<1>2. /\ at[k] \in Slot /\ o \in Offsets /\ who[o] = OfEntry(at[k]) /\ m \in Nat \ {0}
      /\ m <= width[o]
  <2>1. /\ at[k] \in Slot /\ e.data_offset \in Offsets /\ who[e.data_offset] = OfEntry(at[k])
        /\ Sized(e)
    BY FoundEntry
  <2> QED BY <2>1 DEF Sized
<1>3. Heap(Arena, who) BY DEF KvMem
<1>4. IsOwner(who[o]) /\ IsOwner(OfEntry(at[k])) BY <1>2, EntryIsOwner
<1>5. CASE n > m
  <2>1. PICK F : F = free(Arena, o, m) OBVIOUS
  <2>2. g = allocate(F, n, 1) BY <1>5, <2>1 DEF Grown
  <2> HIDE DEF n, m, o
  <2>4. ~F.smashed /\ Heap(Arena, who)
    <3>1. DOMAIN F = ArenaFields BY <1>3, <2>1, FreeFields DEF Heap, Blocks
    <3>2. g.arena.smashed = F.smashed BY <2>2, <3>1, AllocateFields
    <3> QED BY <1>3, <3>2
  <2>5. PICK who1, x : /\ Given(who, o, x, who1) /\ x[1] \in {"lost", "free"}
                       /\ Heap(F, who1) /\ Keeps(Arena, who, F, who1, {o})
    BY <1>2, <1>3, <1>4, <2>1, <2>4, FreeHeap
  <2>6. NoNewRings(Arena, F) BY <1>2, <1>3, <1>4, <2>1, <2>4, FreeHeap
  <2>7. 1 \in Nat \ {0} OBVIOUS
  <2>8. /\ g.offset \in Offsets /\ g.arena.memory = F.memory /\ n <= g.arena.width[g.offset]
        /\ \E who2 : /\ Given(who1, g.offset, OfEntry(at[k]), who2) /\ Heap(g.arena, who2)
                     /\ Keeps(F, who1, g.arena, who2, {})
    BY <1>1, <1>4, <2>2, <2>5, <2>7, AllocateHeap
  <2>9. PICK who2 : /\ Given(who1, g.offset, OfEntry(at[k]), who2) /\ Heap(g.arena, who2)
                    /\ Keeps(F, who1, g.arena, who2, {})
    BY <2>8
  <2>10. Keeps(Arena, who, g.arena, who2, {o} \cup {}) BY <2>5, <2>9, KeepsAfter
  <2>11. Keeps(Arena, who, g.arena, who2, {o}) BY <2>10
  <2>12. NoNewRings(Arena, g.arena) BY <2>6, <2>8 DEF NoNewRings
  <2>13. Room(g.arena, g.offset, v) BY <2>8 DEF Room, n
  <2> QED BY <2>8, <2>9, <2>11, <2>12, <2>13 DEF Given, o
<1>6. CASE ~(n > m)
  <2>1. g = [offset |-> o, arena |-> Arena] BY <1>6 DEF Grown
  <2>2. g.offset = o /\ g.arena = Arena BY <2>1
  <2>3. Room(Arena, o, v)
    <3>1. n <= m BY <1>1, <1>2, <1>6
    <3>2. Arena.width[o] = width[o] /\ width[o] \in Nat
      BY <1>2, <1>3 DEF Heap, Blocks, Arena
    <3>3. n <= Arena.width[o] BY <1>1, <1>2, <3>1, <3>2
    <3> QED BY <3>3 DEF Room
  <2>4. NoNewRings(Arena, Arena) /\ Keeps(Arena, who, Arena, who, {o}) BY DEF NoNewRings, Keeps
  <2> HIDE DEF n, m, o
  <2> QED BY <1>2, <1>3, <2>2, <2>3, <2>4 DEF o
<1> QED BY <1>5, <1>6

LEMMA NotSmashed ==
  ASSUME NEW e, NEW n, NEW g, g = Grown(e, n), NEW k, NEW v,
         Becomes(copied(g.arena, g.offset, k, v)), ~smashed'
  PROVE  ~g.arena.smashed
<1>1. PICK C : C = copied(g.arena, g.offset, k, v) OBVIOUS
<1>2. smashed' = C.smashed BY <1>1 DEF Becomes
<1>3. DOMAIN g.arena = ArenaFields
  <2>1. DOMAIN Arena = ArenaFields BY DEF Arena, ArenaFields
  <2>2. PICK o, m : g = IF n > m THEN allocate(free(Arena, o, m), n, 1)
                        ELSE [offset |-> o, arena |-> Arena]
    BY DEF Grown
  <2>3. PICK F : F = free(Arena, o, m) OBVIOUS
  <2>4. DOMAIN F = ArenaFields BY <2>1, <2>3, FreeFields
  <2>5. CASE g = allocate(F, n, 1) BY <2>4, <2>5, AllocateFields
  <2>6. CASE g = [offset |-> o, arena |-> Arena] BY <2>1, <2>6
  <2> QED BY <2>2, <2>3, <2>5, <2>6
<1>4. C.smashed = g.arena.smashed BY <1>1, <1>3 DEF copied, ArenaFields
<1> QED BY <1>2, <1>4

(* Overwriting the value of a key, with any version. *)
LEMMA OverKept ==
  ASSUME NEW who, NEW at, KvMem(who, at), NEW k \in Keys, Found(k), NEW v \in Values,
         NEW e, e = entries[find_entry(k)], NEW g, g = Grown(e, KeyLen + Length(v)),
         g.offset # 0, ~smashed', Becomes(copied(g.arena, g.offset, k, v)),
         NEW e1 \in Entry, Names(e1, k, v, g.offset),
         entries' = [entries EXCEPT ![find_entry(k)] = e1],
         Sets(stored, stored', k, v)
  PROVE  KvKept(who)
<1> DEFINE i == at[k]
<1>1. /\ find_entry(k) = i /\ i \in Slot /\ SlotOf(stored, at, k, i) /\ Path(entries, k, i)
      /\ e.data_offset \in Offsets /\ who[e.data_offset] = OfEntry(i) /\ stored[k] # Nothing
  BY FoundEntry
<1>2. ~g.arena.smashed BY NotSmashed
<1>3. /\ g.offset \in Offsets /\ Room(g.arena, g.offset, v) /\ NoNewRings(Arena, g.arena)
      /\ \E who1 : /\ Heap(g.arena, who1) /\ who1[g.offset] = OfEntry(i)
                   /\ Keeps(Arena, who, g.arena, who1, {e.data_offset})
  BY <1>2, GrownHeap
<1>4. PICK who1 : /\ Heap(g.arena, who1) /\ who1[g.offset] = OfEntry(i)
                  /\ Keeps(Arena, who, g.arena, who1, {e.data_offset})
  BY <1>3
<1>5. Differs(entries, entries', i) /\ entries'[i] = e1
  <2>1. entries \in [Slot -> Entry] BY DEF KvMem, Table
  <2> HIDE DEF i
  <2> QED BY <1>1, <2>1 DEF Differs
<1>6. PICK X : X = {e.data_offset} OBVIOUS
<1>7. BlocksOf(who, X, i) /\ X \subseteq Entries(who)
  BY <1>1, <1>6 DEF BlocksOf, Entries, OfEntry
<1>8. PICK G, o : G = g.arena /\ o = g.offset OBVIOUS
<1>9. /\ o \in Offsets /\ Becomes(copied(G, o, k, v)) /\ who1[o] = OfEntry(i)
      /\ Heap(G, who1) /\ Keeps(Arena, who, G, who1, X) /\ NoNewRings(Arena, G) /\ Room(G, o, v)
      /\ Names(entries'[i], k, v, o)
  BY <1>3, <1>4, <1>5, <1>6, <1>8
<1> HIDE DEF i
<1> QED BY <1>1, <1>5, <1>7, <1>9, PutKept

LEMMA InsertOverKept ==
  ASSUME NEW who, NEW at, KvMem(who, at), NEW k \in Keys, NEW v \in Values, InsertOver(k, v),
         ~smashed'
  PROVE  KvKept(who)
<1> DEFINE i == find_entry(k)
<1>1. PICK e : e = entries[i] OBVIOUS
<1>2. PICK g : g = Grown(e, KeyLen + Length(v)) OBVIOUS
<1> DEFINE e1 == [e EXCEPT !.data_offset = g.offset, !.key_len = KeyLen, !.val_len = Length(v)]
<1>3. /\ Found(k) /\ g.offset # 0 /\ Becomes(copied(g.arena, g.offset, k, v))
      /\ entries' = [entries EXCEPT ![i] = e1] /\ Sets(stored, stored', k, v)
  BY <1>1, <1>2 DEF InsertOver, Sets
<1>4. e \in Entry /\ e.hash = hash_key(k) BY <1>1, <1>3, FoundEntry
<1>5. g.offset \in Offsets
  <2>1. ~g.arena.smashed BY <1>2, <1>3, NotSmashed
  <2> QED BY <1>1, <1>2, <1>3, <2>1, GrownHeap
<1>6. e1 \in Entry BY <1>4, <1>5, Lengths DEF Entry
<1>7. Names(e1, k, v, g.offset) BY <1>4 DEF Entry, Names
<1> HIDE DEF e1, i
<1> QED BY <1>1, <1>2, <1>3, <1>6, <1>7, OverKept DEF i

LEMMA CasKept ==
  ASSUME NEW who, NEW at, KvMem(who, at), NEW k \in Keys, NEW v \in Values, cas(k, v), ~smashed'
  PROVE  KvKept(who)
<1> DEFINE i == find_entry(k)
<1>1. PICK e : e = entries[i] OBVIOUS
<1>2. PICK g : g = Grown(e, KeyLen + Length(v)) OBVIOUS
<1> DEFINE e1 == [e EXCEPT !.data_offset = g.offset, !.val_len = Length(v),
                           !.version = next_version(e.version)]
<1>3. /\ Found(k) /\ g.offset # 0 /\ Becomes(copied(g.arena, g.offset, k, v))
      /\ entries' = [entries EXCEPT ![i] = e1] /\ Sets(stored, stored', k, v)
  BY <1>1, <1>2 DEF cas, Sets
<1>4. e \in Entry /\ e.hash = hash_key(k) /\ e.key_len = KeyLen BY <1>1, <1>3, FoundEntry
<1>5. g.offset \in Offsets
  <2>1. ~g.arena.smashed BY <1>2, <1>3, NotSmashed
  <2> QED BY <1>1, <1>2, <1>3, <2>1, GrownHeap
<1>6. e1 \in Entry
  <2>1. e.version \in Nat BY <1>4 DEF Entry
  <2>2. next_version(e.version) \in Nat BY <2>1 DEF next_version
  <2> QED BY <1>4, <1>5, <2>2, Lengths DEF Entry
<1>7. Names(e1, k, v, g.offset) BY <1>4 DEF Entry, Names
<1> HIDE DEF e1, i
<1> QED BY <1>1, <1>2, <1>3, <1>6, <1>7, OverKept DEF i

LEMMA RemoveOneKept ==
  ASSUME NEW who, NEW at, KvMem(who, at), NEW k \in Keys, remove(k), ~smashed'
  PROVE  KvKept(who)
<1>1. PICK e : e = entries[find_entry(k)] OBVIOUS
<1>2. PICK F : F = free(Arena, e.data_offset, e.key_len + e.val_len) OBVIOUS
<1> DEFINE e1 == [NewEntry EXCEPT !.hash = mark_tombstone, !.version = e.version]
<1>3. /\ Found(k) /\ Becomes(F) /\ Sets(stored, stored', k, Nothing)
      /\ entries' = [entries EXCEPT ![find_entry(k)] = e1]
  BY <1>1, <1>2 DEF remove, Sets
<1>4. /\ find_entry(k) = at[k] /\ at[k] \in Slot /\ e \in Entry /\ e.data_offset \in Offsets
      /\ who[e.data_offset] = OfEntry(at[k]) /\ Sized(e) /\ stored[k] # Nothing
  BY <1>1, <1>3, FoundEntry
<1>5. e1 \in Entry /\ e1.hash = TOMBSTONE_HASH
  <2>1. e.version \in Nat BY <1>4 DEF Entry
  <2> QED BY <2>1, OffsetNat DEF Entry, NewEntry, mark_tombstone, TOMBSTONE_HASH, EMPTY_HASH
<1>6. Differs(entries, entries', at[k]) /\ entries'[at[k]].hash = TOMBSTONE_HASH
  <2>1. entries \in [Slot -> Entry] BY DEF KvMem, Table
  <2> HIDE DEF e1
  <2> QED BY <1>3, <1>4, <1>5, <2>1 DEF Differs
<1>7. PICK o, n : o = e.data_offset /\ n = e.key_len + e.val_len OBVIOUS
<1>8. n \in Nat \ {0} /\ o \in Offsets /\ F = free(Arena, o, n) BY <1>2, <1>4, <1>7 DEF Sized
<1>9. IsOwner(who[o]) /\ Heap(Arena, who) BY <1>4, <1>7, EntryIsOwner DEF KvMem
<1>10. ~F.smashed BY <1>3 DEF Becomes
<1>11. PICK who1, x : Heap(F, who1) /\ Keeps(Arena, who, F, who1, {o})
  BY <1>8, <1>9, <1>10, FreeHeap
<1>12. NoNewRings(Arena, F) BY <1>8, <1>9, <1>10, FreeHeap
<1>13. Arena'.memory = F.memory /\ Arena'.width = F.width BY <1>3, ArenaNow
<1>14. Heap(Arena, who1)' BY <1>3, <1>11, HeapFields
<1>15. Keeps(Arena, who, Arena', who1, {o}) BY <1>11, <1>13 DEF Keeps
<1>16. NoNewRings(Arena, Arena') BY <1>12, <1>13 DEF NoNewRings
<1>17. Keeps(Arena, who, Arena', who1, Entries(who))
  <2>1. o \in Entries(who) BY <1>4, <1>7, <1>8 DEF Entries, OfEntry
  <2> QED BY <1>15, <2>1 DEF Keeps
<1>18. BlocksOf(who, {o}, at[k]) BY <1>4, <1>7 DEF BlocksOf
<1>19. Table(entries', Arena', stored', who1, at)
  <2>1. Table(entries, Arena, stored, who, at) BY DEF KvMem
  <2> QED BY <1>3, <1>4, <1>6, <1>9, <1>15, <1>18, <2>1, TableRemoved
<1>20. KvMem(who1, at)' BY <1>14, <1>19 DEF KvMem
<1> QED BY <1>16, <1>17, <1>20 DEF KvKept

(* What does not change the store. *)
LEMMA SameKept ==
  ASSUME NEW who, NEW at, KvMem(who, at), UNCHANGED <<entries, stored, arenaVars>>
  PROVE  KvKept(who)
<1>1. UNCHANGED <<entries, stored, Arena>> BY DEF arenaVars, Arena
<1>2. KvMem(who, at)' BY <1>1 DEF KvMem
<1>3. Keeps(Arena, who, Arena', who, Entries(who)) /\ NoNewRings(Arena, Arena')
  BY <1>1 DEF Keeps, NoNewRings
<1> QED BY <1>2, <1>3 DEF KvKept

(* Any operation. *)
LEMMA NextKept ==
  ASSUME NEW who, NEW at, KvMem(who, at), Next, ~smashed', ~dangling' PROVE KvKept(who)
<1>1. PICK k \in Keys : \/ Hangs(k) \/ remove(k)
                        \/ \E v \in Values : \/ InsertNew(k, v) \/ InsertOver(k, v)
                                             \/ GrowFails(k, v) \/ cas(k, v)
  BY DEF Next
<1>2. CASE Hangs(k) BY <1>2, SameKept DEF Hangs, tableVars
<1>3. CASE remove(k) BY <1>3, RemoveOneKept
<1>4. ASSUME NEW v \in Values,
             InsertNew(k, v) \/ InsertOver(k, v) \/ GrowFails(k, v) \/ cas(k, v)
      PROVE  KvKept(who)
  <2>1. ~GrowFails(k, v) BY DEF GrowFails
  <2> QED BY <1>4, <2>1, InsertNewKept, InsertOverKept, CasKept
<1> QED BY <1>1, <1>2, <1>3, <1>4

-----------------------------------------------------------------------------
(* Sessions.  A call past WriteId has an id of its own; a descriptor with that id is the one *)
(* the call writes, and names its rings once they were published.                            *)
Known(r) == r.pc \notin {"out", "find", "write"}
Attends == {"in", "asleep", "awake"}
Entered == {"touch", "count", "allocate", "publish", "remove", "drop"} \cup Attends
Leaves == {"discount", "free"}

Fit(r) ==
  /\ Known(r) => r.id < next_session_id
  /\ r.pc \in Entered => \A i \in 1..MaxSessions : slots[i].id = r.id => i = r.slot
  /\ r.pc \in Leaves => \A i \in 1..MaxSessions : slots[i].id # r.id
  /\ r.pc \in Attends \cup {"publish", "free"} => ~r.undo
  /\ r.pc = "remove" => r.undo
  /\ r.pc \in Attends \/ (r.pc = "drop" /\ ~r.undo) =>
       \A i \in 1..MaxSessions : slots[i].id = r.id =>
         slots[i].cmd = r.rings[1] /\ slots[i].resp = r.rings[2]

Sess ==
  /\ \A i \in 1..MaxSessions : slots[i].id < next_session_id
  /\ \A c \in Clients : Fit(client[c])
  /\ \A c, d \in Clients : Known(client[c]) /\ Known(client[d]) /\ client[c].id = client[d].id
       => c = d
  /\ \A i \in 1..MaxSessions : slots[i].id # 0 =>
       \E c \in Clients : client[c].id = slots[i].id /\ client[c].pc \in Entered

(* Descriptors keep their rings, and their ids unless they are cleared. *)
Fixed ==
  \A i \in 1..MaxSessions : /\ slots'[i].id = slots[i].id
                            /\ slots'[i].cmd = slots[i].cmd /\ slots'[i].resp = slots[i].resp
Fewer ==
  \A i \in 1..MaxSessions : /\ slots'[i].id \in {slots[i].id, 0}
                            /\ slots'[i].cmd = slots[i].cmd /\ slots'[i].resp = slots[i].resp

Same(r, s) ==
  /\ s.id = r.id /\ s.slot = r.slot /\ s.rings = r.rings /\ s.undo = r.undo
  /\ s.inherited = r.inherited /\ s.sent = r.sent /\ s.got = r.got

LEMMA KnownHasId == ASSUME Base, NEW c \in Clients, Known(client[c]) PROVE client[c].id \in Nat \ {0}
BY DEF Base, Callers, Caller, Known

(* A record that fits still does when descriptors are cleared. *)
LEMMA FitFewer ==
  ASSUME Fewer, next_session_id' = next_session_id, NEW r, Fit(r), Known(r) => r.id # 0
  PROVE  Fit(r)'
<1>1. Known(r)' <=> Known(r) BY DEF Known
<1>2. \A i \in 1..MaxSessions : slots'[i].id = r.id /\ Known(r) =>
        slots[i].id = r.id /\ slots'[i].cmd = slots[i].cmd /\ slots'[i].resp = slots[i].resp
  BY DEF Fewer
<1> QED BY <1>1, <1>2 DEF Fit, Known, Entered, Leaves, Attends

LEMMA SessStill ==
  ASSUME Base, Sess, Fewer, UNCHANGED <<client, next_session_id>> PROVE Sess'
<1>1. \A c \in Clients : Fit(client[c])' BY KnownHasId, FitFewer DEF Sess
<1>2. \A i \in 1..MaxSessions : slots'[i].id < next_session_id' BY DEF Sess, Fewer, Base, Registry
<1>3. \A i \in 1..MaxSessions : slots'[i].id # 0 => slots'[i].id = slots[i].id BY DEF Fewer
<1> QED BY <1>1, <1>2, <1>3 DEF Sess, Known

LEMMA SessMoves ==
  ASSUME Base, Sess, Fewer, next_session_id' = next_session_id, NEW c \in Clients, Moves(c),
         Fit(client[c])', Known(client'[c]) => Known(client[c]) /\ client'[c].id = client[c].id,
         \A i \in 1..MaxSessions : client[c].pc \in Entered /\ slots'[i].id = client[c].id =>
           client'[c].pc \in Entered /\ client'[c].id = client[c].id
  PROVE  Sess'
<1>1. \A d \in Clients : Fit(client[d])'
  <2>1. ASSUME NEW d \in Clients, d # c PROVE Fit(client[d])'
    <3>1. PICK r : r = client[d] OBVIOUS
    <3>2. Fit(r)' BY <3>1, KnownHasId, FitFewer DEF Sess
    <3>3. client'[d] = r BY <2>1, <3>1 DEF Moves
    <3> QED BY <3>2, <3>3
  <2> QED BY <2>1
<1>2. \A i \in 1..MaxSessions : slots'[i].id < next_session_id' BY DEF Sess, Fewer, Base, Registry
<1>3. ASSUME NEW i \in 1..MaxSessions, slots'[i].id # 0
      PROVE  \E d \in Clients : client'[d].id = slots'[i].id /\ client'[d].pc \in Entered
  <2>1. slots'[i].id = slots[i].id BY <1>3 DEF Fewer
  <2>2. PICK d \in Clients : client[d].id = slots[i].id /\ client[d].pc \in Entered
    BY <1>3, <2>1 DEF Sess
  <2>3. CASE d = c BY <2>1, <2>2, <2>3
  <2>4. CASE d # c BY <2>1, <2>2, <2>4 DEF Moves
  <2> QED BY <2>3, <2>4
<1>4. \A d, e \in Clients : Known(client'[d]) /\ Known(client'[e]) /\ client'[d].id = client'[e].id
        => d = e
  BY DEF Sess, Moves
<1> QED BY <1>1, <1>2, <1>3, <1>4 DEF Sess, Known

LEMMA FixedFewer == Fixed => Fewer
BY DEF Fixed, Fewer

(* A descriptor changed beside its id and its rings. *)
LEMMA SlotFixed ==
  ASSUME Registry, NEW i, NEW d, slots' = [slots EXCEPT ![i] = d],
         i \in 1..MaxSessions => d.id = slots[i].id /\ d.cmd = slots[i].cmd /\ d.resp = slots[i].resp
  PROVE  Fixed
BY DEF Registry, Fixed

LEMMA SameFixed == ASSUME UNCHANGED slots PROVE Fixed
BY DEF Fixed

(* A call that goes on with another label, or changes what it sent or got. *)
LEMMA SameFit ==
  ASSUME Base, Sess, NEW c \in Clients, Fixed, next_session_id' = next_session_id, Moves(c),
         client'[c].id = client[c].id, client'[c].slot = client[c].slot,
         client'[c].rings = client[c].rings, client'[c].undo = client[c].undo,
         \/ client[c].pc \in Attends /\ client'[c].pc \in Attends
         \/ client[c].pc \in {"touch", "count"} /\ client'[c].pc \in {"count", "allocate"}
  PROVE  Sess'
<1>1. Fit(client[c])'
  <2>1. Fit(client[c]) BY DEF Sess
  <2> QED BY <2>1 DEF Fit, Known, Entered, Leaves, Attends, Fixed
<1>2. client[c].pc \in Entered /\ client'[c].pc \in Entered /\ Known(client[c])
  BY DEF Entered, Attends, Known
<1> QED BY <1>1, <1>2, FixedFewer, SessMoves

LEMMA GoesSame ==
  ASSUME Base, NEW c \in Clients, NEW l, Goes(c, l),
         l \in {"write", "touch", "drop"} => client[c].slot \in 1..MaxSessions,
         l \notin {"out", "find", "write"} => client[c].id # 0
  PROVE  Moves(c) /\ client'[c].pc = l /\ Same(client[c], client'[c])
<1> DEFINE r == [client[c] EXCEPT !.pc = l]
<1>1. Caller(client[c]) BY DEF Base, Callers
<1>2. Caller(r) /\ r.pc = l /\ Same(client[c], r) BY <1>1 DEF Caller, ClientFields, Same
<1>3. client' = [client EXCEPT ![c] = r] BY DEF Goes
<1> HIDE DEF r
<1> QED BY <1>2, <1>3, Replaces DEF Base

LEMMA OpenShape ==
  ASSUME Base, NEW c \in Clients, NEW fails \in BOOLEAN, OpenEventfd(c, fails)
  PROVE  /\ client[c].pc = "touch" /\ client'[c].pc = "count" /\ Moves(c)
         /\ Same(client[c], client'[c]) /\ Fixed
         /\ \A i \in 1..MaxSessions : /\ slots'[i].pending = slots[i].pending
                                      /\ i # client[c].slot => slots'[i] = slots[i]
<1> DEFINE i == client[c].slot
           d == [touched(slots[i]) EXCEPT !.eventfd = IF fails THEN -1 ELSE 0]
<1>1. client[c].pc = "touch" /\ Goes(c, "count") BY DEF OpenEventfd, At
<1>2. client[c].id # 0 /\ i \in 1..MaxSessions BY <1>1 DEF Base, Callers, Caller
<1>3. slots' = [slots EXCEPT ![i] = d] BY DEF OpenEventfd
<1>4. /\ d.id = slots[i].id /\ d.cmd = slots[i].cmd /\ d.resp = slots[i].resp
      /\ d.pending = slots[i].pending
  BY <1>2 DEF Base, Registry, SlotFields, touched
<1> HIDE DEF d, i
<1>5. Fixed BY <1>3, <1>4, SlotFixed DEF Base
<1>6. \A j \in 1..MaxSessions : /\ slots'[j].pending = slots[j].pending
                                /\ j # i => slots'[j] = slots[j]
  BY <1>3, <1>4 DEF Base, Registry
<1> QED BY <1>1, <1>2, <1>5, <1>6, GoesSame DEF i

LEMMA WakeShape ==
  ASSUME Base, NEW c \in Clients, Wake(c)
  PROVE  /\ client[c].pc = "asleep" /\ client'[c].pc = "awake" /\ Moves(c)
         /\ Same(client[c], client'[c]) /\ Fixed
         /\ \A j \in 1..MaxSessions : /\ slots'[j].pending = slots[j].pending
                                      /\ slots[j].id # client[c].id => slots'[j] = slots[j]
<1>1. client[c].pc = "asleep" /\ Goes(c, "awake") BY DEF Wake, At
<1>2. client[c].id # 0 BY <1>1 DEF Base, Callers, Caller
<1>3. PICK i \in get_session(client[c].id) : slots' = [slots EXCEPT ![i].eventfd = 0] BY DEF Wake
<1>4. i \in 1..MaxSessions /\ slots[i].id = client[c].id BY DEF get_session, Base, Registry
<1> DEFINE d == [slots[i] EXCEPT !.eventfd = 0]
<1>5. /\ d.id = slots[i].id /\ d.cmd = slots[i].cmd /\ d.resp = slots[i].resp
      /\ d.pending = slots[i].pending
  BY <1>4 DEF Base, Registry, SlotFields
<1>6. slots' = [slots EXCEPT ![i] = d] BY <1>3
<1> HIDE DEF d
<1>7. Fixed BY <1>5, <1>6, SlotFixed DEF Base
<1>8. \A j \in 1..MaxSessions : /\ slots'[j].pending = slots[j].pending
                                /\ slots[j].id # client[c].id => slots'[j] = slots[j]
  BY <1>4, <1>5, <1>6 DEF Base, Registry
<1> QED BY <1>1, <1>2, <1>7, <1>8, GoesSame

LEMMA AckShape ==
  ASSUME Base, NEW c \in Clients, ack_notifications(c)
  PROVE  /\ client[c].pc = "awake" /\ client'[c].pc = "in" /\ Moves(c) /\ Fixed
         /\ client'[c].id = client[c].id /\ client'[c].slot = client[c].slot
         /\ client'[c].rings = client[c].rings /\ client'[c].undo = client[c].undo
         /\ client'[c].sent = client[c].sent /\ client'[c].got = client[c].got
         /\ ~client'[c].inherited
         /\ \A i \in 1..MaxSessions : IF slots[i].id = client[c].id THEN slots'[i].pending = 0
                                      ELSE slots'[i] = slots[i]
<1> DEFINE r == [client[c] EXCEPT !.pc = "in", !.inherited = FALSE]
<1>1. client[c].pc = "awake" BY DEF ack_notifications, At
<1>2. Caller(client[c]) BY DEF Base, Callers
<1>3. /\ Caller(r) /\ r.pc = "in" /\ ~r.inherited /\ r.id = client[c].id /\ r.slot = client[c].slot
      /\ r.rings = client[c].rings /\ r.undo = client[c].undo /\ r.sent = client[c].sent
      /\ r.got = client[c].got
  BY <1>1, <1>2 DEF Caller, ClientFields
<1>4. client' = [client EXCEPT ![c] = r] BY DEF ack_notifications
<1> HIDE DEF r
<1>5. Moves(c) /\ client'[c] = r BY <1>3, <1>4, Replaces DEF Base
<1>6. slots' = [i \in DOMAIN slots |->
                  IF i \in get_session(client[c].id)
                  THEN [touched(slots[i]) EXCEPT !.pending = 0] ELSE slots[i]]
  BY DEF ack_notifications
<1>7. Fixed BY <1>6 DEF Base, Registry, SlotFields, touched, Fixed
<1>8. \A i \in 1..MaxSessions : IF slots[i].id = client[c].id THEN slots'[i].pending = 0
                                ELSE slots'[i] = slots[i]
  BY <1>6 DEF Base, Registry, SlotFields, touched, get_session
<1> QED BY <1>1, <1>3, <1>5, <1>7, <1>8

LEMMA SessCreate == ASSUME Base, Sess, NEW c \in Clients, create_session(c) PROVE Sess'
<1> DEFINE r == [Outside EXCEPT !.pc = "find"]
<1>1. client[c].pc = "out" /\ client' = [client EXCEPT ![c] = r] BY DEF create_session, At
<1>2. Caller(r) /\ r.pc = "find" BY DEF Outside, Caller, ClientFields
<1> HIDE DEF r
<1>3. Moves(c) /\ client'[c] = r BY <1>1, <1>2, Replaces DEF Base
<1>4. Fixed /\ next_session_id' = next_session_id BY SameFixed DEF create_session, registry
<1>5. Fit(client[c])' BY <1>2, <1>3 DEF Fit, Known, Entered, Leaves, Attends
<1>6. client[c].pc \notin Entered /\ ~Known(client'[c])
  BY <1>1, <1>2, <1>3 DEF Entered, Attends, Known
<1> QED BY <1>3, <1>4, <1>5, <1>6, FixedFewer, SessMoves

LEMMA FindShape ==
  ASSUME Base, NEW c \in Clients, find_free_slot(c)
  PROVE  /\ client[c].pc = "find" /\ Moves(c) /\ client'[c].pc \in {"out", "write"}
         /\ client'[c].pc = "write" => /\ client'[c].sent = client[c].sent
                                       /\ client'[c].got = client[c].got
                                       /\ client'[c].id = client[c].id
                                       /\ client'[c].undo = client[c].undo
         /\ client'[c].pc = "out" => client'[c] = Outside
<1> DEFINE unused == get_session(0)
           s == [client[c] EXCEPT !.pc = "write", !.slot = Min(unused)]
           r == IF unused = {} THEN Outside ELSE s
<1>1. client[c].pc = "find" /\ client' = [client EXCEPT ![c] = r] BY DEF find_free_slot, At
<1>2. Caller(client[c]) BY DEF Base, Callers
<1>3. unused # {} => Min(unused) \in 1..MaxSessions
  <2>1. unused \subseteq 1..MaxSessions BY DEF get_session, Base, Registry
  <2>2. unused \subseteq Nat BY <2>1
  <2> HIDE DEF unused
  <2> QED BY <2>1, <2>2, MinElement
<1>4. unused # {} => /\ Caller(s) /\ s.pc = "write" /\ s.sent = client[c].sent /\ s.got = client[c].got
                     /\ s.id = client[c].id /\ s.undo = client[c].undo
  <2> HIDE DEF unused
  <2> QED BY <1>2, <1>3 DEF Caller, ClientFields
<1>5. Caller(r) BY <1>4, OutsideCaller
<1> HIDE DEF r, s, unused
<1>6. Moves(c) /\ client'[c] = r BY <1>1, <1>5, Replaces DEF Base
<1> QED BY <1>1, <1>4, <1>6, OutsideCaller DEF r

LEMMA SessFind == ASSUME Base, Sess, NEW c \in Clients, find_free_slot(c) PROVE Sess'
<1>1. client[c].pc = "find" /\ Moves(c) /\ client'[c].pc \in {"out", "write"} BY FindShape
<1>2. Fixed /\ next_session_id' = next_session_id BY SameFixed DEF find_free_slot, registry
<1>3. Fit(client[c])' BY <1>1 DEF Fit, Known, Entered, Leaves, Attends
<1>4. client[c].pc \notin Entered /\ ~Known(client'[c]) BY <1>1 DEF Entered, Attends, Known
<1> QED BY <1>1, <1>2, <1>3, <1>4, FixedFewer, SessMoves

LEMMA WriteIdShape ==
  ASSUME Base, NEW c \in Clients, WriteId(c)
  PROVE  /\ client[c].pc = "write" /\ Moves(c) /\ client'[c].pc = "touch"
         /\ client[c].slot \in 1..MaxSessions
         /\ client'[c].id = next_session_id /\ client'[c].slot = client[c].slot
         /\ client'[c].sent = client[c].sent /\ client'[c].got = client[c].got
         /\ client'[c].inherited = (slots[client[c].slot].pending # 0)
         /\ next_session_id' = next_session_id + 1
         /\ slots'[client[c].slot].id = next_session_id
         /\ slots'[client[c].slot].pending = slots[client[c].slot].pending
         /\ slots'[client[c].slot].cmd = slots[client[c].slot].cmd
         /\ slots'[client[c].slot].resp = slots[client[c].slot].resp
         /\ \A j \in 1..MaxSessions : j # client[c].slot => slots'[j] = slots[j]
<1> DEFINE i == client[c].slot
           n == next_session_id
           r == [client[c] EXCEPT !.pc = "touch", !.id = n, !.inherited = slots[i].pending # 0]
           d == [slots[i] EXCEPT !.id = n]
<1>1. client[c].pc = "write" BY DEF WriteId, At
<1>2. Caller(client[c]) BY DEF Base, Callers
<1>3. i \in 1..MaxSessions /\ n \in Nat \ {0} BY <1>1, <1>2 DEF Caller, Base, Registry
<1>4. /\ Caller(r) /\ r.pc = "touch" /\ r.id = n /\ r.slot = i /\ r.sent = client[c].sent
      /\ r.got = client[c].got /\ r.inherited = (slots[i].pending # 0)
  BY <1>2, <1>3 DEF Caller, ClientFields
<1>5. client' = [client EXCEPT ![c] = r] BY DEF WriteId
<1>6. /\ d.id = n /\ d.pending = slots[i].pending /\ d.cmd = slots[i].cmd
      /\ d.resp = slots[i].resp
  BY <1>3 DEF Base, Registry, SlotFields
<1>7. slots' = [slots EXCEPT ![i] = d] /\ next_session_id' = n + 1 BY DEF WriteId
<1> HIDE DEF r, d
<1>8. Moves(c) /\ client'[c] = r BY <1>4, <1>5, Replaces DEF Base
<1>9. slots'[i] = d /\ \A j \in 1..MaxSessions : j # i => slots'[j] = slots[j]
  BY <1>3, <1>7 DEF Base, Registry
<1> QED BY <1>1, <1>3, <1>4, <1>6, <1>7, <1>8, <1>9

LEMMA SessWriteId == ASSUME Base, Sess, NEW c \in Clients, WriteId(c) PROVE Sess'
<1> DEFINE i == client[c].slot
           n == next_session_id
<1>1. /\ client[c].pc = "write" /\ Moves(c) /\ client'[c].pc = "touch" /\ i \in 1..MaxSessions
      /\ client'[c].id = n /\ client'[c].slot = i /\ next_session_id' = n + 1
      /\ slots'[i].id = n
      /\ \A j \in 1..MaxSessions : j # i => slots'[j] = slots[j]
  BY WriteIdShape
<1>2. n \in Nat /\ \A j \in 1..MaxSessions : slots[j].id \in Nat /\ slots[j].id < n
  BY DEF Base, Registry, Sess
<1>3. ASSUME NEW d \in Clients, d # c PROVE Fit(client[d])'
  <2>1. Fit(client[d]) /\ client'[d] = client[d] BY <1>1, <1>3 DEF Sess, Moves
  <2>2. client[d].id \in Nat BY DEF Base, Callers, Caller
  <2>3. Known(client[d]) => client[d].id # n /\ client[d].id < n + 1
    BY <1>2, <2>1, <2>2 DEF Fit
  <2>4. \A j \in 1..MaxSessions : Known(client[d]) /\ slots'[j].id = client[d].id =>
          j # i /\ slots'[j] = slots[j]
    BY <1>1, <2>3
  <2>5. Known(client'[d]) <=> Known(client[d]) BY <2>1
  <2> QED BY <1>1, <2>1, <2>3, <2>4 DEF Fit, Known, Entered, Leaves, Attends
<1>4. Fit(client[c])'
  <2>1. \A j \in 1..MaxSessions : slots'[j].id = n => j = i BY <1>1, <1>2
  <2> QED BY <1>1, <1>2, <2>1 DEF Fit, Known, Entered, Leaves, Attends
<1>5. \A j \in 1..MaxSessions : slots'[j].id < next_session_id'
  <2> SUFFICES ASSUME NEW j \in 1..MaxSessions PROVE slots'[j].id < n + 1 BY <1>1
  <2> QED BY <1>1, <1>2
<1>6. ASSUME NEW d \in Clients, NEW e \in Clients, Known(client'[d]), Known(client'[e]),
             client'[d].id = client'[e].id
      PROVE  d = e
  <2>1. \A x \in Clients : Known(client[x]) => client[x].id # n
    <3> SUFFICES ASSUME NEW x \in Clients, Known(client[x]) PROVE client[x].id # n OBVIOUS
    <3>1. client[x].id < n BY DEF Sess, Fit
    <3>2. client[x].id \in Nat BY DEF Base, Callers, Caller
    <3> QED BY <1>2, <3>1, <3>2
  <2> QED BY <1>1, <1>6, <2>1 DEF Sess, Moves
<1>7. ASSUME NEW j \in 1..MaxSessions, slots'[j].id # 0
      PROVE  \E d \in Clients : client'[d].id = slots'[j].id /\ client'[d].pc \in Entered
  <2>1. CASE j = i BY <1>1, <2>1 DEF Entered
  <2>2. CASE j # i
    <3>1. slots'[j] = slots[j] BY <1>1, <2>2
    <3>2. PICK d \in Clients : client[d].id = slots[j].id /\ client[d].pc \in Entered
      BY <1>7, <3>1 DEF Sess
    <3>3. d # c BY <1>1, <3>2 DEF Entered, Attends
    <3> QED BY <1>1, <3>1, <3>2, <3>3 DEF Moves
  <2> QED BY <2>1, <2>2
<1> QED BY <1>3, <1>4, <1>5, <1>6, <1>7 DEF Sess, Known

LEMMA CountUpShape ==
  ASSUME Base, NEW c \in Clients, CountUp(c)
  PROVE  /\ client[c].pc = "count" /\ client'[c].pc = "allocate" /\ Moves(c)
         /\ Same(client[c], client'[c])
<1>1. client[c].pc = "count" /\ Goes(c, "allocate") BY DEF CountUp, At
<1>2. client[c].id # 0 BY <1>1 DEF Base, Callers, Caller
<1> QED BY <1>1, <1>2, GoesSame

Allocates(c, got, rings) ==
  client' = [client EXCEPT ![c].pc = IF got THEN "publish" ELSE "remove",
                           ![c].undo = ~got, ![c].rings = rings]

LEMMA AllocateShape ==
  ASSUME Base, NEW c \in Clients, NEW got, NEW rings, client[c].pc = "allocate",
         Allocates(c, got, rings)
  PROVE  /\ Moves(c) /\ client'[c].pc = (IF got THEN "publish" ELSE "remove")
         /\ client'[c].undo = ~got /\ client'[c].rings = rings /\ client'[c].id = client[c].id
         /\ client'[c].slot = client[c].slot /\ client'[c].inherited = client[c].inherited
         /\ client'[c].sent = client[c].sent /\ client'[c].got = client[c].got
<1> DEFINE r == [client[c] EXCEPT !.pc = IF got THEN "publish" ELSE "remove",
                                  !.undo = ~got, !.rings = rings]
<1>1. Caller(client[c]) BY DEF Base, Callers
<1>2. Caller(r) BY <1>1 DEF Caller, ClientFields
<1>3. /\ r.pc = (IF got THEN "publish" ELSE "remove") /\ r.undo = ~got /\ r.rings = rings
      /\ r.id = client[c].id /\ r.slot = client[c].slot /\ r.inherited = client[c].inherited
      /\ r.sent = client[c].sent /\ r.got = client[c].got
  BY <1>1 DEF Caller, ClientFields
<1>4. client' = [client EXCEPT ![c] = r] BY DEF Allocates
<1> HIDE DEF r
<1>5. Moves(c) /\ client'[c] = r BY <1>2, <1>4, Replaces DEF Base
<1> QED BY <1>3, <1>5

LEMMA SessAllocate == ASSUME Base, Sess, NEW c \in Clients, AllocateRings(c) PROVE Sess'
<1>1. PICK got, rings : Allocates(c, got, rings) BY DEF AllocateRings, Allocates
<1>2. client[c].pc = "allocate" /\ UNCHANGED <<slots, next_session_id>>
  BY DEF AllocateRings, At, registry
<1>3. /\ Moves(c) /\ client'[c].pc = (IF got THEN "publish" ELSE "remove")
      /\ client'[c].undo = ~got /\ client'[c].id = client[c].id
      /\ client'[c].slot = client[c].slot
  BY <1>1, <1>2, AllocateShape
<1>4. Fit(client[c])'
  <2>1. Fit(client[c]) BY DEF Sess
  <2> QED BY <1>2, <1>3, <2>1 DEF Fit, Known, Entered, Leaves, Attends
<1>5. Known(client[c]) /\ client'[c].pc \in Entered BY <1>2, <1>3 DEF Known, Entered
<1> QED BY <1>2, <1>3, <1>4, <1>5, SameFixed, FixedFewer, SessMoves

LEMMA PublishShape ==
  ASSUME Base, NEW c \in Clients, PublishRings(c)
  PROVE  /\ client[c].pc = "publish" /\ client'[c].pc = "in" /\ Moves(c)
         /\ Same(client[c], client'[c]) /\ next_session_id' = next_session_id
         /\ \A i \in 1..MaxSessions :
              /\ slots'[i].id = slots[i].id /\ slots'[i].pending = slots[i].pending
              /\ IF slots[i].id = client[c].id
                 THEN slots'[i].cmd = client[c].rings[1] /\ slots'[i].resp = client[c].rings[2]
                 ELSE slots'[i] = slots[i]
<1> DEFINE r == client[c].rings
<1>1. client[c].pc = "publish" /\ Goes(c, "in") BY DEF PublishRings, At
<1>2. client[c].id # 0 BY <1>1 DEF Base, Callers, Caller
<1>3. Moves(c) /\ client'[c].pc = "in" /\ Same(client[c], client'[c]) BY <1>1, <1>2, GoesSame
<1>4. slots' = [i \in DOMAIN slots |->
                  IF i \in get_session(client[c].id)
                  THEN [touched(slots[i]) EXCEPT !.cmd = r[1], !.resp = r[2]] ELSE slots[i]]
  BY DEF PublishRings
<1>5. ASSUME NEW i \in 1..MaxSessions
      PROVE  /\ slots'[i].id = slots[i].id /\ slots'[i].pending = slots[i].pending
             /\ IF slots[i].id = client[c].id
                THEN slots'[i].cmd = r[1] /\ slots'[i].resp = r[2]
                ELSE slots'[i] = slots[i]
  <2>1. DOMAIN slots = 1..MaxSessions /\ DOMAIN slots[i] = SlotFields BY DEF Base, Registry
  <2>2. i \in get_session(client[c].id) <=> slots[i].id = client[c].id BY <2>1 DEF get_session
  <2> HIDE DEF r
  <2>3. CASE slots[i].id = client[c].id
    <3>1. slots'[i] = [touched(slots[i]) EXCEPT !.cmd = r[1], !.resp = r[2]]
      BY <1>4, <2>1, <2>2, <2>3 DEF r
    <3> QED BY <2>1, <2>3, <3>1 DEF touched, SlotFields
  <2>4. CASE slots[i].id # client[c].id
    <3>1. slots'[i] = slots[i] BY <1>4, <2>1, <2>2, <2>4
    <3> QED BY <2>4, <3>1
  <2> QED BY <2>3, <2>4
<1> QED BY <1>1, <1>3, <1>5 DEF PublishRings

LEMMA SessPublish == ASSUME Base, Sess, NEW c \in Clients, PublishRings(c) PROVE Sess'
<1>1. /\ client[c].pc = "publish" /\ client'[c].pc = "in" /\ Moves(c)
      /\ Same(client[c], client'[c]) /\ next_session_id' = next_session_id
      /\ \A i \in 1..MaxSessions :
           /\ slots'[i].id = slots[i].id
           /\ IF slots[i].id = client[c].id
              THEN slots'[i].cmd = client[c].rings[1] /\ slots'[i].resp = client[c].rings[2]
              ELSE slots'[i] = slots[i]
  BY PublishShape
<1>2. Fit(client[c])'
  <2>1. Fit(client[c]) BY DEF Sess
  <2> QED BY <1>1, <2>1 DEF Fit, Known, Entered, Leaves, Attends, Same
<1>3. ASSUME NEW d \in Clients, d # c PROVE Fit(client[d])'
  <2>1. Fit(client[d]) /\ client'[d] = client[d] BY <1>1, <1>3 DEF Sess, Moves
  <2>2. Known(client[d]) => client[d].id # client[c].id BY <1>1, <1>3 DEF Sess, Known
  <2> QED BY <1>1, <2>1, <2>2 DEF Fit, Known, Entered, Leaves, Attends
<1>4. \A i \in 1..MaxSessions : slots'[i].id < next_session_id' BY <1>1 DEF Sess
<1>5. \A d, e \in Clients : Known(client'[d]) /\ Known(client'[e]) /\ client'[d].id = client'[e].id
        => d = e
  <2>1. \A d \in Clients : client'[d].id = client[d].id /\ (Known(client'[d]) => Known(client[d]))
    BY <1>1 DEF Moves, Same, Known
  <2> QED BY <2>1 DEF Sess
<1>6. ASSUME NEW j \in 1..MaxSessions, slots'[j].id # 0
      PROVE  \E d \in Clients : client'[d].id = slots'[j].id /\ client'[d].pc \in Entered
  <2>1. PICK d \in Clients : client[d].id = slots[j].id /\ client[d].pc \in Entered
    BY <1>1, <1>6 DEF Sess
  <2>2. client'[d].id = client[d].id /\ client'[d].pc \in Entered
    BY <1>1, <2>1 DEF Moves, Same, Entered, Attends
  <2> QED BY <1>1, <2>1, <2>2
<1> QED BY <1>2, <1>3, <1>4, <1>5, <1>6 DEF Sess, Known

LEMMA DetachShape ==
  ASSUME Base, NEW c \in Clients, detach_session(c)
  PROVE  /\ client[c].pc \in {"in", "remove"} /\ Moves(c)
         /\ IF \A i \in 1..MaxSessions : slots[i].id # client[c].id THEN client'[c] = Outside
            ELSE /\ client'[c].pc = "drop" /\ client'[c].id = client[c].id
                 /\ client'[c].undo = client[c].undo /\ client'[c].slot \in 1..MaxSessions
                 /\ client'[c].sent = client[c].sent /\ client'[c].got = client[c].got
                 /\ slots[client'[c].slot].id = client[c].id
                 /\ client'[c].rings = <<slots[client'[c].slot].cmd, slots[client'[c].slot].resp>>
<1> DEFINE found == get_session(client[c].id)
           m == Min(found)
           s == [client[c] EXCEPT !.pc = "drop", !.slot = m,
                                  !.rings = <<slots[m].cmd, slots[m].resp>>]
           r == IF found = {} THEN Outside ELSE s
<1>1. client[c].pc \in {"in", "remove"} /\ client' = [client EXCEPT ![c] = r]
  BY DEF detach_session, At
<1>2. Caller(client[c]) BY DEF Base, Callers
<1>3. /\ found # {} => m \in 1..MaxSessions /\ slots[m].id = client[c].id
      /\ found = {} <=> \A i \in 1..MaxSessions : slots[i].id # client[c].id
  <2>1. found = {i \in 1..MaxSessions : slots[i].id = client[c].id}
    BY DEF get_session, Base, Registry
  <2>2. found \subseteq Nat BY <2>1
  <2>3. found # {} => m \in found
    <3> HIDE DEF found
    <3> QED BY <2>2, MinElement
  <2> HIDE DEF m, found
  <2> QED BY <2>1, <2>3
<1> HIDE DEF found, m
<1>4. found # {} =>
        /\ Caller(s) /\ s.pc = "drop" /\ s.id = client[c].id /\ s.undo = client[c].undo
        /\ s.slot = m /\ s.rings = <<slots[m].cmd, slots[m].resp>>
        /\ s.sent = client[c].sent /\ s.got = client[c].got
  BY <1>1, <1>2, <1>3 DEF Caller, ClientFields
<1> HIDE DEF s
<1>5. Caller(r) BY <1>4, OutsideCaller
<1>6. Moves(c) /\ client'[c] = r
  <2> HIDE DEF r
  <2> QED BY <1>1, <1>5, Replaces DEF Base
<1>7. CASE found = {} BY <1>1, <1>3, <1>6, <1>7
<1>8. CASE found # {} BY <1>1, <1>3, <1>4, <1>6, <1>8
<1> QED BY <1>7, <1>8

LEMMA SessDetach == ASSUME Base, Sess, NEW c \in Clients, detach_session(c) PROVE Sess'
<1>1. /\ client[c].pc \in {"in", "remove"} /\ Moves(c)
      /\ IF \A i \in 1..MaxSessions : slots[i].id # client[c].id THEN client'[c] = Outside
         ELSE /\ client'[c].pc = "drop" /\ client'[c].id = client[c].id
              /\ client'[c].undo = client[c].undo /\ client'[c].slot \in 1..MaxSessions
              /\ slots[client'[c].slot].id = client[c].id
              /\ client'[c].rings = <<slots[client'[c].slot].cmd, slots[client'[c].slot].resp>>
  BY DetachShape
<1>2. UNCHANGED <<slots, next_session_id>> BY DEF detach_session, registry
<1>3. Known(client[c]) BY <1>1 DEF Known
<1>4. CASE \A i \in 1..MaxSessions : slots[i].id # client[c].id
  <2>1. client'[c].pc = "out" BY <1>1, <1>4, OutsideCaller
  <2>2. Fit(client[c])' BY <2>1 DEF Fit, Known, Entered, Leaves, Attends
  <2>3. ~Known(client'[c]) BY <2>1 DEF Known
  <2> QED BY <1>1, <1>2, <1>4, <2>2, <2>3, SameFixed, FixedFewer, SessMoves
<1>5. CASE ~\A i \in 1..MaxSessions : slots[i].id # client[c].id
  <2>1. Fit(client[c]) BY DEF Sess
  <2> DEFINE m == client'[c].slot
  <2>2. /\ client'[c].pc = "drop" /\ client'[c].id = client[c].id
        /\ client'[c].undo = client[c].undo /\ m \in 1..MaxSessions
        /\ slots[m].id = client[c].id
        /\ client'[c].rings[1] = slots[m].cmd /\ client'[c].rings[2] = slots[m].resp
    BY <1>1, <1>5
  <2>3. \A i \in 1..MaxSessions : slots[i].id = client[c].id => i = m
    BY <1>1, <2>1, <2>2 DEF Fit, Entered, Attends
  <2>4. Fit(client[c])'
    BY <1>2, <1>3, <2>1, <2>2, <2>3 DEF Fit, Known, Entered, Leaves, Attends
  <2>5. client'[c].pc \in Entered BY <2>2 DEF Entered
  <2> QED BY <1>1, <1>2, <1>3, <2>2, <2>4, <2>5, SameFixed, FixedFewer, SessMoves
<1> QED BY <1>4, <1>5

LEMMA RemoveShape ==
  ASSUME Base, NEW c \in Clients, remove_session(c)
  PROVE  /\ client[c].pc = "drop" /\ client'[c].pc = "discount" /\ Moves(c)
         /\ Same(client[c], client'[c]) /\ client[c].slot \in 1..MaxSessions
         /\ slots'[client[c].slot].id = 0
         /\ \A j \in 1..MaxSessions : j # client[c].slot => slots'[j] = slots[j]
         /\ Fewer
<1> DEFINE i == client[c].slot
           d == [slots[i] EXCEPT !.id = 0]
<1>1. client[c].pc = "drop" /\ Goes(c, "discount") BY DEF remove_session, At
<1>2. i \in 1..MaxSessions /\ client[c].id # 0 BY <1>1 DEF Base, Callers, Caller
<1>3. d.id = 0 /\ d.cmd = slots[i].cmd /\ d.resp = slots[i].resp
  BY <1>2 DEF Base, Registry, SlotFields
<1>4. slots' = [slots EXCEPT ![i] = d] BY DEF remove_session, dropped
<1> HIDE DEF d
<1>5. slots'[i] = d /\ \A j \in 1..MaxSessions : j # i => slots'[j] = slots[j]
  BY <1>2, <1>4 DEF Base, Registry
<1>6. Fewer BY <1>3, <1>5 DEF Fewer
<1> QED BY <1>1, <1>2, <1>3, <1>5, <1>6, GoesSame

LEMMA SessRemove == ASSUME Base, Sess, NEW c \in Clients, remove_session(c) PROVE Sess'
<1> DEFINE i == client[c].slot
<1>1. /\ client[c].pc = "drop" /\ client'[c].pc = "discount" /\ Moves(c)
      /\ Same(client[c], client'[c]) /\ i \in 1..MaxSessions /\ slots'[i].id = 0
      /\ \A j \in 1..MaxSessions : j # i => slots'[j] = slots[j]
      /\ Fewer
  BY RemoveShape
<1>2. next_session_id' = next_session_id BY DEF remove_session
<1>3. Fit(client[c]) /\ Known(client[c]) /\ client[c].id # 0 BY <1>1, KnownHasId DEF Sess, Known
<1>4. \A j \in 1..MaxSessions : slots'[j].id # client[c].id
  <2>1. \A j \in 1..MaxSessions : slots[j].id = client[c].id => j = i
    BY <1>1, <1>3 DEF Fit, Entered
  <2> QED BY <1>1, <1>3, <2>1
<1>5. Fit(client[c])'
  BY <1>1, <1>2, <1>3, <1>4 DEF Fit, Known, Entered, Leaves, Attends, Same
<1>6. client'[c].id = client[c].id BY <1>1 DEF Same
<1> QED BY <1>1, <1>2, <1>3, <1>4, <1>5, <1>6, SessMoves

LEMMA CountDownShape ==
  ASSUME Base, NEW c \in Clients, CountDown(c)
  PROVE  /\ client[c].pc = "discount" /\ Moves(c)
         /\ IF client[c].undo THEN client'[c] = Outside
            ELSE client'[c].pc = "free" /\ Same(client[c], client'[c])
<1> DEFINE f == [client[c] EXCEPT !.pc = "free"]
           r == IF client[c].undo THEN Outside ELSE f
<1>1. client[c].pc = "discount" /\ client' = [client EXCEPT ![c] = r] BY DEF CountDown, At
<1>2. Caller(client[c]) BY DEF Base, Callers
<1>3. Caller(f) /\ f.pc = "free" /\ Same(client[c], f) BY <1>1, <1>2 DEF Caller, ClientFields, Same
<1> HIDE DEF f
<1>4. Caller(r) BY <1>3, OutsideCaller
<1>5. Moves(c) /\ client'[c] = r
  <2> HIDE DEF r
  <2> QED BY <1>1, <1>4, Replaces DEF Base
<1> QED BY <1>1, <1>3, <1>5

LEMMA SessCountDown == ASSUME Base, Sess, NEW c \in Clients, CountDown(c) PROVE Sess'
<1>1. /\ client[c].pc = "discount" /\ Moves(c)
      /\ IF client[c].undo THEN client'[c] = Outside
         ELSE client'[c].pc = "free" /\ Same(client[c], client'[c])
  BY CountDownShape
<1>2. UNCHANGED <<slots, next_session_id>> BY DEF CountDown
<1>3. Fit(client[c]) BY DEF Sess
<1>4. Fit(client[c])'
  <2>1. CASE client[c].undo
    <3>1. client'[c].pc = "out" BY <1>1, <2>1, OutsideCaller
    <3> QED BY <3>1 DEF Fit, Known, Entered, Leaves, Attends
  <2>2. CASE ~client[c].undo
    BY <1>1, <1>2, <1>3, <2>2 DEF Fit, Known, Entered, Leaves, Attends, Same
  <2> QED BY <2>1, <2>2
<1>5. client[c].pc \notin Entered /\ Known(client[c]) BY <1>1 DEF Entered, Attends, Known
<1>6. Known(client'[c]) => client'[c].id = client[c].id
  BY <1>1, OutsideCaller DEF Known, Same
<1> QED BY <1>1, <1>2, <1>4, <1>5, <1>6, SameFixed, FixedFewer, SessMoves

LEMMA FreeShape ==
  ASSUME Base, NEW c \in Clients, FreeRings(c)
  PROVE  client[c].pc = "free" /\ Moves(c) /\ client'[c] = Outside
<1>1. client[c].pc = "free" /\ client' = [client EXCEPT ![c] = Outside] BY DEF FreeRings, At
<1> QED BY <1>1, OutsideCaller, Replaces DEF Base

LEMMA SessFree == ASSUME Base, Sess, NEW c \in Clients, FreeRings(c) PROVE Sess'
<1>1. client[c].pc = "free" /\ Moves(c) /\ client'[c].pc = "out" BY FreeShape, OutsideCaller
<1>2. UNCHANGED <<slots, next_session_id>> BY DEF FreeRings, registry
<1>3. Fit(client[c])' BY <1>1 DEF Fit, Known, Entered, Leaves, Attends
<1>4. client[c].pc \notin Entered /\ ~Known(client'[c]) BY <1>1 DEF Entered, Attends, Known
<1> QED BY <1>1, <1>2, <1>3, <1>4, SameFixed, FixedFewer, SessMoves

LEMMA PushShape ==
  ASSUME Base, NEW c \in Clients, NEW command \in Requests, PushCommand(c, command)
  PROVE  /\ client[c].pc = "in" /\ client'[c].pc = "in" /\ Moves(c)
         /\ client'[c].id = client[c].id /\ client'[c].slot = client[c].slot
         /\ client'[c].rings = client[c].rings /\ client'[c].undo = client[c].undo
         /\ client'[c].inherited = client[c].inherited
         /\ client'[c].sent = client[c].sent + 1 /\ client'[c].got = client[c].got
<1> DEFINE r == [client[c] EXCEPT !.sent = @ + 1]
<1>1. client' = [client EXCEPT ![c] = r] /\ client[c].pc = "in" BY DEF PushCommand, At
<1>2. Caller(client[c]) BY DEF Base, Callers
<1>3. /\ Caller(r) /\ r.pc = "in" /\ r.id = client[c].id /\ r.slot = client[c].slot
      /\ r.rings = client[c].rings /\ r.undo = client[c].undo
      /\ r.inherited = client[c].inherited
      /\ r.sent = client[c].sent + 1 /\ r.got = client[c].got
  BY <1>1, <1>2 DEF Caller, ClientFields
<1> HIDE DEF r
<1>4. Moves(c) /\ client'[c] = r BY <1>1, <1>3, Replaces DEF Base
<1> QED BY <1>1, <1>3, <1>4

LEMMA PopShape ==
  ASSUME Base, NEW c \in Clients, PopResponse(c), NEW slot, slot = Head(Queue(RespRing(c))),
         NEW x, x = IF slot[1] = "offset" THEN memory[slot[2]] ELSE slot
  PROVE  /\ client[c].pc = "in" /\ client'[c].pc = "in" /\ Moves(c)
         /\ client'[c].id = client[c].id /\ client'[c].slot = client[c].slot
         /\ client'[c].rings = client[c].rings /\ client'[c].undo = client[c].undo
         /\ client'[c].inherited = client[c].inherited
         /\ client'[c].sent = client[c].sent /\ client'[c].got = Append(client[c].got, x)
<1> DEFINE r == [client[c] EXCEPT !.got = Append(client[c].got, x)]
<1>1. client' = [client EXCEPT ![c] = r] /\ client[c].pc = "in" BY DEF PopResponse, At
<1>2. Caller(client[c]) BY DEF Base, Callers
<1>3. /\ Caller(r) /\ r.pc = "in" /\ r.id = client[c].id /\ r.slot = client[c].slot
      /\ r.rings = client[c].rings /\ r.undo = client[c].undo
      /\ r.inherited = client[c].inherited
      /\ r.sent = client[c].sent /\ r.got = Append(client[c].got, x)
  BY <1>1, <1>2 DEF Caller, ClientFields
<1> HIDE DEF r
<1>4. Moves(c) /\ client'[c] = r BY <1>1, <1>3, Replaces DEF Base
<1> QED BY <1>1, <1>3, <1>4

LEMMA SleepShape ==
  ASSUME Base, NEW c \in Clients, Sleep(c)
  PROVE  /\ client[c].pc = "in" /\ client'[c].pc = "asleep" /\ Moves(c)
         /\ Same(client[c], client'[c])
<1>1. client[c].pc = "in" /\ Goes(c, "asleep") BY DEF Sleep, At
<1>2. client[c].id # 0 BY <1>1 DEF Base, Callers, Caller
<1> QED BY <1>1, <1>2, GoesSame

LEMMA NotifyShape ==
  ASSUME Base, Notify
  PROVE  /\ Fixed
         /\ IF \A i \in 1..MaxSessions : slots[i].id # server.id
            THEN server' = Resting /\ UNCHANGED slots
            ELSE \E i \in 1..MaxSessions :
                   /\ slots[i].id = server.id /\ slots'[i].pending = slots[i].pending + 1
                   /\ slots'[i].eventfd = slots[i].eventfd
                   /\ \A j \in 1..MaxSessions : j # i => slots'[j] = slots[j]
                   /\ server' = IF first_pending(slots[i].pending)
                                THEN [server EXCEPT !.pc = "signal", !.ref = i] ELSE Resting
<1> DEFINE found == get_session(server.id)
           i == Min(found)
           first == first_pending(slots[i].pending)
           d == [IF first THEN slots[i] ELSE touched(slots[i])
                 EXCEPT !.pending = slots[i].pending + 1]
<1>1. IF found = {} THEN server' = Resting /\ UNCHANGED slots
      ELSE /\ slots' = [slots EXCEPT ![i] = d]
           /\ server' = IF first THEN [server EXCEPT !.pc = "signal", !.ref = i] ELSE Resting
  BY DEF Notify
<1>2. /\ found # {} => i \in 1..MaxSessions /\ slots[i].id = server.id
      /\ found = {} <=> \A j \in 1..MaxSessions : slots[j].id # server.id
  <2>1. found = {j \in 1..MaxSessions : slots[j].id = server.id} BY DEF get_session, Base, Registry
  <2>2. found \subseteq Nat BY <2>1
  <2>3. found # {} => i \in found
    <3> HIDE DEF found
    <3> QED BY <2>2, MinElement
  <2> HIDE DEF i, found
  <2> QED BY <2>1, <2>3
<1> HIDE DEF found, i
<1>3. i \in 1..MaxSessions => /\ d.id = slots[i].id /\ d.cmd = slots[i].cmd /\ d.resp = slots[i].resp
                             /\ d.eventfd = slots[i].eventfd /\ d.pending = slots[i].pending + 1
  <2> HIDE DEF first
  <2> QED BY DEF Base, Registry, SlotFields, touched
<1> HIDE DEF d, first
<1>4. CASE found = {} BY <1>1, <1>2, <1>4, SameFixed
<1>5. CASE found # {}
  <2>1. slots' = [slots EXCEPT ![i] = d] /\ i \in 1..MaxSessions /\ slots[i].id = server.id
    BY <1>1, <1>2, <1>5
  <2>2. Fixed BY <1>3, <2>1, SlotFixed DEF Base
  <2>3. slots'[i] = d /\ \A j \in 1..MaxSessions : j # i => slots'[j] = slots[j]
    BY <2>1 DEF Base, Registry
  <2>4. server' = IF first_pending(slots[i].pending)
                  THEN [server EXCEPT !.pc = "signal", !.ref = i] ELSE Resting
    BY <1>1, <1>5 DEF first
  <2> QED BY <1>2, <1>3, <1>5, <2>1, <2>2, <2>3, <2>4
<1> QED BY <1>4, <1>5

LEMMA SignalShape ==
  ASSUME Base, Signal
  PROVE  /\ Fixed /\ \A j \in 1..MaxSessions : slots'[j].pending = slots[j].pending
         /\ \A j \in 1..MaxSessions : IF j = server.ref THEN slots'[j].eventfd # 0
                                      ELSE slots'[j].eventfd = slots[j].eventfd
<1> DEFINE i == server.ref
<1>p. PICK v : v # 0 /\ slots' = [slots EXCEPT ![i] = [touched(slots[i]) EXCEPT !.eventfd = v]]
  <2>1. \A x : (IF x = -1 THEN -1 ELSE 1) # 0 OBVIOUS
  <2> QED BY <2>1 DEF Signal
<1> DEFINE d == [touched(slots[i]) EXCEPT !.eventfd = v]
<1>1. slots' = [slots EXCEPT ![i] = d] BY <1>p
<1>2. i \in 1..MaxSessions => /\ d.id = slots[i].id /\ d.cmd = slots[i].cmd /\ d.resp = slots[i].resp
                             /\ d.pending = slots[i].pending /\ d.eventfd # 0
  BY <1>p DEF Base, Registry, SlotFields, touched
<1> HIDE DEF d, i
<1>3. Fixed BY <1>1, <1>2, SlotFixed DEF Base
<1>4. \A j \in 1..MaxSessions : IF j = i THEN slots'[j] = d ELSE slots'[j] = slots[j]
  BY <1>1 DEF Base, Registry
<1> QED BY <1>2, <1>3, <1>4 DEF i

LEMMA ClockShape ==
  ASSUME Base, TimePasses
  PROVE  /\ Fixed
         /\ \A j \in 1..MaxSessions : /\ slots'[j].pending = slots[j].pending
                                      /\ slots'[j].eventfd = slots[j].eventfd
<1>1. slots' = [i \in DOMAIN slots |-> [slots[i] EXCEPT !.recent = FALSE]] BY DEF TimePasses
<1> QED BY <1>1 DEF Base, Registry, SlotFields, Fixed

LEMMA SweepShape ==
  ASSUME Base, SweepDrop
  PROVE  /\ Fewer /\ sweeper.at \in 1..MaxSessions /\ slots'[sweeper.at].id = 0
         /\ \A j \in 1..MaxSessions : j # sweeper.at => slots'[j] = slots[j]
<1> DEFINE i == sweeper.at
           d == [slots[i] EXCEPT !.id = 0]
<1>1. i \in 1..MaxSessions BY DEF SweepDrop, Base, Sweeping
<1>2. d.id = 0 /\ d.cmd = slots[i].cmd /\ d.resp = slots[i].resp
  BY <1>1 DEF Base, Registry, SlotFields
<1>3. slots' = [slots EXCEPT ![i] = d] BY DEF SweepDrop, dropped
<1> HIDE DEF d
<1>4. slots'[i] = d /\ \A j \in 1..MaxSessions : j # i => slots'[j] = slots[j]
  BY <1>1, <1>3 DEF Base, Registry
<1>5. Fewer BY <1>2, <1>4 DEF Fewer
<1> QED BY <1>1, <1>2, <1>4, <1>5

LEMMA SessInit == EngineInit => Sess
<1> SUFFICES ASSUME EngineInit PROVE Sess OBVIOUS
<1>1. \A c \in Clients : client[c].pc = "out" BY OutsideCaller DEF EngineInit
<1>2. \A i \in 1..MaxSessions : slots[i].id = 0 BY DEF EngineInit, SessionDesc
<1>3. next_session_id = 1 BY DEF EngineInit
<1>4. \A c \in Clients : Fit(client[c]) BY <1>1 DEF Fit, Known, Entered, Leaves, Attends
<1>5. \A i \in 1..MaxSessions : slots[i].id < next_session_id
  <2> SUFFICES ASSUME NEW i \in 1..MaxSessions PROVE 0 < 1 BY <1>2, <1>3
  <2> QED OBVIOUS
<1> QED BY <1>1, <1>2, <1>4, <1>5 DEF Sess, Known

(* The steps after which sessions are as before. *)
LEMMA SessNext == Base /\ Sess /\ [EngineNext]_<<kvVars, engineVars>> => Sess'
<1> SUFFICES ASSUME Base, Sess, [EngineNext]_<<kvVars, engineVars>> PROVE Sess'
  OBVIOUS
<1>1. CASE UNCHANGED <<kvVars, engineVars>>
  BY <1>1, SameFixed, FixedFewer, SessStill DEF engineVars, registry
<1>2. CASE Direct \/ ServerStep \/ Stray \/ TimePasses
  <2>1. Fixed
    <3>1. CASE TimePasses BY <3>1, ClockShape
    <3>2. CASE Notify BY <3>2, NotifyShape
    <3>3. CASE Signal BY <3>3, SignalShape
    <3>4. CASE Direct \/ Stray BY <3>4, SameFixed DEF Direct, Stray, registry
    <3>5. CASE \/ \E i \in DOMAIN slots : get_cmd_ring(i)
               \/ try_get_command \/ process_command \/ AllocateReply \/ get_resp_ring \/ PushReply
      BY <3>5, SameFixed DEF get_cmd_ring, try_get_command, process_command, AllocateReply,
         get_resp_ring, PushReply, registry
    <3> QED BY <1>2, <3>1, <3>2, <3>3, <3>4, <3>5 DEF ServerStep
  <2>2. Still BY <1>2, ServerStill
  <2> QED BY <2>1, <2>2, FixedFewer, SessStill DEF Still, Quiet
<1>3. CASE cleanup_stale_sessions \/ SweepLook \/ SweepEnds
  BY <1>3, SameFixed, FixedFewer, SessStill DEF cleanup_stale_sessions, SweepLook, SweepEnds, registry
<1>4. CASE SweepDrop BY <1>4, SweepShape, SessStill DEF SweepDrop
<1>5. ASSUME NEW c \in Clients, ClientStep(c) PROVE Sess'
  <2>1. CASE create_session(c) BY <2>1, SessCreate
  <2>2. CASE find_free_slot(c) BY <2>2, SessFind
  <2>3. CASE WriteId(c) BY <2>3, SessWriteId
  <2>4. CASE CountUp(c)
    <3>1. Fixed /\ next_session_id' = next_session_id BY <2>4, SameFixed DEF CountUp
    <3> QED BY <2>4, <3>1, CountUpShape, SameFit DEF Same
  <2>5. ASSUME NEW fails \in BOOLEAN, OpenEventfd(c, fails) PROVE Sess'
    <3>1. next_session_id' = next_session_id BY <2>5 DEF OpenEventfd
    <3> QED BY <2>5, <3>1, OpenShape, SameFit DEF Same
  <2>6. CASE AllocateRings(c) BY <2>6, SessAllocate
  <2>7. CASE PublishRings(c) BY <2>7, SessPublish
  <2>8. CASE detach_session(c) BY <2>8, SessDetach
  <2>9. CASE remove_session(c) BY <2>9, SessRemove
  <2>10. CASE CountDown(c) BY <2>10, SessCountDown
  <2>11. CASE FreeRings(c) BY <2>11, SessFree
  <2>12. ASSUME NEW command \in Requests, PushCommand(c, command) PROVE Sess'
    <3>1. Fixed /\ next_session_id' = next_session_id BY <2>12, SameFixed DEF PushCommand, registry
    <3> QED BY <2>12, <3>1, PushShape, SameFit DEF Attends
  <2>13. CASE PopResponse(c)
    <3>1. Fixed /\ next_session_id' = next_session_id BY <2>13, SameFixed DEF PopResponse, registry
    <3> QED BY <2>13, <3>1, PopShape, SameFit DEF Attends
  <2>14. CASE Sleep(c)
    <3>1. Fixed /\ next_session_id' = next_session_id BY <2>14, SameFixed DEF Sleep, registry
    <3> QED BY <2>14, <3>1, SleepShape, SameFit DEF Attends, Same
  <2>15. CASE Wake(c)
    <3>1. next_session_id' = next_session_id BY <2>15 DEF Wake
    <3> QED BY <2>15, <3>1, WakeShape, SameFit DEF Attends, Same
  <2>16. CASE ack_notifications(c)
    <3>1. next_session_id' = next_session_id BY <2>16 DEF ack_notifications
    <3> QED BY <2>16, <3>1, AckShape, SameFit DEF Attends
  <2> QED
    BY <1>5, <2>1, <2>2, <2>3, <2>4, <2>5, <2>6, <2>7, <2>8, <2>9, <2>10, <2>11, <2>12, <2>13,
       <2>14, <2>15, <2>16 DEF ClientStep
<1> QED BY <1>1, <1>2, <1>3, <1>4, <1>5 DEF EngineNext

-----------------------------------------------------------------------------
(* Rings in the arena.  A call that has rings owns their blocks, from their allocation until *)
(* they are freed.                                                                           *)
Holds(r) == r.pc \in Attends \cup {"publish"} \/ (r.pc \in {"drop"} \cup Leaves /\ ~r.undo)
CmdOf(id) == <<"cmd", id>>
RespOf(id) == <<"resp", id>>
ReplyBlock == <<"reply", 0>>

Owns(who, r) ==
  /\ r.rings[1] \in Offsets /\ r.rings[2] \in Offsets
  /\ who[r.rings[1]] = CmdOf(r.id) /\ who[r.rings[2]] = RespOf(r.id)
  /\ IsRing(r.rings[1]) /\ IsRing(r.rings[2])

Owned(who) == \A c \in Clients : Holds(client[c]) => Owns(who, client[c])

Mem(who, at) == KvMem(who, at) /\ Owned(who)

(* Rings and responses outside X stay where they are, and as they are. *)
Shared == {"cmd", "resp", "reply"}
Frame(who, who1, X) ==
  \A o \in Offsets : who[o][1] \in Shared /\ o \notin X => who1[o] = who[o] /\ memory'[o] = memory[o]

MemStep(who, X) == \E who1, at1 : Mem(who1, at1)' /\ Frame(who, who1, X)

LEMMA SharedOwner == \A w : w[1] \in Shared => IsOwner(w)
<1> SUFFICES ASSUME NEW w, w[1] \in Shared PROVE IsOwner(w) OBVIOUS
<1>1. Nobody[1] = "none" /\ \A c : Free(c)[1] = "free" BY DEF Nobody, Free
<1> QED BY <1>1 DEF IsOwner, Shared

LEMMA Owners ==
  /\ \A id : CmdOf(id)[1] \in Shared /\ RespOf(id)[1] \in Shared
  /\ \A id : IsOwner(CmdOf(id)) /\ IsOwner(RespOf(id))
  /\ ReplyBlock[1] \in Shared /\ IsOwner(ReplyBlock) /\ IsOwner(Lost)
  /\ \A id, jd : CmdOf(id) # RespOf(jd)
  /\ \A id, jd : (CmdOf(id) = CmdOf(jd) => id = jd) /\ (RespOf(id) = RespOf(jd) => id = jd)
<1>1. \A id : CmdOf(id)[1] = "cmd" /\ RespOf(id)[1] = "resp" /\ CmdOf(id)[2] = id /\ RespOf(id)[2] = id
  BY DEF CmdOf, RespOf
<1>2. ReplyBlock[1] = "reply" BY DEF ReplyBlock
<1>3. IsOwner(Lost) BY DEF IsOwner, Lost, Nobody, Free
<1> QED BY <1>1, <1>2, <1>3, SharedOwner DEF Shared

LEMMA FrameKeeps ==
  ASSUME NEW who, Heap(Arena, who), NEW who1, NEW X, Keeps(Arena, who, Arena', who1, X),
         NEW Y, \A o \in X : who[o][1] \in Shared => o \in Y
  PROVE  Frame(who, who1, Y)
<1> SUFFICES ASSUME NEW o \in Offsets, who[o][1] \in Shared, o \notin Y
             PROVE  who1[o] = who[o] /\ memory'[o] = memory[o]
  BY DEF Frame
<1>1. IsOwner(who[o]) /\ o \notin X BY SharedOwner
<1>2. who1[o] = who[o] /\ \A p \in o..o + width[o] - 1 : memory'[p] = memory[p]
  BY <1>1 DEF Keeps, Arena
<1>3. o \in Nat /\ width[o] \in Nat /\ width[o] > 0
  BY <1>1, OffsetNat DEF Heap, Blocks, Arena, IsOwner
<1>4. o \in o..o + width[o] - 1 BY <1>3
<1> QED BY <1>2, <1>4

(* Owners that are kept. *)
LEMMA OwnsKept ==
  ASSUME NEW who, NEW who1, NEW X, Frame(who, who1, X), NEW r, Owns(who, r), NEW s,
         s.rings = r.rings, s.id = r.id, r.rings[1] \notin X, r.rings[2] \notin X
  PROVE  Owns(who1, s)'
BY Owners DEF Owns, Frame, IsRing

LEMMA OwnedKept ==
  ASSUME NEW who, NEW who1, NEW at, Mem(who, at), Frame(who, who1, {}), UNCHANGED client
  PROVE  Owned(who1)'
<1> SUFFICES ASSUME NEW c \in Clients, Holds(client[c]) PROVE Owns(who1, client[c])'
  BY DEF Owned, Holds
<1>1. Owns(who, client[c]) BY DEF Mem, Owned
<1>2. PICK r : r = client[c] /\ client'[c] = r OBVIOUS
<1>3. Owns(who1, r)' BY <1>1, <1>2, OwnsKept
<1> QED BY <1>2, <1>3

(* An operation on the table. *)
LEMMA MemKv ==
  ASSUME NEW who, NEW at, Mem(who, at), KvKept(who), UNCHANGED client PROVE MemStep(who, {})
<1>1. PICK who1, at1 : KvMem(who1, at1)' /\ Keeps(Arena, who, Arena', who1, Entries(who))
  BY DEF KvKept
<1>2. \A o \in Entries(who) : who[o][1] \in Shared => o \in {} BY DEF Entries, Shared
<1>3. Frame(who, who1, {}) BY <1>1, <1>2, FrameKeeps DEF Mem, KvMem
<1>4. Owned(who1)' BY <1>3, OwnedKept
<1>5. Mem(who1, at1)' BY <1>1, <1>4 DEF Mem
<1> QED BY <1>3, <1>5 DEF MemStep

(* Steps that do not touch the arena, of a call that keeps its rings. *)
LEMMA MemSame ==
  ASSUME NEW who, NEW at, Mem(who, at), UNCHANGED <<entries, stored, arenaVars>>,
         \A c \in Clients : Holds(client'[c]) => Owns(who, client'[c])
  PROVE  MemStep(who, {})
<1>1. UNCHANGED <<entries, stored, Arena, memory>> BY DEF arenaVars, Arena
<1>2. KvMem(who, at)' BY <1>1 DEF KvMem, Mem
<1>3. Frame(who, who, {}) BY <1>1 DEF Frame
<1>4. Owned(who)'
  <2> SUFFICES ASSUME NEW c \in Clients, Holds(client'[c]) PROVE Owns(who, client[c])'
    BY DEF Owned, Holds
  <2>1. Owns(who, client'[c]) OBVIOUS
  <2> QED BY <1>1, <2>1 DEF Owns, IsRing
<1>5. Mem(who, at)' BY <1>2, <1>4 DEF Mem
<1> QED BY <1>3, <1>5 DEF MemStep

LEMMA MemStill ==
  ASSUME NEW who, NEW at, Mem(who, at), UNCHANGED <<entries, stored, arenaVars, client>>
  PROVE  MemStep(who, {})
<1>1. \A c \in Clients : Holds(client'[c]) => Owns(who, client'[c]) BY DEF Mem, Owned
<1> QED BY <1>1, MemSame

LEMMA MemMoves ==
  ASSUME NEW who, NEW at, Mem(who, at), UNCHANGED <<entries, stored, arenaVars>>,
         NEW c \in Clients, Moves(c),
         Holds(client'[c]) => /\ Holds(client[c]) /\ client'[c].id = client[c].id
                              /\ client'[c].rings[1] = client[c].rings[1]
                              /\ client'[c].rings[2] = client[c].rings[2]
  PROVE  MemStep(who, {})
<1>1. ASSUME NEW d \in Clients, Holds(client'[d]) PROVE Owns(who, client'[d])
  <2>1. CASE d = c BY <1>1, <2>1 DEF Mem, Owned, Owns
  <2>2. CASE d # c BY <1>1, <2>2 DEF Mem, Owned, Moves
  <2> QED BY <2>1, <2>2
<1> QED BY <1>1, MemSame

(* A ring's first word holds its queue; no other use of memory looks like it. *)
LEMMA InBlock ==
  ASSUME NEW A, NEW who, Heap(A, who), NEW o \in Offsets, who[o] # Nobody,
         NEW p \in o..o + A.width[o] - 1
  PROVE  p \in Offsets
<1>1. o \in Nat /\ A.width[o] \in Nat /\ A.current \in Nat /\ ArenaSize \in Nat
  BY OffsetNat DEF Heap, Blocks
<1>2. o + A.width[o] <= A.current /\ A.current <= ArenaSize BY <1>1 DEF Heap, Blocks
<1> QED BY <1>1, <1>2 DEF Offsets

LEMMA QueueHeap ==
  ASSUME NEW A, NEW who, Heap(A, who), NEW B, DOMAIN B = ArenaFields, DOMAIN B.memory = Offsets,
         \A p \in Offsets : A.memory[p][1] # "ring" => B.memory[p] = A.memory[p],
         B.current = A.current, B.free_lists = A.free_lists, B.width = A.width
  PROVE  Heap(B, who)
<1>1. Blocks(B) BY DEF Heap, Blocks
<1>2. ASSUME NEW c \in 1..Classes PROVE Chain(B, who, c)
  <2>1. Chain(A, who, c) BY DEF Heap
  <2>2. \A p \in Offsets : who[p] = Free(c) => B.memory[p] = A.memory[p] BY <2>1 DEF Chain
  <2> QED BY <2>1, <2>2 DEF Chain
<1> QED BY <1>1, <1>2 DEF Heap

LEMMA QueueTable ==
  ASSUME NEW E, NEW A, NEW S, NEW who, NEW at, Table(E, A, S, who, at), Heap(A, who), NEW B,
         \A p \in Offsets : A.memory[p][1] # "ring" => B.memory[p] = A.memory[p],
         B.width = A.width
  PROVE  Table(E, B, S, who, at)
<1>1. ASSUME NEW k \in Keys, S[k] # Nothing PROVE Stored(E, B, who, at[k], k, S[k])
  <2> DEFINE o == E[at[k]].data_offset
             v == S[k]
  <2>1. Stored(E, A, who, at[k], k, v) /\ v \in Values BY <1>1 DEF Table
  <2>2. E[at[k]] \in Entry BY <2>1 DEF Table, Stored
  <2>3. o \in Offsets /\ who[o] # Nobody
    <3>1. o \in Offsets BY <2>2 DEF Entry
    <3>2. who[o] = OfEntry(at[k]) BY <2>1 DEF Stored
    <3> QED BY <3>1, <3>2 DEF OfEntry, Nobody
  <2>4. Holding(A, o, k, v) BY <2>1 DEF Stored
  <2> HIDE DEF o, v
  <2>5. o \in Nat /\ A.width[o] \in Nat /\ Length(v) \in Nat /\ 1 + Length(v) <= A.width[o]
    BY <2>1, <2>3, <2>4, OffsetNat, Lengths DEF Heap, Blocks, Holding, Room
  <2>6. \A j \in 1..Length(v) : o + j \in Offsets
    <3> SUFFICES ASSUME NEW j \in 1..Length(v) PROVE o + j \in Offsets OBVIOUS
    <3>1. PICK p : p = o + j OBVIOUS
    <3>2. p \in o..o + A.width[o] - 1 BY <2>5, <3>1
    <3> QED BY <2>3, <3>1, <3>2, InBlock
  <2>7. B.memory[o] = A.memory[o] BY <2>3, <2>4 DEF Holding
  <2>8. \A j \in 1..Length(v) : B.memory[o + j] = A.memory[o + j] BY <2>4, <2>6 DEF Holding
  <2>9. Holding(B, o, k, v) BY <2>4, <2>7, <2>8 DEF Holding, Room
  <2> QED BY <2>1, <2>9 DEF Stored, o, v
<1> QED BY <1>1 DEF Table

(* A push or a pop. *)
LEMMA MemQueue ==
  ASSUME NEW who, NEW at, Mem(who, at), NEW q, NEW o, IsRing(o), SetQueue(q, o),
         UNCHANGED <<entries, stored, current, free_lists, width, smashed>>,
         \A c \in Clients : Holds(client'[c]) => Owns(who, client'[c])
  PROVE  MemStep(who, {o})
<1>1. Heap(Arena, who) /\ Table(entries, Arena, stored, who, at) BY DEF Mem, KvMem
<1>2. DOMAIN memory = Offsets BY <1>1 DEF Heap, Blocks, Arena
<1>3. DOMAIN memory' = Offsets /\ \A p \in Offsets : p # o => memory'[p] = memory[p]
  BY <1>2 DEF SetQueue
<1>4. \A p \in Offsets : IsRing(p) => memory'[p][1] = "ring"
  <2> SUFFICES ASSUME NEW p \in Offsets, IsRing(p) PROVE memory'[p][1] = "ring" OBVIOUS
  <2>1. CASE p = o
    <3>1. memory'[p] = <<"ring", q>> BY <1>2, <2>1 DEF SetQueue
    <3> QED BY <3>1
  <2>2. CASE p # o BY <1>3, <2>2 DEF IsRing
  <2> QED BY <2>1, <2>2
<1>5. \A p \in Offsets : memory[p][1] # "ring" => memory'[p] = memory[p] BY <1>3 DEF IsRing
<1>6. /\ DOMAIN Arena' = ArenaFields /\ Arena'.memory = memory' /\ Arena'.current = Arena.current
      /\ Arena'.free_lists = Arena.free_lists /\ Arena'.width = Arena.width
      /\ Arena.memory = memory
  BY DEF Arena, ArenaFields
<1>7. Heap(Arena', who) BY <1>1, <1>3, <1>5, <1>6, QueueHeap
<1>8. Table(entries, Arena', stored, who, at) BY <1>1, <1>5, <1>6, QueueTable
<1>9. KvMem(who, at)' BY <1>7, <1>8 DEF KvMem
<1>10. Frame(who, who, {o}) BY <1>3 DEF Frame
<1>11. Owned(who)'
  <2> SUFFICES ASSUME NEW c \in Clients, Holds(client'[c]) PROVE Owns(who, client[c])'
    BY DEF Owned, Holds
  <2>1. Owns(who, client'[c]) OBVIOUS
  <2> QED BY <1>4, <2>1 DEF Owns, IsRing
<1>12. Mem(who, at)' BY <1>9, <1>11 DEF Mem
<1> QED BY <1>10, <1>12 DEF MemStep

(* SpscRing::init writes the block of a ring. *)
RingRoom(A, o) == RingWords <= A.width[o]

LEMMA RingHeap ==
  ASSUME NEW A, NEW who, Heap(A, who), NEW o \in Offsets, IsOwner(who[o]),
         RingRoom(A, o), NEW B, B = new_ring(A, o)
  PROVE  /\ Heap(B, who) /\ Keeps(A, who, B, who, {o}) /\ B.memory[o][1] = "ring"
         /\ B.memory[o][2] = << >> /\ B.width = A.width
<1> DEFINE M == [p \in DOMAIN A.memory |->
                   IF p = o THEN <<"ring", << >>>>
                   ELSE IF p \in o + 1 .. o + RingWords - 1 THEN <<"slots">> ELSE A.memory[p]]
           C == [A EXCEPT !.memory = M]
<1>1. DOMAIN A = ArenaFields /\ DOMAIN A.memory = Offsets /\ A.width \in [Offsets -> Nat]
  BY DEF Heap, Blocks
<1>2. B = C BY DEF new_ring
<1>3. /\ DOMAIN C = ArenaFields /\ C.memory = M /\ C.current = A.current
      /\ C.free_lists = A.free_lists /\ C.width = A.width
  BY <1>1 DEF ArenaFields
<1> HIDE DEF C
<1>4. o \in Nat /\ A.width[o] \in Nat /\ RingWords \in Nat \ {0}
  BY <1>1, OffsetNat, EngineAssumption
<1>5. o + 1 .. o + RingWords - 1 \subseteq o..o + A.width[o] - 1 /\ o \in o..o + A.width[o] - 1
  BY <1>4 DEF RingRoom
<1>6. OnlyIn(A, M, o) BY <1>1, <1>5 DEF OnlyIn
<1>7. M[o] = <<"ring", << >>>> BY <1>1
<1> HIDE DEF M
<1>8. OnlyIn(A, C.memory, o) BY <1>3, <1>6
<1>9. Heap(C, who) BY <1>3, <1>8, WriteHeap
<1>10. Keeps(A, who, C, who, {o}) BY <1>3, <1>8, WriteKeeps
<1>11. C.memory[o][1] = "ring" /\ C.memory[o][2] = << >> BY <1>3, <1>7
<1> QED BY <1>2, <1>3, <1>9, <1>10, <1>11

(* Two rings, for a call with this id, in blocks that nobody used. *)
LEMMA TwoRings ==
  ASSUME NEW who, Heap(Arena, who), NEW id, NEW a, a = allocate(Arena, RingWords, RingAlign),
         NEW b, b = allocate(a.arena, RingWords, RingAlign), a.offset # 0, b.offset # 0,
         NEW B, B = new_ring(new_ring(b.arena, a.offset), b.offset)
  PROVE  \E who1 : /\ Heap(B, who1) /\ Keeps(Arena, who, B, who1, {})
                   /\ a.offset \in Offsets /\ b.offset \in Offsets
                   /\ ~IsOwner(who[a.offset]) /\ ~IsOwner(who[b.offset])
                   /\ who1[a.offset] = CmdOf(id) /\ who1[b.offset] = RespOf(id)
                   /\ B.memory[a.offset][1] = "ring" /\ B.memory[b.offset][1] = "ring"
                   /\ B.memory[a.offset][2] = << >> /\ B.memory[b.offset][2] = << >>
<1>1. RingWords \in Nat \ {0} /\ RingAlign \in Nat \ {0} BY EngineAssumption
<1>2. IsOwner(CmdOf(id)) /\ IsOwner(RespOf(id)) BY Owners
<1>3. /\ a.offset \in Offsets /\ ~IsOwner(who[a.offset]) /\ RingWords <= a.arena.width[a.offset]
      /\ \E who1 : /\ Given(who, a.offset, CmdOf(id), who1) /\ Heap(a.arena, who1)
                   /\ Keeps(Arena, who, a.arena, who1, {})
  BY <1>1, <1>2, AllocateHeap
<1>4. PICK who1 : /\ Given(who, a.offset, CmdOf(id), who1) /\ Heap(a.arena, who1)
                  /\ Keeps(Arena, who, a.arena, who1, {})
  BY <1>3
<1>5. /\ b.offset \in Offsets /\ ~IsOwner(who1[b.offset]) /\ RingWords <= b.arena.width[b.offset]
      /\ \E who2 : /\ Given(who1, b.offset, RespOf(id), who2) /\ Heap(b.arena, who2)
                   /\ Keeps(a.arena, who1, b.arena, who2, {})
  BY <1>1, <1>2, <1>4, AllocateHeap
<1>6. PICK who2 : /\ Given(who1, b.offset, RespOf(id), who2) /\ Heap(b.arena, who2)
                  /\ Keeps(a.arena, who1, b.arena, who2, {})
  BY <1>5
<1>7. who1[a.offset] = CmdOf(id) BY <1>4 DEF Given
<1>8. a.offset # b.offset BY <1>2, <1>5, <1>7
<1>9. who2[a.offset] = CmdOf(id) /\ who2[b.offset] = RespOf(id)
  BY <1>3, <1>6, <1>7, <1>8 DEF Given
<1>10. ~IsOwner(who[b.offset]) BY <1>4, <1>5 DEF Keeps
<1>11. RingRoom(b.arena, a.offset)
  <2>1. b.arena.width[a.offset] = a.arena.width[a.offset] BY <1>2, <1>3, <1>6, <1>7 DEF Keeps
  <2> QED BY <1>3, <2>1 DEF RingRoom
<1>12. PICK C : C = new_ring(b.arena, a.offset) OBVIOUS
<1>13. /\ Heap(C, who2) /\ Keeps(b.arena, who2, C, who2, {a.offset})
       /\ C.memory[a.offset][1] = "ring" /\ C.memory[a.offset][2] = << >>
       /\ C.width = b.arena.width
  <2>1. PICK o : o = a.offset OBVIOUS
  <2>2. PICK G : G = b.arena OBVIOUS
  <2>3. /\ Heap(G, who2) /\ o \in Offsets /\ IsOwner(who2[o]) /\ RingRoom(G, o)
        /\ C = new_ring(G, o)
    BY <1>2, <1>3, <1>6, <1>9, <1>11, <1>12, <2>1, <2>2
  <2>4. /\ Heap(C, who2) /\ Keeps(G, who2, C, who2, {o}) /\ C.memory[o][1] = "ring"
        /\ C.memory[o][2] = << >> /\ C.width = G.width
    BY <2>3, RingHeap
  <2> QED BY <2>1, <2>2, <2>4
<1>14. B = new_ring(C, b.offset) BY <1>12
<1>15. RingRoom(C, b.offset) BY <1>5, <1>13 DEF RingRoom
<1>16. /\ Heap(B, who2) /\ Keeps(C, who2, B, who2, {b.offset})
       /\ B.memory[b.offset][1] = "ring" /\ B.memory[b.offset][2] = << >>
  <2>1. b.offset \in Offsets /\ IsOwner(who2[b.offset]) /\ Heap(C, who2) BY <1>2, <1>5, <1>9, <1>13
  <2>2. PICK o : o = b.offset OBVIOUS
  <2>3. o \in Offsets /\ IsOwner(who2[o]) /\ RingRoom(C, o) /\ B = new_ring(C, o)
    BY <1>14, <1>15, <2>1, <2>2
  <2>4. /\ Heap(B, who2) /\ Keeps(C, who2, B, who2, {o}) /\ B.memory[o][1] = "ring"
        /\ B.memory[o][2] = << >>
    BY <2>1, <2>3, RingHeap
  <2> QED BY <2>2, <2>4
<1>17. B.memory[a.offset] = C.memory[a.offset]
  <2>1. \A p \in a.offset..a.offset + C.width[a.offset] - 1 : B.memory[p] = C.memory[p]
    BY <1>2, <1>3, <1>8, <1>9, <1>16 DEF Keeps
  <2>2. a.offset \in Nat /\ C.width[a.offset] \in Nat /\ C.width[a.offset] > 0
    BY <1>2, <1>3, <1>9, <1>13, OffsetNat DEF Heap, Blocks, IsOwner
  <2>3. a.offset \in a.offset..a.offset + C.width[a.offset] - 1 BY <2>2
  <2> QED BY <2>1, <2>3
<1>18. Keeps(Arena, who, B, who2, {})
  <2>1. Keeps(Arena, who, b.arena, who2, {} \cup {}) BY <1>4, <1>6, KeepsAfter
  <2>2. Keeps(Arena, who, C, who2, ({} \cup {}) \cup {a.offset}) BY <1>13, <2>1, KeepsAfter
  <2>3. Keeps(Arena, who, B, who2, (({} \cup {}) \cup {a.offset}) \cup {b.offset})
    BY <1>16, <2>2, KeepsAfter
  <2> QED BY <1>3, <1>10, <2>3 DEF Keeps
<1> QED BY <1>3, <1>5, <1>9, <1>10, <1>13, <1>16, <1>17, <1>18

(* AllocateRings without memory for two rings. *)
LEMMA NoRings ==
  ASSUME NEW who, Heap(Arena, who), NEW a, a = allocate(Arena, RingWords, RingAlign),
         NEW b, b = allocate(a.arena, RingWords, RingAlign)
  PROVE  \E who1 : Heap(b.arena, who1) /\ Keeps(Arena, who, b.arena, who1, {})
<1>1. RingWords \in Nat \ {0} /\ RingAlign \in Nat \ {0} /\ IsOwner(Lost)
  BY EngineAssumption, Owners
<1>2. \E who1 : Heap(a.arena, who1) /\ Keeps(Arena, who, a.arena, who1, {})
  <2>1. CASE a.offset = 0
    <3>1. a.arena = Arena BY <1>1, <2>1, AllocateHeap
    <3>2. Keeps(Arena, who, Arena, who, {}) BY DEF Keeps
    <3> QED BY <3>1, <3>2
  <2>2. CASE a.offset # 0 BY <1>1, <2>2, AllocateHeap
  <2> QED BY <2>1, <2>2
<1>3. PICK who1 : Heap(a.arena, who1) /\ Keeps(Arena, who, a.arena, who1, {}) BY <1>2
<1>4. \E who2 : Heap(b.arena, who2) /\ Keeps(a.arena, who1, b.arena, who2, {})
  <2>1. CASE b.offset = 0
    <3>1. b.arena = a.arena BY <1>1, <1>3, <2>1, AllocateHeap
    <3>2. Keeps(a.arena, who1, a.arena, who1, {}) BY DEF Keeps
    <3> QED BY <1>3, <3>1, <3>2
  <2>2. CASE b.offset # 0 BY <1>1, <1>3, <2>2, AllocateHeap
  <2> QED BY <2>1, <2>2
<1>5. PICK who2 : Heap(b.arena, who2) /\ Keeps(a.arena, who1, b.arena, who2, {}) BY <1>4
<1>6. Keeps(Arena, who, b.arena, who2, {} \cup {}) BY <1>3, <1>5, KeepsAfter
<1>7. Keeps(Arena, who, b.arena, who2, {}) BY <1>6
<1> QED BY <1>5, <1>7

LEMMA MemAllocate ==
  ASSUME Base, Sess, NEW who, NEW at, Mem(who, at), NEW c \in Clients, AllocateRings(c)
  PROVE  /\ MemStep(who, {})
         /\ client'[c].pc = "publish" => /\ Queue(client[c].rings[1])' = << >>
                                         /\ Queue(client[c].rings[2])' = << >>
<1>1. PICK a : a = allocate(Arena, RingWords, RingAlign) OBVIOUS
<1>2. PICK b : b = allocate(a.arena, RingWords, RingAlign) OBVIOUS
<1> DEFINE got == a.offset # 0 /\ b.offset # 0
           rings == <<a.offset, b.offset>>
<1>3. PICK B : B = new_ring(new_ring(b.arena, a.offset), b.offset) OBVIOUS
<1>4. /\ Allocates(c, got, rings) /\ client[c].pc = "allocate"
      /\ Becomes(IF got THEN B ELSE b.arena) /\ UNCHANGED <<entries, stored>>
  BY <1>1, <1>2, <1>3 DEF AllocateRings, Allocates, At, tableVars
<1>5. /\ Moves(c) /\ client'[c].pc = (IF got THEN "publish" ELSE "remove")
      /\ client'[c].undo = ~got /\ client'[c].rings = rings /\ client'[c].id = client[c].id
  <2> HIDE DEF got, rings
  <2> QED BY <1>4, AllocateShape
<1>6. Heap(Arena, who) /\ Table(entries, Arena, stored, who, at) BY DEF Mem, KvMem
<1>7. ASSUME NEW G, Becomes(G), NEW who1, Heap(G, who1), Keeps(Arena, who, G, who1, {})
      PROVE  KvMem(who1, at)' /\ Frame(who, who1, {})
  <2>1. Heap(Arena, who1)' BY <1>7, HeapFields
  <2>2. Keeps(Arena, who, Arena', who1, {}) BY <1>7, ArenaNow DEF Keeps
  <2>3. Table(entries, Arena', stored, who1, at) BY <1>6, <2>2, TableKept
  <2>4. KvMem(who1, at)' BY <1>4, <2>1, <2>3 DEF KvMem
  <2> QED BY <1>6, <2>2, <2>4, FrameKeeps
<1>8. ASSUME NEW who1, Frame(who, who1, {}), NEW d \in Clients, d # c, Holds(client'[d])
      PROVE  Owns(who1, client[d])'
  <2>1. PICK r : r = client[d] /\ client'[d] = r BY <1>5, <1>8 DEF Moves
  <2>2. Owns(who, r) BY <1>8, <2>1 DEF Mem, Owned
  <2>3. Owns(who1, r)' BY <1>8, <2>2, OwnsKept
  <2> QED BY <2>1, <2>3
<1>9. CASE got
  <2> DEFINE id == client[c].id
  <2>1. PICK who1 : /\ Heap(B, who1) /\ Keeps(Arena, who, B, who1, {})
                    /\ a.offset \in Offsets /\ b.offset \in Offsets
                    /\ who1[a.offset] = CmdOf(id) /\ who1[b.offset] = RespOf(id)
                    /\ B.memory[a.offset][1] = "ring" /\ B.memory[b.offset][1] = "ring"
                    /\ B.memory[a.offset][2] = << >> /\ B.memory[b.offset][2] = << >>
    <3> HIDE DEF id
    <3> QED BY <1>1, <1>2, <1>3, <1>6, <1>9, TwoRings
  <2>2. Becomes(B) BY <1>4, <1>9
  <2>3. KvMem(who1, at)' /\ Frame(who, who1, {}) BY <1>7, <2>1, <2>2
  <2>4. memory' = B.memory BY <2>2 DEF Becomes
  <2>5. client'[c].rings[1] = a.offset /\ client'[c].rings[2] = b.offset BY <1>5
  <2>6. Owns(who1, client[c])' BY <1>5, <2>1, <2>4, <2>5 DEF Owns, IsRing
  <2>7. Owned(who1)' BY <1>8, <2>3, <2>6 DEF Owned, Holds
  <2>8. Mem(who1, at)' BY <2>3, <2>7 DEF Mem
  <2>9. Queue(client[c].rings[1])' = << >> /\ Queue(client[c].rings[2])' = << >>
    BY <2>1, <2>4, <2>5 DEF Queue
  <2> QED BY <2>3, <2>8, <2>9 DEF MemStep
<1>10. CASE ~got
  <2>1. PICK who1 : Heap(b.arena, who1) /\ Keeps(Arena, who, b.arena, who1, {})
    BY <1>1, <1>2, <1>6, NoRings
  <2>2. Becomes(b.arena) BY <1>4, <1>10
  <2>3. KvMem(who1, at)' /\ Frame(who, who1, {}) BY <1>7, <2>1, <2>2
  <2>4. client'[c].pc = "remove" BY <1>5, <1>10
  <2>5. ~Holds(client'[c]) BY <2>4 DEF Holds, Attends, Leaves
  <2>6. Owned(who1)' BY <1>8, <2>3, <2>5 DEF Owned, Holds
  <2>7. Mem(who1, at)' BY <2>3, <2>6 DEF Mem
  <2> QED BY <2>3, <2>4, <2>7 DEF MemStep
<1> QED BY <1>9, <1>10

LEMMA FreeMonotone ==
  ASSUME NEW A, DOMAIN A = ArenaFields, NEW o, NEW n, NEW F, F = free(A, o, n), ~F.smashed
  PROVE  ~A.smashed
<1>1. CASE ~HasClass(n) BY <1>1 DEF free
<1>2. CASE HasClass(n)
  <2>1. PICK M, f, x : F = [A EXCEPT !.memory = M, !.free_lists = f, !.smashed = A.smashed \/ x]
    BY <1>2 DEF free
  <2>2. F.smashed = (A.smashed \/ x) BY <2>1 DEF ArenaFields
  <2> QED BY <2>2
<1> QED BY <1>1, <1>2

LEMMA MemFree ==
  ASSUME Base, Sess, NEW who, NEW at, Mem(who, at), NEW c \in Clients, FreeRings(c), ~smashed'
  PROVE  /\ MemStep(who, {client[c].rings[1], client[c].rings[2]}) /\ Owns(who, client[c])
<1> DEFINE r1 == client[c].rings[1]
           r2 == client[c].rings[2]
           id == client[c].id
<1>1. client[c].pc = "free" /\ Moves(c) /\ client'[c] = Outside BY FreeShape
<1>2. Holds(client[c]) BY <1>1 DEF Holds, Leaves, Sess, Fit
<1>3. Owns(who, client[c]) BY <1>2 DEF Mem, Owned
<1>4. r1 \in Offsets /\ r2 \in Offsets /\ who[r1] = CmdOf(id) /\ who[r2] = RespOf(id)
  BY <1>3 DEF Owns
<1>5. r1 # r2 BY <1>4, Owners
<1>6. Heap(Arena, who) /\ Table(entries, Arena, stored, who, at) BY DEF Mem, KvMem
<1>7. PICK F : F = free(Arena, r1, RingWords) OBVIOUS
<1>8. PICK G : G = free(F, r2, RingWords) OBVIOUS
<1>9. Becomes(G) /\ UNCHANGED <<entries, stored>> BY <1>7, <1>8 DEF FreeRings, tableVars
<1> HIDE DEF r1, r2, id
<1>10. ~G.smashed BY <1>9 DEF Becomes
<1>11. ~F.smashed
  <2>1. DOMAIN F = ArenaFields BY <1>6, <1>7, FreeFields DEF Heap, Blocks
  <2> QED BY <1>8, <1>10, <2>1, FreeMonotone
<1>12. RingWords \in Nat \ {0} /\ IsOwner(who[r1]) /\ IsOwner(RespOf(id))
  BY <1>4, Owners, EngineAssumption
<1>13. PICK who1, x : Given(who, r1, x, who1) /\ Heap(F, who1) /\ Keeps(Arena, who, F, who1, {r1})
  BY <1>4, <1>6, <1>7, <1>11, <1>12, FreeHeap
<1>14. who1[r2] = RespOf(id) BY <1>4, <1>5, <1>13 DEF Given
<1>15. PICK who2, y : Heap(G, who2) /\ Keeps(F, who1, G, who2, {r2})
  BY <1>4, <1>8, <1>10, <1>12, <1>13, <1>14, FreeHeap
<1>16. PICK X : X = {r1} \cup {r2} OBVIOUS
<1>17. Keeps(Arena, who, G, who2, X) BY <1>13, <1>15, <1>16, KeepsAfter
<1>18. Heap(Arena, who2)' BY <1>9, <1>15, HeapFields
<1>19. Keeps(Arena, who, Arena', who2, X) BY <1>9, <1>17, ArenaNow DEF Keeps
<1>20. \A o \in X : who[o][1] # "entry" BY <1>4, <1>16 DEF CmdOf, RespOf
<1>21. Table(entries, Arena', stored, who2, at) BY <1>6, <1>19, <1>20, TableKept
<1>22. KvMem(who2, at)' BY <1>9, <1>18, <1>21 DEF KvMem
<1>23. Frame(who, who2, X) BY <1>6, <1>19, FrameKeeps
<1>24. ASSUME NEW d \in Clients, Holds(client'[d]) PROVE Owns(who2, client[d])'
  <2>1. d # c BY <1>1, <1>24, OutsideCaller DEF Holds, Attends, Leaves
  <2>2. PICK r : r = client[d] /\ client'[d] = r BY <1>1, <2>1 DEF Moves
  <2>3. Owns(who, r) BY <1>24, <2>2 DEF Mem, Owned
  <2>4. Known(r) /\ Known(client[c]) BY <1>1, <1>24, <2>2 DEF Known, Holds, Attends, Leaves
  <2>5. r.id # id BY <2>1, <2>2, <2>4 DEF Sess, id
  <2>6. r.rings[1] \notin X /\ r.rings[2] \notin X
    BY <1>4, <1>16, <2>3, <2>5, Owners DEF Owns
  <2>7. Owns(who2, r)' BY <1>23, <2>3, <2>6, OwnsKept
  <2> QED BY <2>2, <2>7
<1>25. Owned(who2)' BY <1>24 DEF Owned, Holds
<1>26. Mem(who2, at)' BY <1>22, <1>25 DEF Mem
<1>27. X = {client[c].rings[1], client[c].rings[2]} BY <1>16 DEF r1, r2
<1> QED BY <1>3, <1>23, <1>26, <1>27 DEF MemStep

-----------------------------------------------------------------------------
(* A response is written to a block of its own. *)
replied(A, o, x) ==
  [A EXCEPT !.memory = [p \in DOMAIN @ |-> IF p \in o..o + ReplyWords - 1 THEN x ELSE @[p]]]
ReplyRoom(A, o) == ReplyWords <= A.width[o]

LEMMA ReplyHeap ==
  ASSUME NEW A, NEW who, Heap(A, who), NEW o \in Offsets, IsOwner(who[o]),
         ReplyRoom(A, o), NEW x, x[1] # "ring", NEW B, B = replied(A, o, x)
  PROVE  /\ Heap(B, who) /\ Keeps(A, who, B, who, {o}) /\ B.memory[o] = x /\ NoNewRings(A, B)
<1> DEFINE M == [p \in DOMAIN A.memory |-> IF p \in o..o + ReplyWords - 1 THEN x ELSE A.memory[p]]
           C == [A EXCEPT !.memory = M]
<1>1. DOMAIN A = ArenaFields /\ DOMAIN A.memory = Offsets /\ A.width \in [Offsets -> Nat]
  BY DEF Heap, Blocks
<1>2. B = C BY DEF replied
<1>3. /\ DOMAIN C = ArenaFields /\ C.memory = M /\ C.current = A.current
      /\ C.free_lists = A.free_lists /\ C.width = A.width
  BY <1>1 DEF ArenaFields
<1> HIDE DEF C
<1>4. o \in Nat /\ A.width[o] \in Nat /\ ReplyWords \in Nat \ {0}
  BY <1>1, OffsetNat, EngineAssumption
<1>5. o..o + ReplyWords - 1 \subseteq o..o + A.width[o] - 1 /\ o \in o..o + ReplyWords - 1
  BY <1>4 DEF ReplyRoom
<1>6. OnlyIn(A, M, o) BY <1>1, <1>5 DEF OnlyIn
<1>7. M[o] = x BY <1>1, <1>5
<1>8. \A p \in Offsets : M[p][1] = "ring" => M[p] = A.memory[p] BY <1>1
<1> HIDE DEF M
<1>9. OnlyIn(A, C.memory, o) BY <1>3, <1>6
<1>10. Heap(C, who) BY <1>3, <1>9, WriteHeap
<1>11. Keeps(A, who, C, who, {o}) BY <1>3, <1>9, WriteKeeps
<1>12. C.memory[o] = x /\ NoNewRings(A, C) BY <1>3, <1>7, <1>8 DEF NoNewRings
<1> QED BY <1>2, <1>10, <1>11, <1>12

(* AllocateReply, when there is memory. *)
Answered(who1, o, x) ==
  /\ o \in Offsets /\ who1[o] = ReplyBlock /\ memory'[o] = x /\ NoNewRings(Arena, Arena')

LEMMA MemReply ==
  ASSUME NEW who, NEW at, Mem(who, at), NEW x, x[1] # "ring",
         NEW a, a = allocate(Arena, ReplyWords, 1), a.offset # 0,
         Becomes(replied(a.arena, a.offset, x)), UNCHANGED <<entries, stored, client>>
  PROVE  \E who1, at1 : /\ Mem(who1, at1)' /\ Frame(who, who1, {})
                        /\ Answered(who1, a.offset, x)
<1>1. Heap(Arena, who) /\ Table(entries, Arena, stored, who, at) BY DEF Mem, KvMem
<1>2. ReplyWords \in Nat \ {0} /\ 1 \in Nat \ {0} /\ IsOwner(ReplyBlock)
  BY EngineAssumption, Owners
<1>3. /\ a.offset \in Offsets /\ ~IsOwner(who[a.offset]) /\ ReplyWords <= a.arena.width[a.offset]
      /\ a.arena.memory = memory
      /\ \E who1 : /\ Given(who, a.offset, ReplyBlock, who1) /\ Heap(a.arena, who1)
                   /\ Keeps(Arena, who, a.arena, who1, {})
  BY <1>1, <1>2, AllocateHeap DEF Arena
<1>4. PICK who1 : /\ Given(who, a.offset, ReplyBlock, who1) /\ Heap(a.arena, who1)
                  /\ Keeps(Arena, who, a.arena, who1, {})
  BY <1>3
<1>5. PICK o : o = a.offset OBVIOUS
<1>6. PICK G : G = a.arena OBVIOUS
<1>7. PICK B : B = replied(G, o, x) OBVIOUS
<1>8. who1[o] = ReplyBlock BY <1>4, <1>5 DEF Given
<1>9. /\ Heap(G, who1) /\ o \in Offsets /\ IsOwner(who1[o]) /\ ReplyRoom(G, o)
  BY <1>2, <1>3, <1>4, <1>5, <1>6, <1>8 DEF ReplyRoom
<1>10. /\ Heap(B, who1) /\ Keeps(G, who1, B, who1, {o}) /\ B.memory[o] = x /\ NoNewRings(G, B)
  BY <1>7, <1>9, ReplyHeap
<1>11. Becomes(B) BY <1>5, <1>6, <1>7
<1>12. Heap(Arena, who1)' BY <1>10, <1>11, HeapFields
<1>13. Keeps(Arena, who, B, who1, {} \cup {o}) BY <1>4, <1>6, <1>10, KeepsAfter
<1>14. Keeps(Arena, who, Arena', who1, {})
  BY <1>3, <1>5, <1>11, <1>13, ArenaNow DEF Keeps
<1>15. Table(entries, Arena', stored, who1, at) BY <1>1, <1>14, TableKept
<1>16. KvMem(who1, at)' BY <1>12, <1>15 DEF KvMem
<1>17. Frame(who, who1, {}) BY <1>1, <1>14, FrameKeeps
<1>18. Owned(who1)' BY <1>17, OwnedKept
<1>19. Mem(who1, at)' BY <1>16, <1>18 DEF Mem
<1>20. NoNewRings(Arena, Arena')
  BY <1>3, <1>6, <1>10, <1>11, ArenaNow DEF NoNewRings, Arena
<1>21. memory' = B.memory BY <1>11 DEF Becomes
<1>22. Answered(who1, o, x) BY <1>8, <1>9, <1>10, <1>20, <1>21 DEF Answered
<1> QED BY <1>5, <1>17, <1>19, <1>22

-----------------------------------------------------------------------------
(* What rings hold, what the server has taken from one, and how much clients have sent. *)
Commands == {"command"} \X Nat \X Requests
Items == Commands \cup ({"offset"} \X Offsets)
ServerFields == {"pc", "id", "ref", "item", "reply"}
Serves == {"process", "reply", "find", "push"}

Rings == \A o \in Offsets : IsRing(o) => Queue(o) \in Seq(Items)
Serving ==
  /\ DOMAIN server = ServerFields /\ server.id \in Nat
  /\ server.pc \in Serves => server.item \in Commands
  /\ server.pc \in {"find", "push"} => server.reply \in Offsets
  /\ server.pc \in {"pop", "push"} => server.ref \in Offsets
Named == \A i \in 1..MaxSessions : slots[i].cmd \in Offsets /\ slots[i].resp \in Offsets
Sent == \A c \in Clients : client[c].sent \in Nat
Proper == Rings /\ Serving /\ Named /\ Sent

LEMMA RingsSame == ASSUME Rings, UNCHANGED memory PROVE Rings'
BY DEF Rings, IsRing, Queue

LEMMA RingsNotNew == ASSUME Rings, NoNewRings(Arena, Arena') PROVE Rings'
<1>1. Arena.memory = memory /\ Arena'.memory = memory' BY DEF Arena
<1> QED BY <1>1 DEF Rings, IsRing, Queue, NoNewRings

LEMMA RingsSet ==
  ASSUME NEW who, NEW at, Mem(who, at), Rings, NEW q, NEW o, SetQueue(q, o),
         o \in Offsets => q \in Seq(Items)
  PROVE  Rings'
<1>1. DOMAIN memory = Offsets BY DEF Mem, KvMem, Heap, Blocks, Arena
<1> SUFFICES ASSUME NEW p \in Offsets, memory'[p][1] = "ring" PROVE memory'[p][2] \in Seq(Items)
  BY DEF Rings, IsRing, Queue
<1>2. CASE p = o
  <2>1. memory'[p] = <<"ring", q>> BY <1>1, <1>2 DEF SetQueue
  <2> QED BY <1>2, <2>1
<1>3. CASE p # o
  <2>1. memory'[p] = memory[p] BY <1>1, <1>3 DEF SetQueue
  <2> QED BY <2>1 DEF Rings, IsRing, Queue
<1> QED BY <1>2, <1>3

(* A free block is no ring. *)
LEMMA FreeNoRings ==
  ASSUME NEW A, DOMAIN A = ArenaFields, DOMAIN A.memory = Offsets, NEW o, NEW n,
         NEW F, F = free(A, o, n)
  PROVE  NoNewRings(A, F) /\ DOMAIN F = ArenaFields /\ DOMAIN F.memory = Offsets
<1>1. CASE ~HasClass(n) BY <1>1 DEF free, NoNewRings
<1>2. CASE HasClass(n)
  <2> DEFINE M == [p \in DOMAIN A.memory |->
                     IF p = o THEN <<"next", A.free_lists[size_class_for(n)]>>
                     ELSE IF p = o + 1 THEN <<"size", size_for_class(size_class_for(n))>>
                     ELSE A.memory[p]]
  <2>1. PICK f, x : F = [A EXCEPT !.memory = M, !.free_lists = f, !.smashed = x]
    BY <1>2 DEF free
  <2>2. \A p \in Offsets : M[p][1] = "ring" => M[p] = A.memory[p] OBVIOUS
  <2>3. DOMAIN M = Offsets OBVIOUS
  <2> HIDE DEF M
  <2>4. F.memory = M /\ DOMAIN F = ArenaFields BY <2>1 DEF ArenaFields
  <2> QED BY <2>2, <2>3, <2>4 DEF NoNewRings
<1> QED BY <1>1, <1>2

(* A new ring is empty. *)
Emptied(A, B) ==
  \A p \in Offsets : B.memory[p][1] = "ring" => B.memory[p] = A.memory[p] \/ B.memory[p][2] = << >>

LEMMA NewRingEmpty ==
  ASSUME NEW A, DOMAIN A = ArenaFields, DOMAIN A.memory = Offsets, NEW o, NEW B, B = new_ring(A, o)
  PROVE  Emptied(A, B) /\ DOMAIN B = ArenaFields /\ DOMAIN B.memory = Offsets
<1> DEFINE M == [p \in DOMAIN A.memory |->
                   IF p = o THEN <<"ring", << >>>>
                   ELSE IF p \in o + 1 .. o + RingWords - 1 THEN <<"slots">> ELSE A.memory[p]]
<1>1. B = [A EXCEPT !.memory = M] BY DEF new_ring
<1>2. \A p \in Offsets : M[p][1] = "ring" => M[p] = A.memory[p] \/ M[p][2] = << >>
  <2> SUFFICES ASSUME NEW p \in Offsets, M[p][1] = "ring"
               PROVE  M[p] = A.memory[p] \/ M[p][2] = << >>
    OBVIOUS
  <2>1. CASE p = o
    <3>1. M[p] = <<"ring", << >>>> BY <2>1
    <3> HIDE DEF M
    <3> QED BY <3>1
  <2>2. CASE p # o
    <3>1. M[p] = <<"slots">> \/ M[p] = A.memory[p] BY <2>2
    <3>2. <<"slots">>[1] # "ring" OBVIOUS
    <3> HIDE DEF M
    <3> QED BY <3>1, <3>2
  <2> QED BY <2>1, <2>2
<1>3. DOMAIN M = Offsets OBVIOUS
<1> HIDE DEF M
<1>4. B.memory = M /\ DOMAIN B = ArenaFields BY <1>1 DEF ArenaFields
<1> QED BY <1>2, <1>3, <1>4 DEF Emptied

LEMMA EmptiedRings == ASSUME Rings, Emptied(Arena, Arena') PROVE Rings'
<1>1. Arena.memory = memory /\ Arena'.memory = memory' BY DEF Arena
<1>2. << >> \in Seq(Items) OBVIOUS
<1> QED BY <1>1, <1>2 DEF Rings, IsRing, Queue, Emptied

LEMMA RingsAllocate ==
  ASSUME NEW who, NEW at, Mem(who, at), Rings, NEW c \in Clients, AllocateRings(c) PROVE Rings'
<1>1. PICK a : a = allocate(Arena, RingWords, RingAlign) OBVIOUS
<1>2. PICK b : b = allocate(a.arena, RingWords, RingAlign) OBVIOUS
<1>3. PICK C : C = new_ring(b.arena, a.offset) OBVIOUS
<1>4. PICK B : B = new_ring(C, b.offset) OBVIOUS
<1>5. Becomes(B) \/ Becomes(b.arena)
  BY <1>1, <1>2, <1>3, <1>4 DEF AllocateRings
<1>6. Heap(Arena, who) /\ RingWords \in Nat \ {0} /\ RingAlign \in Nat \ {0} /\ IsOwner(Lost)
  BY EngineAssumption, Owners DEF Mem, KvMem
<1>7. a.arena.memory = memory /\ \E who1 : Heap(a.arena, who1)
  <2>1. a.arena.memory = Arena.memory BY <1>1, <1>6, AllocateHeap
  <2>2. CASE a.offset = 0
    <3>1. a.arena = Arena BY <1>1, <1>6, <2>2, AllocateHeap
    <3> QED BY <1>6, <2>1, <3>1 DEF Arena
  <2>3. CASE a.offset # 0
    <3>1. \E who1 : Heap(a.arena, who1) BY <1>1, <1>6, <2>3, AllocateHeap
    <3> QED BY <2>1, <3>1 DEF Arena
  <2> QED BY <2>2, <2>3
<1>8. PICK who1 : Heap(a.arena, who1) BY <1>7
<1>9. b.arena.memory = memory /\ \E who2 : Heap(b.arena, who2)
  BY <1>2, <1>6, <1>7, <1>8, AllocateHeap
<1>10. DOMAIN b.arena = ArenaFields /\ DOMAIN b.arena.memory = Offsets
  BY <1>9 DEF Heap, Blocks
<1>11. PICK G : G = b.arena OBVIOUS
<1>12. Emptied(G, C) /\ DOMAIN C = ArenaFields /\ DOMAIN C.memory = Offsets
  BY <1>3, <1>10, <1>11, NewRingEmpty
<1>13. Emptied(C, B) BY <1>4, <1>12, NewRingEmpty
<1>14. G.memory = memory /\ Arena.memory = memory BY <1>9, <1>11 DEF Arena
<1>15. CASE Becomes(B)
  <2>1. Arena'.memory = B.memory BY <1>15, ArenaNow
  <2>2. Emptied(Arena, Arena') BY <1>12, <1>13, <1>14, <2>1 DEF Emptied
  <2> QED BY <2>2, EmptiedRings
<1>16. CASE Becomes(b.arena)
  <2>1. memory' = memory BY <1>9, <1>16 DEF Becomes
  <2> QED BY <2>1, RingsSame
<1> QED BY <1>5, <1>15, <1>16

LEMMA RingsFree ==
  ASSUME NEW who, NEW at, Mem(who, at), Rings, NEW c \in Clients, FreeRings(c) PROVE Rings'
<1>1. PICK r : r = client[c].rings OBVIOUS
<1>2. PICK F : F = free(Arena, r[1], RingWords) OBVIOUS
<1>3. PICK G : G = free(F, r[2], RingWords) OBVIOUS
<1>4. Becomes(G) BY <1>1, <1>2, <1>3 DEF FreeRings
<1>5. DOMAIN Arena = ArenaFields /\ DOMAIN Arena.memory = Offsets BY DEF Mem, KvMem, Heap, Blocks
<1>6. NoNewRings(Arena, F) /\ DOMAIN F = ArenaFields /\ DOMAIN F.memory = Offsets
  BY <1>2, <1>5, FreeNoRings
<1>7. NoNewRings(F, G) BY <1>3, <1>6, FreeNoRings
<1>8. Arena'.memory = G.memory BY <1>4, ArenaNow
<1>9. NoNewRings(Arena, Arena') BY <1>6, <1>7, <1>8 DEF NoNewRings
<1> QED BY <1>9, RingsNotNew

-----------------------------------------------------------------------------
(* Calls that do not touch the arena. *)
Elsewhere == UNCHANGED <<tableVars, arenaVars, stored, server>>
NotIn(c) ==
  \/ create_session(c) \/ find_free_slot(c) \/ WriteId(c) \/ CountUp(c)
  \/ \E fails \in BOOLEAN : OpenEventfd(c, fails)
  \/ PublishRings(c) \/ detach_session(c) \/ remove_session(c) \/ CountDown(c)
  \/ Sleep(c) \/ Wake(c) \/ ack_notifications(c)

LEMMA NotInElsewhere == ASSUME NEW c \in Clients, NotIn(c) PROVE Elsewhere
<1>1. CASE create_session(c) BY <1>1 DEF create_session, kvVars, Elsewhere
<1>2. CASE find_free_slot(c) BY <1>2 DEF find_free_slot, kvVars, Elsewhere
<1>3. CASE WriteId(c) BY <1>3 DEF WriteId, kvVars, Elsewhere
<1>4. CASE CountUp(c) BY <1>4 DEF CountUp, kvVars, Elsewhere
<1>5. CASE \E fails \in BOOLEAN : OpenEventfd(c, fails) BY <1>5 DEF OpenEventfd, kvVars, Elsewhere
<1>6. CASE PublishRings(c) BY <1>6 DEF PublishRings, kvVars, Elsewhere
<1>7. CASE detach_session(c) BY <1>7 DEF detach_session, kvVars, Elsewhere
<1>8. CASE remove_session(c) BY <1>8 DEF remove_session, kvVars, Elsewhere
<1>9. CASE CountDown(c) BY <1>9 DEF CountDown, kvVars, Elsewhere
<1>10. CASE Sleep(c) BY <1>10 DEF Sleep, kvVars, Elsewhere
<1>11. CASE Wake(c) BY <1>11 DEF Wake, kvVars, Elsewhere
<1>12. CASE ack_notifications(c) BY <1>12 DEF ack_notifications, kvVars, Elsewhere
<1> QED BY <1>1, <1>2, <1>3, <1>4, <1>5, <1>6, <1>7, <1>8, <1>9, <1>10, <1>11, <1>12 DEF NotIn

(* A call keeps its rings until they are freed. *)
KeepsRings(r, s) ==
  Holds(s) => Holds(r) /\ s.id = r.id /\ s.rings[1] = r.rings[1] /\ s.rings[2] = r.rings[2]

LEMMA NotInKeeps ==
  ASSUME Base, Sess, NEW c \in Clients, NotIn(c) PROVE Moves(c) /\ KeepsRings(client[c], client'[c])
<1>1. CASE create_session(c)
  <2> DEFINE r == [Outside EXCEPT !.pc = "find"]
  <2>1. client[c].pc = "out" /\ client' = [client EXCEPT ![c] = r] BY <1>1 DEF create_session, At
  <2>2. Caller(r) /\ r.pc = "find" BY DEF Outside, Caller, ClientFields
  <2> HIDE DEF r
  <2>3. Moves(c) /\ client'[c] = r BY <2>1, <2>2, Replaces DEF Base
  <2> QED BY <2>2, <2>3 DEF KeepsRings, Holds, Attends, Leaves
<1>2. CASE find_free_slot(c)
  BY <1>2, FindShape DEF KeepsRings, Holds, Attends, Leaves
<1>3. CASE WriteId(c) BY <1>3, WriteIdShape DEF KeepsRings, Holds, Attends, Leaves
<1>4. CASE CountUp(c) BY <1>4, CountUpShape DEF KeepsRings, Holds, Attends, Leaves
<1>5. ASSUME NEW fails \in BOOLEAN, OpenEventfd(c, fails)
      PROVE  Moves(c) /\ KeepsRings(client[c], client'[c])
  BY <1>5, OpenShape DEF KeepsRings, Holds, Attends, Leaves
<1>6. CASE PublishRings(c) BY <1>6, PublishShape DEF KeepsRings, Holds, Attends, Leaves, Same
<1>7. CASE detach_session(c)
  <2>1. /\ client[c].pc \in {"in", "remove"} /\ Moves(c)
        /\ IF \A i \in 1..MaxSessions : slots[i].id # client[c].id THEN client'[c] = Outside
           ELSE /\ client'[c].pc = "drop" /\ client'[c].id = client[c].id
                /\ client'[c].undo = client[c].undo /\ client'[c].slot \in 1..MaxSessions
                /\ slots[client'[c].slot].id = client[c].id
                /\ client'[c].rings = <<slots[client'[c].slot].cmd, slots[client'[c].slot].resp>>
    BY <1>7, DetachShape
  <2>2. CASE \A i \in 1..MaxSessions : slots[i].id # client[c].id
    <3>1. client'[c].pc = "out" BY <2>1, <2>2, OutsideCaller
    <3> QED BY <2>1, <3>1 DEF KeepsRings, Holds, Attends, Leaves
  <2>3. CASE ~\A i \in 1..MaxSessions : slots[i].id # client[c].id
    <3> DEFINE m == client'[c].slot
    <3>1. /\ client'[c].id = client[c].id /\ client'[c].pc = "drop"
          /\ client'[c].undo = client[c].undo /\ m \in 1..MaxSessions /\ slots[m].id = client[c].id
          /\ client'[c].rings[1] = slots[m].cmd /\ client'[c].rings[2] = slots[m].resp
      BY <2>1, <2>3
    <3>2. Fit(client[c]) BY DEF Sess
    <3>3. CASE client[c].pc = "in"
      <4>1. slots[m].cmd = client[c].rings[1] /\ slots[m].resp = client[c].rings[2]
        BY <3>1, <3>2, <3>3 DEF Fit, Attends
      <4>2. Holds(client[c]) BY <3>3 DEF Holds, Attends
      <4> QED BY <2>1, <3>1, <4>1, <4>2 DEF KeepsRings
    <3>4. CASE client[c].pc = "remove"
      <4>1. client'[c].undo BY <3>1, <3>2, <3>4 DEF Fit
      <4> QED BY <2>1, <3>1, <4>1 DEF KeepsRings, Holds, Attends, Leaves
    <3> QED BY <2>1, <3>3, <3>4
  <2> QED BY <2>2, <2>3
<1>8. CASE remove_session(c) BY <1>8, RemoveShape DEF KeepsRings, Holds, Attends, Leaves, Same
<1>9. CASE CountDown(c)
  <2>1. /\ client[c].pc = "discount" /\ Moves(c)
        /\ IF client[c].undo THEN client'[c] = Outside
           ELSE client'[c].pc = "free" /\ Same(client[c], client'[c])
    BY <1>9, CountDownShape
  <2>2. CASE client[c].undo
    <3>1. client'[c].pc = "out" BY <2>1, <2>2, OutsideCaller
    <3> QED BY <2>1, <3>1 DEF KeepsRings, Holds, Attends, Leaves
  <2>3. CASE ~client[c].undo BY <2>1, <2>3 DEF KeepsRings, Holds, Attends, Leaves, Same
  <2> QED BY <2>2, <2>3
<1>10. CASE Sleep(c) BY <1>10, SleepShape DEF KeepsRings, Holds, Attends, Leaves, Same
<1>11. CASE Wake(c) BY <1>11, WakeShape DEF KeepsRings, Holds, Attends, Leaves, Same
<1>12. CASE ack_notifications(c) BY <1>12, AckShape DEF KeepsRings, Holds, Attends, Leaves
<1> QED BY <1>1, <1>2, <1>3, <1>4, <1>5, <1>6, <1>7, <1>8, <1>9, <1>10, <1>11, <1>12 DEF NotIn

LEMMA MemNotIn ==
  ASSUME Base, Sess, NEW who, NEW at, Mem(who, at), NEW c \in Clients, NotIn(c)
  PROVE  MemStep(who, {})
<1>1. Moves(c) /\ KeepsRings(client[c], client'[c]) BY NotInKeeps
<1>2. UNCHANGED <<entries, stored, arenaVars>> BY NotInElsewhere DEF Elsewhere, tableVars
<1> QED BY <1>1, <1>2, MemMoves DEF KeepsRings

-----------------------------------------------------------------------------
(* Everything but rings. *)
LEMMA NamedFewer == ASSUME Named, Fewer PROVE Named'
BY DEF Named, Fewer

LEMMA NamedNotIn ==
  ASSUME Base, Sess, NEW who, NEW at, Mem(who, at), Named, NEW c \in Clients, NotIn(c) PROVE Named'
<1>1. CASE create_session(c) \/ find_free_slot(c) \/ CountUp(c) \/ detach_session(c)
           \/ CountDown(c) \/ Sleep(c)
  <2>1. UNCHANGED slots
    BY <1>1 DEF create_session, find_free_slot, CountUp, detach_session, CountDown, Sleep, registry
  <2> QED BY <2>1, SameFixed, FixedFewer, NamedFewer
<1>2. CASE WriteId(c)
  <2>1. \A j \in 1..MaxSessions : slots'[j].cmd = slots[j].cmd /\ slots'[j].resp = slots[j].resp
    BY <1>2, WriteIdShape
  <2> QED BY <2>1 DEF Named
<1>3. ASSUME NEW fails \in BOOLEAN, OpenEventfd(c, fails) PROVE Named'
  BY <1>3, OpenShape, FixedFewer, NamedFewer
<1>4. CASE PublishRings(c)
  <2>1. /\ client[c].pc = "publish"
        /\ \A i \in 1..MaxSessions :
             IF slots[i].id = client[c].id
             THEN slots'[i].cmd = client[c].rings[1] /\ slots'[i].resp = client[c].rings[2]
             ELSE slots'[i] = slots[i]
    BY <1>4, PublishShape
  <2>2. client[c].rings[1] \in Offsets /\ client[c].rings[2] \in Offsets
    BY <2>1 DEF Mem, Owned, Owns, Holds
  <2> QED BY <2>1, <2>2 DEF Named
<1>5. CASE remove_session(c) BY <1>5, RemoveShape, NamedFewer
<1>6. CASE Wake(c) BY <1>6, WakeShape, FixedFewer, NamedFewer
<1>7. CASE ack_notifications(c) BY <1>7, AckShape, FixedFewer, NamedFewer
<1> QED BY <1>1, <1>2, <1>3, <1>4, <1>5, <1>6, <1>7 DEF NotIn

(* Such a call sends and gets nothing. *)
Hushed(r, s) ==
  \/ s.sent = r.sent /\ s.got = r.got /\ (s.id = r.id \/ r.pc \in {"find", "write"})
  \/ s.sent = 0 /\ s.got = << >>

LEMMA OutsideHushed == \A r : Hushed(r, Outside)
BY DEF Hushed, Outside

LEMMA NotInHushed == ASSUME Base, NEW c \in Clients, NotIn(c) PROVE Hushed(client[c], client'[c])
<1>1. CASE create_session(c)
  <2> DEFINE r == [Outside EXCEPT !.pc = "find"]
  <2>1. client' = [client EXCEPT ![c] = r] BY <1>1 DEF create_session
  <2>2. r.sent = 0 /\ r.got = << >> BY DEF Outside
  <2> HIDE DEF r
  <2>3. client'[c] = r BY <2>1 DEF Base, Callers
  <2> QED BY <2>2, <2>3 DEF Hushed
<1>2. CASE find_free_slot(c) BY <1>2, FindShape, OutsideHushed DEF Hushed
<1>3. CASE WriteId(c) BY <1>3, WriteIdShape DEF Hushed
<1>4. CASE CountUp(c) BY <1>4, CountUpShape DEF Hushed, Same
<1>5. ASSUME NEW fails \in BOOLEAN, OpenEventfd(c, fails) PROVE Hushed(client[c], client'[c])
  BY <1>5, OpenShape DEF Hushed, Same
<1>6. CASE PublishRings(c) BY <1>6, PublishShape DEF Hushed, Same
<1>7. CASE detach_session(c)
  <2>1. IF \A i \in 1..MaxSessions : slots[i].id # client[c].id THEN client'[c] = Outside
        ELSE /\ client'[c].sent = client[c].sent /\ client'[c].got = client[c].got
             /\ client'[c].id = client[c].id
    BY <1>7, DetachShape
  <2>2. client'[c] = Outside \/ (/\ client'[c].sent = client[c].sent
                                 /\ client'[c].got = client[c].got /\ client'[c].id = client[c].id)
    BY <2>1
  <2> QED BY <2>2, OutsideHushed DEF Hushed
<1>8. CASE remove_session(c) BY <1>8, RemoveShape DEF Hushed, Same
<1>9. CASE CountDown(c) BY <1>9, CountDownShape, OutsideHushed DEF Hushed, Same
<1>10. CASE Sleep(c) BY <1>10, SleepShape DEF Hushed, Same
<1>11. CASE Wake(c) BY <1>11, WakeShape DEF Hushed, Same
<1>12. CASE ack_notifications(c) BY <1>12, AckShape DEF Hushed
<1> QED BY <1>1, <1>2, <1>3, <1>4, <1>5, <1>6, <1>7, <1>8, <1>9, <1>10, <1>11, <1>12 DEF NotIn

LEMMA SentMoves ==
  ASSUME Sent, NEW c \in Clients, Moves(c), client'[c].sent \in Nat PROVE Sent'
BY DEF Sent, Moves

LEMMA ServingSame == ASSUME Serving, UNCHANGED server PROVE Serving'
BY DEF Serving

LEMMA ProperNotIn ==
  ASSUME Base, Sess, NEW who, NEW at, Mem(who, at), Proper, NEW c \in Clients, NotIn(c)
  PROVE  MemStep(who, {}) /\ Proper'
<1>1. MemStep(who, {}) BY MemNotIn
<1>2. Elsewhere BY NotInElsewhere
<1>3. Rings' BY <1>2, RingsSame DEF Elsewhere, arenaVars, Proper
<1>4. Serving' BY <1>2, ServingSame DEF Elsewhere, Proper
<1>5. Named' BY NamedNotIn DEF Proper
<1>6. Hushed(client[c], client'[c]) /\ Moves(c) BY NotInHushed, NotInKeeps
<1>7. Sent' BY <1>6, SentMoves DEF Hushed, Proper, Sent
<1> QED BY <1>1, <1>3, <1>4, <1>5, <1>7 DEF Proper

-----------------------------------------------------------------------------
(* Clients at their rings. *)
LEMMA OwnsMoves ==
  ASSUME NEW who, NEW at, Mem(who, at), NEW c \in Clients, Moves(c),
         KeepsRings(client[c], client'[c])
  PROVE  \A d \in Clients : Holds(client'[d]) => Owns(who, client'[d])
<1> SUFFICES ASSUME NEW d \in Clients, Holds(client'[d]) PROVE Owns(who, client'[d]) OBVIOUS
<1>1. CASE d = c BY <1>1 DEF Mem, Owned, Owns, KeepsRings
<1>2. CASE d # c BY <1>2 DEF Mem, Owned, Moves
<1> QED BY <1>1, <1>2

LEMMA OwnsStay ==
  ASSUME NEW who, NEW at, Mem(who, at), UNCHANGED client
  PROVE  \A d \in Clients : Holds(client'[d]) => Owns(who, client'[d])
BY DEF Mem, Owned

LEMMA ProperPush ==
  ASSUME Base, NEW who, NEW at, Mem(who, at), Proper, NEW c \in Clients, NEW command \in Requests,
         PushCommand(c, command)
  PROVE  MemStep(who, {CmdRing(c)}) /\ Proper'
<1>1. PICK o : o = CmdRing(c) OBVIOUS
<1>2. PICK x : x = <<"command", client[c].sent + 1, command>> OBVIOUS
<1>3. PICK q : q = Append(Queue(o), x) OBVIOUS
<1>4. /\ IsRing(o) /\ SetQueue(q, o)
      /\ UNCHANGED <<entries, stored, current, free_lists, width, smashed, slots, server>>
  BY <1>1, <1>2, <1>3 DEF PushCommand, tableVars, registry
<1>5. /\ Moves(c) /\ client[c].pc = "in" /\ client'[c].id = client[c].id
      /\ client'[c].rings = client[c].rings /\ client'[c].sent = client[c].sent + 1
  BY PushShape
<1>6. KeepsRings(client[c], client'[c]) BY <1>5 DEF KeepsRings, Holds, Attends
<1>7. MemStep(who, {o}) BY <1>4, <1>5, <1>6, OwnsMoves, MemQueue
<1>8. client[c].sent \in Nat /\ client[c].sent + 1 \in Nat BY DEF Proper, Sent
<1>9. x \in Items BY <1>2, <1>8 DEF Items, Commands
<1>10. o \in Offsets => q \in Seq(Items)
  <2>1. o \in Offsets => Queue(o) \in Seq(Items) BY <1>4 DEF Proper, Rings
  <2> QED BY <1>3, <1>9, <2>1
<1>11. Rings' BY <1>4, <1>10, RingsSet DEF Proper
<1>12. Sent' BY <1>5, <1>8, SentMoves DEF Proper
<1>13. Named' BY <1>4 DEF Proper, Named
<1>14. Serving' BY <1>4, ServingSame DEF Proper
<1> QED BY <1>1, <1>7, <1>11, <1>12, <1>13, <1>14 DEF Proper

LEMMA ProperPop ==
  ASSUME Base, NEW who, NEW at, Mem(who, at), Proper, NEW c \in Clients, PopResponse(c)
  PROVE  MemStep(who, {RespRing(c)}) /\ Proper'
<1>1. PICK o : o = RespRing(c) OBVIOUS
<1>2. PICK q : q = Tail(Queue(o)) OBVIOUS
<1>3. /\ IsRing(o) /\ SetQueue(q, o) /\ Queue(o) # << >>
      /\ UNCHANGED <<entries, stored, current, free_lists, width, smashed, slots, server>>
  BY <1>1, <1>2 DEF PopResponse, popped, tableVars, registry
<1>4. /\ Moves(c) /\ client[c].pc = "in" /\ client'[c].id = client[c].id
      /\ client'[c].rings = client[c].rings /\ client'[c].sent = client[c].sent
  BY PopShape
<1>5. KeepsRings(client[c], client'[c]) BY <1>4 DEF KeepsRings, Holds, Attends
<1>6. MemStep(who, {o}) BY <1>3, <1>4, <1>5, OwnsMoves, MemQueue
<1>7. o \in Offsets => q \in Seq(Items)
  <2>1. o \in Offsets => Queue(o) \in Seq(Items) BY <1>3 DEF Proper, Rings
  <2> QED BY <1>2, <1>3, <2>1
<1>8. Rings' BY <1>3, <1>7, RingsSet DEF Proper
<1>9. Sent' BY <1>4, SentMoves DEF Proper, Sent
<1>10. Named' BY <1>3 DEF Proper, Named
<1>11. Serving' BY <1>3, ServingSame DEF Proper
<1> QED BY <1>1, <1>6, <1>8, <1>9, <1>10, <1>11 DEF Proper

LEMMA ProperAllocate ==
  ASSUME Base, Sess, NEW who, NEW at, Mem(who, at), Proper, NEW c \in Clients, AllocateRings(c)
  PROVE  MemStep(who, {}) /\ Proper'
<1>1. MemStep(who, {}) BY MemAllocate
<1>2. Rings' BY RingsAllocate DEF Proper
<1>3. PICK got, rings : Allocates(c, got, rings) BY DEF AllocateRings, Allocates
<1>4. client[c].pc = "allocate" /\ UNCHANGED <<slots, server>> BY DEF AllocateRings, At, registry
<1>5. Moves(c) /\ client'[c].sent = client[c].sent BY <1>3, <1>4, AllocateShape
<1>6. Sent' BY <1>5, SentMoves DEF Proper, Sent
<1>7. Named' BY <1>4 DEF Proper, Named
<1>8. Serving' BY <1>4, ServingSame DEF Proper
<1> QED BY <1>1, <1>2, <1>6, <1>7, <1>8 DEF Proper

LEMMA ProperFree ==
  ASSUME Base, Sess, NEW who, NEW at, Mem(who, at), Proper, NEW c \in Clients, FreeRings(c),
         ~smashed'
  PROVE  MemStep(who, {client[c].rings[1], client[c].rings[2]}) /\ Proper'
<1>1. MemStep(who, {client[c].rings[1], client[c].rings[2]}) BY MemFree
<1>2. Rings' BY RingsFree DEF Proper
<1>3. Moves(c) /\ client'[c] = Outside BY FreeShape
<1>4. UNCHANGED <<slots, server>> BY DEF FreeRings, registry
<1>5. client'[c].sent \in Nat BY <1>3 DEF Outside
<1>6. Sent' BY <1>3, <1>5, SentMoves DEF Proper
<1>7. Named' BY <1>4 DEF Proper, Named
<1>8. Serving' BY <1>4, ServingSame DEF Proper
<1> QED BY <1>1, <1>2, <1>6, <1>7, <1>8 DEF Proper

-----------------------------------------------------------------------------
(* The serving thread. *)
LEMMA RestServing == ASSUME server' = Resting PROVE Serving' /\ server'.pc = "idle" /\ server'.id = 0
<1>1. /\ DOMAIN Resting = ServerFields /\ Resting.id = 0 /\ Resting.pc = "idle"
  BY DEF Resting, ServerFields
<1> QED BY <1>1 DEF Serving, Serves

LEMMA ProperStill ==
  ASSUME NEW who, NEW at, Mem(who, at), Proper, UNCHANGED <<kvVars, client>>, Serving', Named'
  PROVE  MemStep(who, {}) /\ Proper'
<1>1. UNCHANGED <<entries, stored, arenaVars, client, memory>> BY DEF kvVars, tableVars, arenaVars
<1>2. MemStep(who, {}) BY <1>1, MemStill
<1>3. Rings' /\ Sent' BY <1>1, RingsSame DEF Proper, Sent
<1> QED BY <1>2, <1>3 DEF Proper

LEMMA TakeShape ==
  ASSUME Base, NEW i \in DOMAIN slots, get_cmd_ring(i)
  PROVE  /\ i \in 1..MaxSessions /\ slots[i].id # 0 /\ server.pc = "idle"
         /\ DOMAIN server' = ServerFields /\ server'.pc = "pop" /\ server'.id = slots[i].id
         /\ server'.ref = slots[i].cmd /\ UNCHANGED <<kvVars, client, slots>>
<1>1. i \in 1..MaxSessions /\ slots[i].id # 0 /\ server.pc = "idle"
  BY DEF Base, Registry, get_cmd_ring, ServerAt
<1>2. server' = [Resting EXCEPT !.pc = "pop", !.id = slots[i].id, !.ref = slots[i].cmd]
  BY DEF get_cmd_ring
<1>3. /\ DOMAIN server' = ServerFields /\ server'.pc = "pop" /\ server'.id = slots[i].id
      /\ server'.ref = slots[i].cmd
  BY <1>2 DEF Resting, ServerFields
<1> QED BY <1>1, <1>3 DEF get_cmd_ring, registry

LEMMA ProperTake ==
  ASSUME Base, NEW who, NEW at, Mem(who, at), Proper, NEW i \in DOMAIN slots, get_cmd_ring(i)
  PROVE  MemStep(who, {}) /\ Proper'
<1>1. /\ i \in 1..MaxSessions /\ DOMAIN server' = ServerFields /\ server'.pc = "pop"
      /\ server'.id = slots[i].id /\ server'.ref = slots[i].cmd /\ UNCHANGED <<kvVars, client, slots>>
  BY TakeShape
<1>2. Serving' BY <1>1 DEF Serving, Serves, Proper, Named, Base, Registry
<1>3. Named' BY <1>1 DEF Proper, Named
<1> QED BY <1>1, <1>2, <1>3, ProperStill

(* The first item of a ring. *)
Moved(s, l) ==
  /\ DOMAIN server' = ServerFields /\ server'.pc = l /\ server'.id = s.id

LEMMA FetchShape ==
  ASSUME Serving, Rings, try_get_command
  PROVE  /\ server.pc = "pop" /\ server.ref \in Offsets /\ IsRing(server.ref)
         /\ UNCHANGED <<entries, stored, current, free_lists, width, smashed, slots, client>>
         /\ \/ server' = Resting /\ UNCHANGED memory
            \/ \E q \in Seq(Items), x \in Items :
                 /\ Queue(server.ref) # << >> /\ q = Tail(Queue(server.ref))
                 /\ x = Head(Queue(server.ref)) /\ SetQueue(q, server.ref)
                 /\ \/ x[1] # "command" /\ server' = Resting
                    \/ /\ x \in Commands /\ Moved(server, "process") /\ server'.item = x
<1>1. server.pc = "pop" /\ server.ref \in Offsets /\ IsRing(server.ref)
  BY DEF try_get_command, ServerAt, Serving
<1>2. PICK Q : Q = Queue(server.ref) OBVIOUS
<1>3. Q \in Seq(Items) BY <1>1, <1>2 DEF Rings
<1>4. UNCHANGED <<entries, stored, current, free_lists, width, smashed, slots, client>>
  BY DEF try_get_command, tableVars, registry
<1>5. CASE Q = << >>
  <2>1. server' = Resting /\ UNCHANGED memory BY <1>2, <1>5 DEF try_get_command
  <2> QED BY <1>1, <1>4, <2>1
<1>6. CASE Q # << >>
  <2>1. /\ SetQueue(Tail(Q), server.ref)
        /\ server' = IF Head(Q)[1] # "command" THEN Resting
                     ELSE [server EXCEPT !.pc = "process", !.item = Head(Q)]
    BY <1>2, <1>6 DEF try_get_command, popped
  <2>2. Tail(Q) \in Seq(Items) /\ Head(Q) \in Items BY <1>3, <1>6
  <2>3. PICK x : x = Head(Q) OBVIOUS
  <2>4. CASE x[1] # "command"
    <3>1. server' = Resting BY <2>1, <2>3, <2>4
    <3> QED BY <1>1, <1>2, <1>4, <1>6, <2>1, <2>2, <2>3, <2>4, <3>1
  <2>5. CASE x[1] = "command"
    <3>1. server' = [server EXCEPT !.pc = "process", !.item = x] BY <2>1, <2>3, <2>5
    <3>2. Moved(server, "process") /\ server'.item = x
      BY <3>1 DEF Serving, ServerFields, Moved
    <3>3. x \in Commands BY <2>2, <2>3, <2>5 DEF Items, Commands
    <3> QED BY <1>1, <1>2, <1>4, <1>6, <2>1, <2>2, <2>3, <3>2, <3>3
  <2> QED BY <2>4, <2>5
<1> QED BY <1>5, <1>6

LEMMA ProperFetch ==
  ASSUME Base, NEW who, NEW at, Mem(who, at), Proper, try_get_command
  PROVE  MemStep(who, {server.ref}) /\ Proper'
<1>1. /\ server.pc = "pop" /\ server.ref \in Offsets /\ IsRing(server.ref)
      /\ UNCHANGED <<entries, stored, current, free_lists, width, smashed, slots, client>>
      /\ \/ server' = Resting /\ UNCHANGED memory
         \/ \E q \in Seq(Items), x \in Items :
              /\ Queue(server.ref) # << >> /\ q = Tail(Queue(server.ref))
              /\ x = Head(Queue(server.ref)) /\ SetQueue(q, server.ref)
              /\ \/ x[1] # "command" /\ server' = Resting
                 \/ /\ x \in Commands /\ Moved(server, "process") /\ server'.item = x
  BY FetchShape DEF Proper
<1>2. Named' /\ Sent' BY <1>1 DEF Proper, Named, Sent
<1>3. CASE server' = Resting /\ UNCHANGED memory
  <2>1. MemStep(who, {}) BY <1>1, <1>3, MemStill DEF arenaVars
  <2>2. MemStep(who, {server.ref}) BY <2>1 DEF MemStep, Frame
  <2>3. Rings' /\ Serving' BY <1>3, RingsSame, RestServing DEF Proper
  <2> QED BY <1>2, <2>2, <2>3 DEF Proper
<1>4. ASSUME NEW q \in Seq(Items), NEW x \in Items, SetQueue(q, server.ref),
             \/ server' = Resting
             \/ x \in Commands /\ Moved(server, "process") /\ server'.item = x
      PROVE  MemStep(who, {server.ref}) /\ Proper'
  <2>1. MemStep(who, {server.ref}) BY <1>1, <1>4, OwnsStay, MemQueue
  <2>2. Rings' BY <1>4, RingsSet DEF Proper
  <2>3. Serving'
    <3>1. CASE server' = Resting BY <3>1, RestServing
    <3>2. CASE x \in Commands /\ Moved(server, "process") /\ server'.item = x
      BY <3>2 DEF Moved, Serving, Serves, Proper
    <3> QED BY <1>4, <3>1, <3>2
  <2> QED BY <1>2, <2>1, <2>2, <2>3 DEF Proper
<1> QED BY <1>1, <1>3, <1>4

LEMMA CommandParts ==
  ASSUME NEW x \in Commands PROVE x[3][2] \in Keys /\ x[3][3] \in Values /\ x[2] \in Nat
<1>1. x[3] \in Requests /\ x[2] \in Nat BY DEF Commands
<1>2. x[3] \in {"ping", "get", "set", "del", "cas"} \X Keys \X Values BY <1>1, EngineAssumption
<1> QED BY <1>1, <1>2

LEMMA ProcessShape ==
  ASSUME Serving, process_command
  PROVE  /\ server.pc = "process" /\ Moved(server, "reply") /\ server'.item = server.item
         /\ UNCHANGED <<slots, client>>
<1>1. server.pc = "process" /\ server' = [server EXCEPT !.pc = "reply"]
  BY DEF process_command, ServerAt
<1>2. Moved(server, "reply") /\ server'.item = server.item
  BY <1>1 DEF Serving, ServerFields, Moved
<1> QED BY <1>1, <1>2 DEF process_command, registry

LEMMA ProperProcess ==
  ASSUME Base, NEW who, NEW at, Mem(who, at), Proper, process_command, ~smashed', ~dangling'
  PROVE  MemStep(who, {}) /\ Proper'
<1> DEFINE k == server.item[3][2]
           v == server.item[3][3]
<1>1. /\ server.pc = "process" /\ Moved(server, "reply") /\ server'.item = server.item
      /\ UNCHANGED <<slots, client>>
  BY ProcessShape DEF Proper
<1>2. server.item \in Commands BY <1>1 DEF Proper, Serving, Serves
<1>3. k \in Keys /\ v \in Values BY <1>2, CommandParts
<1>4. \/ Hangs(k) \/ UNCHANGED kvVars \/ InsertNew(k, v) \/ InsertOver(k, v) \/ cas(k, v)
      \/ GrowFails(k, v) \/ remove(k)
  BY DEF process_command, Unchanged
<1> HIDE DEF k, v
<1>5. KvMem(who, at) BY DEF Mem
<1>6. KvKept(who)
  <2>1. CASE UNCHANGED kvVars BY <1>5, <2>1, SameKept DEF kvVars, tableVars
  <2>2. CASE Hangs(k) BY <1>5, <2>2, SameKept DEF Hangs, tableVars
  <2>3. CASE ~UNCHANGED kvVars /\ ~Hangs(k)
    <3>1. Next BY <1>3, <1>4, <2>3 DEF Next
    <3> QED BY <1>5, <3>1, NextKept
  <2> QED BY <2>1, <2>2, <2>3
<1>7. MemStep(who, {}) BY <1>1, <1>6, MemKv
<1>8. Rings' BY <1>6, RingsNotNew DEF KvKept, Proper
<1>9. Serving' BY <1>1, <1>2 DEF Moved, Serving, Serves, Proper
<1> QED BY <1>1, <1>7, <1>8, <1>9 DEF Proper, Named, Sent

(* AllocateReply loses the response or has a block for it. *)
LEMMA AnswerShape ==
  ASSUME Serving, NEW who, NEW at, Mem(who, at), AllocateReply
  PROVE  /\ server.pc = "reply" /\ UNCHANGED <<slots, client>>
         /\ \/ server' = Resting /\ UNCHANGED <<entries, stored, arenaVars>>
            \/ \E who1, at1, o : /\ Mem(who1, at1)' /\ Frame(who, who1, {})
                                 /\ Answered(who1, o, <<"reply", server.id, server.item[2]>>)
                                 /\ Moved(server, "find") /\ server'.item = server.item
                                 /\ server'.reply = o
<1>1. PICK a : a = allocate(Arena, ReplyWords, 1) OBVIOUS
<1>2. PICK x : x = <<"reply", server.id, server.item[2]>> OBVIOUS
<1>3. /\ server.pc = "reply" /\ UNCHANGED <<entries, stored, slots, client>>
      /\ a.offset = 0 => Becomes(a.arena) /\ server' = Resting
      /\ a.offset # 0 => /\ Becomes(replied(a.arena, a.offset, x))
                         /\ server' = [server EXCEPT !.pc = "find", !.reply = a.offset]
  BY <1>1, <1>2 DEF AllocateReply, ServerAt, tableVars, registry, replied
<1>4. Heap(Arena, who) /\ ReplyWords \in Nat \ {0} /\ 1 \in Nat \ {0} /\ IsOwner(ReplyBlock)
  BY EngineAssumption, Owners DEF Mem, KvMem
<1>5. CASE a.offset = 0
  <2>1. a.arena = Arena BY <1>1, <1>4, <1>5, AllocateHeap
  <2>2. UNCHANGED arenaVars BY <1>3, <1>5, <2>1 DEF Becomes, Arena, arenaVars
  <2> QED BY <1>3, <1>5, <2>2
<1>6. CASE a.offset # 0
  <2>1. x[1] # "ring" BY <1>2
  <2>2. PICK who1, at1 : /\ Mem(who1, at1)' /\ Frame(who, who1, {})
                         /\ Answered(who1, a.offset, x)
    BY <1>1, <1>3, <1>6, <2>1, MemReply
  <2>3. PICK o : o = a.offset OBVIOUS
  <2>4. server' = [server EXCEPT !.pc = "find", !.reply = o] BY <1>3, <1>6, <2>3
  <2>5. Moved(server, "find") /\ server'.item = server.item /\ server'.reply = o
    BY <2>4 DEF Serving, ServerFields, Moved
  <2> QED BY <1>2, <1>3, <2>2, <2>3, <2>5
<1> QED BY <1>5, <1>6

LEMMA ProperAnswer ==
  ASSUME Base, NEW who, NEW at, Mem(who, at), Proper, AllocateReply PROVE MemStep(who, {}) /\ Proper'
<1>1. /\ server.pc = "reply" /\ UNCHANGED <<slots, client>>
      /\ \/ server' = Resting /\ UNCHANGED <<entries, stored, arenaVars>>
         \/ \E who1, at1, o : /\ Mem(who1, at1)' /\ Frame(who, who1, {})
                              /\ Answered(who1, o, <<"reply", server.id, server.item[2]>>)
                              /\ Moved(server, "find") /\ server'.item = server.item
                              /\ server'.reply = o
  BY AnswerShape DEF Proper
<1>2. Named' /\ Sent' BY <1>1 DEF Proper, Named, Sent
<1>3. CASE server' = Resting /\ UNCHANGED <<entries, stored, arenaVars>>
  <2>1. MemStep(who, {}) BY <1>1, <1>3, MemStill
  <2>2. Rings' /\ Serving' BY <1>3, RingsSame, RestServing DEF Proper, arenaVars
  <2> QED BY <1>2, <2>1, <2>2 DEF Proper
<1>4. ASSUME NEW who1, NEW at1, NEW o, NEW x, Mem(who1, at1)', Frame(who, who1, {}),
             Answered(who1, o, x), Moved(server, "find"), server'.item = server.item,
             server'.reply = o
      PROVE  MemStep(who, {}) /\ Proper'
  <2>1. MemStep(who, {}) BY <1>4 DEF MemStep
  <2>2. Rings' BY <1>4, RingsNotNew DEF Answered, Proper
  <2>3. server.item \in Commands BY <1>1 DEF Proper, Serving, Serves
  <2>4. Serving' BY <1>4, <2>3 DEF Answered, Moved, Serving, Serves, Proper
  <2> QED BY <1>2, <2>1, <2>2, <2>4 DEF Proper
<1> QED BY <1>1, <1>3, <1>4

LEMMA FindRingShape ==
  ASSUME Base, Serving, get_resp_ring
  PROVE  /\ server.pc = "find" /\ UNCHANGED <<kvVars, slots, client>>
         /\ \/ server' = Resting
            \/ \E i \in 1..MaxSessions :
                 /\ slots[i].id = server.id /\ Moved(server, "push") /\ server'.item = server.item
                 /\ server'.reply = server.reply /\ server'.ref = slots[i].resp
<1> DEFINE found == get_session(server.id)
<1>1. PICK i : i = Min(found) OBVIOUS
<1>2. /\ server.pc = "find" /\ UNCHANGED <<kvVars, slots, client>>
      /\ server' = IF found = {} THEN Resting
                   ELSE [server EXCEPT !.pc = "push", !.ref = slots[i].resp]
  BY <1>1 DEF get_resp_ring, ServerAt, registry
<1>3. found = {j \in 1..MaxSessions : slots[j].id = server.id} BY DEF get_session, Base, Registry
<1>4. found \subseteq Nat BY <1>3
<1> HIDE DEF found
<1>5. CASE found = {} BY <1>2, <1>5
<1>6. CASE found # {}
  <2>1. i \in found BY <1>1, <1>4, <1>6, MinElement
  <2>2. i \in 1..MaxSessions /\ slots[i].id = server.id BY <1>3, <2>1
  <2>3. server' = [server EXCEPT !.pc = "push", !.ref = slots[i].resp] BY <1>2, <1>6
  <2>4. /\ Moved(server, "push") /\ server'.item = server.item
        /\ server'.reply = server.reply /\ server'.ref = slots[i].resp
    BY <2>3 DEF Serving, ServerFields, Moved
  <2> QED BY <1>2, <2>2, <2>4
<1> QED BY <1>5, <1>6

LEMMA ProperFind ==
  ASSUME Base, NEW who, NEW at, Mem(who, at), Proper, get_resp_ring PROVE MemStep(who, {}) /\ Proper'
<1>1. /\ server.pc = "find" /\ UNCHANGED <<kvVars, slots, client>>
      /\ \/ server' = Resting
         \/ \E i \in 1..MaxSessions :
              /\ slots[i].id = server.id /\ Moved(server, "push") /\ server'.item = server.item
              /\ server'.reply = server.reply /\ server'.ref = slots[i].resp
  BY FindRingShape DEF Proper
<1>2. Named' BY <1>1 DEF Proper, Named
<1>3. Serving'
  <2>1. CASE server' = Resting BY <2>1, RestServing
  <2>2. ASSUME NEW i \in 1..MaxSessions, Moved(server, "push"), server'.item = server.item,
               server'.reply = server.reply, server'.ref = slots[i].resp
        PROVE  Serving'
    <3>1. server.item \in Commands /\ server.reply \in Offsets /\ slots[i].resp \in Offsets
      BY <1>1 DEF Proper, Serving, Serves, Named
    <3> QED BY <2>2, <3>1 DEF Moved, Serving, Serves, Proper
  <2> QED BY <1>1, <2>1, <2>2
<1> QED BY <1>1, <1>2, <1>3, ProperStill

LEMMA ReplyShape ==
  ASSUME Serving, Rings, PushReply
  PROVE  /\ server.pc = "push" /\ server.ref \in Offsets /\ IsRing(server.ref)
         /\ UNCHANGED <<entries, stored, current, free_lists, width, smashed, slots, client>>
         /\ \/ server' = Resting /\ UNCHANGED memory
            \/ \E q \in Seq(Items) :
                 /\ q = Append(Queue(server.ref), <<"offset", server.reply>>)
                 /\ SetQueue(q, server.ref) /\ Moved(server, "notify")
<1>1. /\ server.pc = "push" /\ server.ref \in Offsets /\ server.reply \in Offsets
      /\ IsRing(server.ref)
  BY DEF PushReply, ServerAt, Serving
<1>2. PICK Q : Q = Queue(server.ref) OBVIOUS
<1>3. PICK x : x = <<"offset", server.reply>> OBVIOUS
<1>4. Q \in Seq(Items) /\ x \in Items BY <1>1, <1>2, <1>3 DEF Rings, Items
<1>5. UNCHANGED <<entries, stored, current, free_lists, width, smashed, slots, client>>
  BY DEF PushReply, tableVars, registry
<1>6. \/ server' = Resting /\ UNCHANGED memory
      \/ SetQueue(Append(Q, x), server.ref) /\ server' = [server EXCEPT !.pc = "notify"]
  BY <1>2, <1>3 DEF PushReply
<1>7. CASE server' = Resting /\ UNCHANGED memory BY <1>1, <1>5, <1>7
<1>8. CASE SetQueue(Append(Q, x), server.ref) /\ server' = [server EXCEPT !.pc = "notify"]
  <2>1. Append(Q, x) \in Seq(Items) BY <1>4
  <2>2. Moved(server, "notify") BY <1>8 DEF Serving, ServerFields, Moved
  <2> QED BY <1>1, <1>2, <1>3, <1>5, <1>8, <2>1, <2>2
<1> QED BY <1>6, <1>7, <1>8

LEMMA ProperReply ==
  ASSUME Base, NEW who, NEW at, Mem(who, at), Proper, PushReply
  PROVE  MemStep(who, {server.ref}) /\ Proper'
<1>1. /\ server.pc = "push" /\ server.ref \in Offsets /\ IsRing(server.ref)
      /\ UNCHANGED <<entries, stored, current, free_lists, width, smashed, slots, client>>
      /\ \/ server' = Resting /\ UNCHANGED memory
         \/ \E q \in Seq(Items) :
              /\ q = Append(Queue(server.ref), <<"offset", server.reply>>)
              /\ SetQueue(q, server.ref) /\ Moved(server, "notify")
  BY ReplyShape DEF Proper
<1>2. Named' /\ Sent' BY <1>1 DEF Proper, Named, Sent
<1>3. CASE server' = Resting /\ UNCHANGED memory
  <2>1. MemStep(who, {}) BY <1>1, <1>3, MemStill DEF arenaVars
  <2>2. MemStep(who, {server.ref}) BY <2>1 DEF MemStep, Frame
  <2>3. Rings' /\ Serving' BY <1>3, RingsSame, RestServing DEF Proper
  <2> QED BY <1>2, <2>2, <2>3 DEF Proper
<1>4. ASSUME NEW q \in Seq(Items), SetQueue(q, server.ref), Moved(server, "notify")
      PROVE  MemStep(who, {server.ref}) /\ Proper'
  <2>1. MemStep(who, {server.ref}) BY <1>1, <1>4, OwnsStay, MemQueue
  <2>2. Rings' BY <1>4, RingsSet DEF Proper
  <2>3. Serving' BY <1>4 DEF Moved, Serving, Serves, Proper
  <2> QED BY <1>2, <2>1, <2>2, <2>3 DEF Proper
<1> QED BY <1>1, <1>3, <1>4

LEMMA ProperNotify ==
  ASSUME Base, NEW who, NEW at, Mem(who, at), Proper, Notify
  PROVE  /\ MemStep(who, {}) /\ Proper' /\ server.pc = "notify" /\ UNCHANGED <<kvVars, client>>
         /\ server' = Resting \/ Moved(server, "signal")
<1>1. server.pc = "notify" /\ UNCHANGED <<kvVars, client>> BY DEF Notify, ServerAt
<1>2. Named' BY NotifyShape, FixedFewer, NamedFewer DEF Proper
<1>3. server' = Resting \/ \E i : server' = [server EXCEPT !.pc = "signal", !.ref = i]
  BY NotifyShape
<1>4. server' = Resting \/ Moved(server, "signal") BY <1>3 DEF Serving, ServerFields, Moved, Proper
<1>5. Serving' BY <1>4, RestServing DEF Moved, Serving, Serves, Proper
<1> QED BY <1>1, <1>2, <1>4, <1>5, ProperStill

LEMMA ProperSignal ==
  ASSUME Base, NEW who, NEW at, Mem(who, at), Proper, Signal
  PROVE  MemStep(who, {}) /\ Proper' /\ server' = Resting /\ UNCHANGED <<kvVars, client>>
<1>1. server' = Resting /\ UNCHANGED <<kvVars, client>> BY DEF Signal
<1>2. Named' BY SignalShape, FixedFewer, NamedFewer DEF Proper
<1>3. Serving' BY <1>1, RestServing
<1> QED BY <1>1, <1>2, <1>3, ProperStill

(* The other steps: direct calls, stray accesses, the clock and the sweep. *)
Others ==
  Direct \/ Stray \/ TimePasses \/ cleanup_stale_sessions \/ SweepLook \/ SweepDrop \/ SweepEnds

LEMMA ProperOthers ==
  ASSUME Base, NEW who, NEW at, Mem(who, at), Proper, Others, ~smashed', ~dangling'
  PROVE  MemStep(who, {}) /\ Proper' /\ UNCHANGED <<server, client>>
<1>1. UNCHANGED <<server, client>>
  BY DEF Others, Direct, Stray, TimePasses, cleanup_stale_sessions, SweepLook, SweepDrop, SweepEnds
<1>2. Serving' BY <1>1, ServingSame DEF Proper
<1>3. Named'
  <2>1. CASE TimePasses BY <2>1, ClockShape, FixedFewer, NamedFewer DEF Proper
  <2>2. CASE SweepDrop BY <2>2, SweepShape, NamedFewer DEF Proper
  <2>3. CASE Direct \/ Stray \/ cleanup_stale_sessions \/ SweepLook \/ SweepEnds
    <3>1. UNCHANGED slots
      BY <2>3 DEF Direct, Stray, cleanup_stale_sessions, SweepLook, SweepEnds, registry
    <3> QED BY <3>1 DEF Proper, Named
  <2> QED BY <2>1, <2>2, <2>3 DEF Others
<1>4. CASE Direct
  <2>1. Next BY <1>4 DEF Direct
  <2>2. KvKept(who) BY <2>1, NextKept DEF Mem
  <2>3. MemStep(who, {}) BY <1>1, <2>2, MemKv
  <2>4. Rings' BY <2>2, RingsNotNew DEF KvKept, Proper
  <2> QED BY <1>1, <1>2, <1>3, <2>3, <2>4 DEF Proper, Sent
<1>5. CASE ~Direct
  <2>1. UNCHANGED kvVars
    BY <1>5 DEF Others, Stray, TimePasses, cleanup_stale_sessions, SweepLook, SweepDrop, SweepEnds
  <2> QED BY <1>1, <1>2, <1>3, <2>1, ProperStill
<1> QED BY <1>4, <1>5

(* As long as no growth has failed and no small block was freed, the arena is in order. *)
InOrder == smashed \/ dangling \/ \E who, at : Mem(who, at) /\ Proper

(* Nothing happens behind undefined behaviour. *)
LEMMA AllDefined == EngineNext => Defined
<1>1. ASSUME NEW c \in Clients, ClientStep(c) PROVE Defined
  BY <1>1 DEF ClientStep, create_session, find_free_slot, WriteId, CountUp, OpenEventfd, AllocateRings,
     PublishRings, detach_session, remove_session, CountDown, FreeRings, PushCommand, PopResponse,
     Sleep, Wake, ack_notifications, At
<1>2. ServerStep => Defined
  BY DEF ServerStep, get_cmd_ring, try_get_command, process_command, AllocateReply, get_resp_ring,
     PushReply, Notify, Signal, ServerAt
<1>3. Others => Defined
  BY DEF Others, Direct, Stray, TimePasses, cleanup_stale_sessions, SweepLook, SweepDrop, SweepEnds
<1> QED BY <1>1, <1>2, <1>3 DEF EngineNext, Others

(* A failed growth stays on record. *)
LEMMA KvDangling ==
  ASSUME NEW k, NEW v, \/ Hangs(k) \/ remove(k) \/ InsertNew(k, v) \/ InsertOver(k, v)
                      \/ GrowFails(k, v) \/ cas(k, v)
  PROVE  dangling => dangling'
BY DEF Hangs, remove, InsertNew, InsertOver, GrowFails, cas

LEMMA DanglingStays == EngineNext /\ dangling => dangling'
<1> SUFFICES ASSUME EngineNext, dangling PROVE dangling' OBVIOUS
<1>1. ASSUME NEW c \in Clients, ClientStep(c) PROVE dangling'
  BY <1>1 DEF ClientStep, create_session, find_free_slot, WriteId, CountUp, OpenEventfd, AllocateRings,
     PublishRings, detach_session, remove_session, CountDown, FreeRings, PushCommand, PopResponse,
     Sleep, Wake, ack_notifications, kvVars
<1>2. CASE process_command
  <2>1. CASE UNCHANGED kvVars BY <2>1 DEF kvVars
  <2>2. CASE ~UNCHANGED kvVars BY <1>2, <2>2, KvDangling DEF process_command, Unchanged
  <2> QED BY <2>1, <2>2
<1>3. CASE ServerStep /\ ~process_command
  BY <1>3 DEF ServerStep, get_cmd_ring, try_get_command, AllocateReply, get_resp_ring,
     PushReply, Notify, Signal, kvVars
<1>4. CASE Direct BY <1>4, KvDangling DEF Direct, Next
<1>5. CASE Others /\ ~Direct
  BY <1>5 DEF Others, Stray, TimePasses, cleanup_stale_sessions, SweepLook, SweepDrop, SweepEnds, kvVars
<1> QED BY <1>1, <1>2, <1>3, <1>4, <1>5 DEF EngineNext, Others

(* Every step of every party keeps the arena in order. *)
LEMMA OrderNext == Base /\ Sess /\ InOrder /\ [EngineNext]_<<kvVars, engineVars>> => InOrder'
<1> SUFFICES ASSUME Base, Sess, InOrder, [EngineNext]_<<kvVars, engineVars>>, ~smashed', ~dangling'
             PROVE  InOrder'
  BY DEF InOrder
<1>1. ~smashed /\ ~dangling
  <2>1. CASE UNCHANGED <<kvVars, engineVars>> BY <2>1 DEF kvVars, arenaVars
  <2>2. CASE EngineNext BY <2>2, AllDefined, DanglingStays DEF Defined, Called
  <2> QED BY <2>1, <2>2
<1>2. PICK who, at : Mem(who, at) /\ Proper BY <1>1 DEF InOrder
<1>3. ASSUME NEW X, MemStep(who, X), Proper' PROVE InOrder' BY <1>3 DEF InOrder, MemStep
<1>4. CASE UNCHANGED <<kvVars, engineVars>>
  <2>1. UNCHANGED <<kvVars, client, server, slots>> BY <1>4 DEF engineVars, registry
  <2>2. Serving' /\ Named' BY <1>2, <2>1, ServingSame DEF Proper, Named
  <2>3. MemStep(who, {}) /\ Proper' BY <1>2, <2>1, <2>2, ProperStill
  <2> QED BY <1>3, <2>3
<1>5. CASE Others BY <1>2, <1>3, <1>5, ProperOthers
<1>6. CASE ServerStep
  <2>1. ASSUME NEW i \in DOMAIN slots, get_cmd_ring(i) PROVE InOrder' BY <1>2, <1>3, <2>1, ProperTake
  <2>2. CASE try_get_command BY <1>2, <1>3, <2>2, ProperFetch
  <2>3. CASE process_command BY <1>2, <1>3, <2>3, ProperProcess
  <2>4. CASE AllocateReply BY <1>2, <1>3, <2>4, ProperAnswer
  <2>5. CASE get_resp_ring BY <1>2, <1>3, <2>5, ProperFind
  <2>6. CASE PushReply BY <1>2, <1>3, <2>6, ProperReply
  <2>7. CASE Notify BY <1>2, <1>3, <2>7, ProperNotify
  <2>8. CASE Signal BY <1>2, <1>3, <2>8, ProperSignal
  <2> QED BY <1>6, <2>1, <2>2, <2>3, <2>4, <2>5, <2>6, <2>7, <2>8 DEF ServerStep
<1>7. ASSUME NEW c \in Clients, ClientStep(c) PROVE InOrder'
  <2>1. CASE NotIn(c) BY <1>2, <1>3, <2>1, ProperNotIn
  <2>2. ASSUME NEW command \in Requests, PushCommand(c, command) PROVE InOrder'
    BY <1>2, <1>3, <2>2, ProperPush
  <2>3. CASE PopResponse(c) BY <1>2, <1>3, <2>3, ProperPop
  <2>4. CASE AllocateRings(c) BY <1>2, <1>3, <2>4, ProperAllocate
  <2>5. CASE FreeRings(c) BY <1>2, <1>3, <2>5, ProperFree
  <2> QED BY <1>7, <2>1, <2>2, <2>3, <2>4, <2>5 DEF ClientStep, NotIn
<1> QED BY <1>4, <1>5, <1>6, <1>7 DEF EngineNext, Others

LEMMA OrderInit == EngineInit => \E who, at : /\ Mem(who, at) /\ Proper
                                             /\ \A o \in Offsets : who[o] = Nobody
<1> SUFFICES ASSUME EngineInit
             PROVE  \E who, at : Mem(who, at) /\ Proper /\ \A o \in Offsets : who[o] = Nobody
  OBVIOUS
<1> DEFINE who == [o \in Offsets |-> Nobody]
           at == [k \in Keys |-> 0]
<1>1. Init BY DEF EngineInit
<1>2. /\ memory = [o \in Offsets |-> <<"blank">>] /\ current = 1
      /\ free_lists = [c \in 1..Classes |-> 0] /\ width = [o \in Offsets |-> 0]
      /\ entries = [i \in Slot |-> NewEntry] /\ stored = [k \in Keys |-> Nothing]
  BY <1>1 DEF Init, Offsets, Slot
<1>3. /\ DOMAIN Arena = ArenaFields /\ Arena.memory = memory /\ Arena.current = current
      /\ Arena.free_lists = free_lists /\ Arena.width = width
  BY DEF Arena, ArenaFields
<1>4. /\ DOMAIN memory = Offsets /\ DOMAIN who = Offsets
      /\ \A o \in Offsets : who[o] = Nobody /\ width[o] = 0 /\ memory[o] = <<"blank">>
  BY <1>2
<1> HIDE DEF who, at
<1>5. Blocks(Arena)
  <2>1. ArenaSize \in Nat \ {0} /\ 0 \in Offsets /\ 1 \in 1..ArenaSize BY OffsetNat
  <2>2. free_lists \in [1..Classes -> Offsets] /\ width \in [Offsets -> Nat] BY <1>2, <2>1
  <2> QED BY <1>2, <1>3, <1>4, <2>1, <2>2 DEF Blocks
<1>6. \A c \in 1..Classes : Chain(Arena, who, c)
  <2>1. \A c : Free(c) # Nobody BY DEF Free, Nobody
  <2>2. \A c \in 1..Classes : free_lists[c] = 0 BY <1>2
  <2> QED BY <1>3, <1>4, <2>1, <2>2 DEF Chain
<1>7. Heap(Arena, who) BY <1>4, <1>5, <1>6 DEF Heap
<1>8. Table(entries, Arena, stored, who, at)
  <2>1. NewEntry \in Entry /\ NewEntry.hash = EMPTY_HASH BY OffsetNat DEF NewEntry, Entry, EMPTY_HASH
  <2>2. \A k \in Keys : stored[k] = Nothing BY <1>2
  <2>3. \A i \in Slot : entries[i].hash = EMPTY_HASH BY <1>2, <2>1
  <2>4. entries \in [Slot -> Entry] /\ stored \in [Keys -> Values \cup {Nothing}] BY <1>2, <2>1
  <2> QED BY <2>2, <2>3, <2>4 DEF Table
<1>9. \A c \in Clients : client[c] = Outside BY DEF EngineInit
<1>10. Owned(who)
  <2>1. \A c \in Clients : client[c].pc = "out" BY <1>9, OutsideCaller
  <2> QED BY <2>1 DEF Owned, Holds, Attends, Leaves
<1>11. Rings
  <2>1. <<"blank">>[1] # "ring" OBVIOUS
  <2> QED BY <1>4, <2>1 DEF Rings, IsRing
<1>12. Serving
  <2>1. server = Resting BY DEF EngineInit
  <2>2. DOMAIN Resting = ServerFields /\ Resting.id = 0 /\ Resting.pc = "idle"
    BY DEF Resting, ServerFields
  <2> QED BY <2>1, <2>2 DEF Serving, Serves
<1>13. Named
  <2>1. SessionDesc.cmd = 0 /\ SessionDesc.resp = 0 BY DEF SessionDesc
  <2>2. \A i \in 1..MaxSessions : slots[i] = SessionDesc BY DEF EngineInit
  <2> QED BY <2>1, <2>2, OffsetNat DEF Named
<1>14. Sent
  <2>1. Outside.sent = 0 BY DEF Outside
  <2> QED BY <1>9, <2>1 DEF Sent
<1>15. Mem(who, at) /\ Proper BY <1>7, <1>8, <1>10, <1>11, <1>12, <1>13, <1>14 DEF Mem, KvMem, Proper
<1> QED BY <1>4, <1>15

(* For any keys, hashes, table, arena, values, clients and rings: as long as no growth has   *)
(* failed and no small block was freed, get finds for every key what the last call that      *)
(* succeeded left there, although entries are deleted on its probe path, blocks move, and    *)
(* rings and responses of sessions take and free blocks of the same arena; and it returns,   *)
(* for a key that is not there as long as the table has an empty slot                        *)
(* (hash_table.rs:144-301, arena.rs:79-216).                                                 *)
THEOREM StoreFindsWhatItHolds == EngineSpec => []LookupAgrees
<1>1. InOrder => LookupAgrees
  <2> SUFFICES ASSUME InOrder, ~dangling, ~smashed, NEW k \in Keys
               PROVE  IF stored[k] = Nothing THEN ~Found(k) /\ (SlotLeft => Steps(k) # {})
                      ELSE /\ Found(k)
                           /\ get_key_value(entries[find_entry(k)]) =
                                [i \in 1..Length(stored[k]) |-> <<"value", stored[k], i>>]
    BY DEF LookupAgrees
  <2>1. PICK who, at : Heap(Arena, who) /\ Table(entries, Arena, stored, who, at)
    BY DEF InOrder, Mem, KvMem
  <2>2. Found(k) <=> stored[k] # Nothing BY <2>1, Lookup
  <2>3. CASE stored[k] = Nothing BY <2>1, <2>2, <2>3, ProbeEnds DEF Table
  <2>4. CASE stored[k] # Nothing
    <3>1. find_entry(k) = at[k] BY <2>1, <2>2, <2>4, Lookup
    <3>2. PICK e : e = entries[at[k]] OBVIOUS
    <3>3. PICK v : v = stored[k] OBVIOUS
    <3>4. e.val_len = Length(v) /\ Holding(Arena, e.data_offset, k, v)
      BY <2>1, <2>4, <3>2, <3>3 DEF Table, Stored
    <3>5. \A j \in 1..Length(v) : memory[e.data_offset + j] = <<"value", v, j>>
      BY <3>4 DEF Holding, Arena
    <3>6. get_key_value(e) = [i \in 1..Length(v) |-> <<"value", v, i>>]
      BY <3>4, <3>5 DEF get_key_value
    <3> QED BY <2>2, <2>4, <3>1, <3>2, <3>3, <3>6
  <2> QED BY <2>3, <2>4
<1>2. EngineInit => InOrder BY OrderInit DEF InOrder
<1> QED BY <1>1, <1>2, BalanceInit, BalanceNext, SessInit, SessNext, OrderNext, PTL DEF EngineSpec

-----------------------------------------------------------------------------
(* Commands and responses.  The commands of a session are numbered as they are sent; what    *)
(* the client got, what is in its ring of responses, what the server works on and what is in *)
(* its ring of commands have rising numbers, in this order.                                  *)
Replies == {"reply"} \X Nat \X Nat

Got(r, a) ==
  /\ r.got \in Seq(Replies)
  /\ \A n \in 1..Len(r.got) : r.got[n][2] = r.id /\ r.got[n][3] <= a
  /\ \A n \in 1..Len(r.got) : \A m \in 1..n - 1 : r.got[m][3] < r.got[n][3]

IsReply(who, o, id) == o \in Offsets /\ who[o] = ReplyBlock /\ memory[o] \in Replies /\ memory[o][2] = id

Coming(who, q, id, a, b) ==
  /\ q \in Seq(Items)
  /\ \A n \in 1..Len(q) : /\ q[n][1] = "offset" /\ IsReply(who, q[n][2], id)
                          /\ a < memory[q[n][2]][3] /\ memory[q[n][2]][3] <= b
  /\ \A n \in 1..Len(q) : \A m \in 1..n - 1 : memory[q[m][2]][3] < memory[q[n][2]][3]

Asked(q, d, s) ==
  /\ q \in Seq(Commands)
  /\ \A n \in 1..Len(q) : d < q[n][2] /\ q[n][2] <= s
  /\ \A n \in 1..Len(q) : \A m \in 1..n - 1 : q[m][2] < q[n][2]

LEMMA AskedAppend ==
  ASSUME NEW q, NEW d \in Nat, NEW s \in Nat, d <= s, Asked(q, d, s), NEW command \in Requests,
         NEW x, x = <<"command", s + 1, command>>
  PROVE  Asked(Append(q, x), d, s + 1)
<1> DEFINE p == Append(q, x)
<1>1. x \in Commands /\ x[2] = s + 1 BY DEF Commands
<1>2. q \in Seq(Commands) /\ Len(q) \in Nat BY DEF Asked
<1>3. /\ p \in Seq(Commands) /\ Len(p) = Len(q) + 1 /\ p[Len(q) + 1] = x
      /\ \A n \in 1..Len(q) : p[n] = q[n]
  BY <1>1, <1>2
<1>4. \A n \in 1..Len(q) : q[n][2] \in Nat BY <1>2 DEF Commands
<1> HIDE DEF p
<1>5. ASSUME NEW n \in 1..Len(p) PROVE d < p[n][2] /\ p[n][2] <= s + 1
  <2>1. CASE n = Len(q) + 1 BY <1>1, <1>3, <2>1
  <2>2. CASE n # Len(q) + 1
    <3>1. n \in 1..Len(q) BY <1>2, <1>3, <2>2
    <3>2. q[n][2] \in Nat /\ d < q[n][2] /\ q[n][2] <= s BY <1>4, <3>1 DEF Asked
    <3> QED BY <1>3, <3>1, <3>2
  <2> QED BY <2>1, <2>2
<1>6. ASSUME NEW n \in 1..Len(p), NEW m \in 1..n - 1 PROVE p[m][2] < p[n][2]
  <2>1. m \in 1..Len(q) BY <1>2, <1>3
  <2>2. q[m][2] \in Nat /\ q[m][2] <= s /\ p[m] = q[m] BY <1>3, <1>4, <2>1 DEF Asked
  <2>3. CASE n = Len(q) + 1 BY <1>1, <1>3, <2>2, <2>3
  <2>4. CASE n # Len(q) + 1
    <3>1. n \in 1..Len(q) BY <1>2, <1>3, <2>4
    <3>2. q[m][2] < q[n][2] /\ p[n] = q[n] BY <1>3, <3>1 DEF Asked
    <3> QED BY <2>2, <3>2
  <2> QED BY <2>3, <2>4
<1>7. Asked(p, d, s + 1) BY <1>3, <1>5, <1>6 DEF Asked
<1> QED BY <1>7 DEF p

LEMMA AskedTail ==
  ASSUME NEW q, NEW d \in Nat, NEW s \in Nat, Asked(q, d, s), q # << >>, NEW x, x = Head(q)
  PROVE  x \in Commands /\ d < x[2] /\ x[2] <= s /\ x[2] \in Nat /\ Asked(Tail(q), x[2], s)
<1> DEFINE p == Tail(q)
<1>1. q \in Seq(Commands) /\ Len(q) \in Nat \ {0} /\ x = q[1] BY DEF Asked
<1>2. /\ p \in Seq(Commands) /\ Len(p) = Len(q) - 1
      /\ \A n \in 1..Len(p) : p[n] = q[n + 1]
  BY <1>1
<1>3. \A n \in 1..Len(q) : q[n] \in Commands BY <1>1
<1>4. \A n \in 1..Len(q) : q[n][2] \in Nat BY <1>3 DEF Commands
<1>5. 1 \in 1..Len(q) BY <1>1
<1> HIDE DEF p
<1>6. ASSUME NEW n \in 1..Len(p) PROVE x[2] < p[n][2] /\ p[n][2] <= s
  <2>1. n + 1 \in 1..Len(q) /\ 1 \in 1..(n + 1) - 1 BY <1>1, <1>2
  <2>2. q[1][2] < q[n + 1][2] /\ q[n + 1][2] <= s BY <2>1 DEF Asked
  <2> QED BY <1>1, <1>2, <2>2
<1>7. ASSUME NEW n \in 1..Len(p), NEW m \in 1..n - 1 PROVE p[m][2] < p[n][2]
  <2>1. n + 1 \in 1..Len(q) /\ m + 1 \in 1..(n + 1) - 1 /\ m \in 1..Len(p) BY <1>1, <1>2
  <2>2. q[m + 1][2] < q[n + 1][2] BY <2>1 DEF Asked
  <2> QED BY <1>2, <2>1, <2>2
<1>8. Asked(p, x[2], s) BY <1>2, <1>6, <1>7 DEF Asked
<1> QED BY <1>1, <1>3, <1>4, <1>5, <1>8 DEF Asked, p

LEMMA ComingAppend ==
  ASSUME NEW who, NEW q, NEW id, NEW a \in Nat, NEW b \in Nat, a <= b, Coming(who, q, id, a, b),
         NEW o, IsReply(who, o, id), b < memory[o][3], NEW x, x = <<"offset", o>>
  PROVE  Coming(who, Append(q, x), id, a, memory[o][3])
<1> DEFINE p == Append(q, x)
<1>1. x \in Items /\ x[1] = "offset" /\ x[2] = o BY DEF Items, IsReply
<1>2. q \in Seq(Items) /\ Len(q) \in Nat BY DEF Coming
<1>3. /\ p \in Seq(Items) /\ Len(p) = Len(q) + 1 /\ p[Len(q) + 1] = x
      /\ \A n \in 1..Len(q) : p[n] = q[n]
  BY <1>1, <1>2
<1>4. memory[o][3] \in Nat BY DEF IsReply, Replies
<1>5. \A n \in 1..Len(q) : memory[q[n][2]][3] \in Nat BY DEF Coming, IsReply, Replies
<1> HIDE DEF p
<1>6. ASSUME NEW n \in 1..Len(p)
      PROVE  /\ p[n][1] = "offset" /\ IsReply(who, p[n][2], id)
             /\ a < memory[p[n][2]][3] /\ memory[p[n][2]][3] <= memory[o][3]
  <2>1. CASE n = Len(q) + 1 BY <1>1, <1>3, <1>4, <2>1
  <2>2. CASE n # Len(q) + 1
    <3>1. n \in 1..Len(q) BY <1>2, <1>3, <2>2
    <3>2. /\ q[n][1] = "offset" /\ IsReply(who, q[n][2], id)
          /\ a < memory[q[n][2]][3] /\ memory[q[n][2]][3] <= b
      BY <3>1 DEF Coming
    <3>3. p[n] = q[n] BY <1>3, <3>1
    <3> QED BY <1>4, <1>5, <3>1, <3>2, <3>3
  <2> QED BY <2>1, <2>2
<1>7. ASSUME NEW n \in 1..Len(p), NEW m \in 1..n - 1 PROVE memory[p[m][2]][3] < memory[p[n][2]][3]
  <2>1. m \in 1..Len(q) BY <1>2, <1>3
  <2>2. memory[q[m][2]][3] \in Nat /\ memory[q[m][2]][3] <= b /\ p[m] = q[m]
    BY <1>3, <1>5, <2>1 DEF Coming
  <2>3. CASE n = Len(q) + 1 BY <1>1, <1>3, <1>4, <2>2, <2>3
  <2>4. CASE n # Len(q) + 1
    <3>1. n \in 1..Len(q) BY <1>2, <1>3, <2>4
    <3>2. memory[q[m][2]][3] < memory[q[n][2]][3] /\ p[n] = q[n] BY <1>3, <3>1 DEF Coming
    <3> QED BY <2>2, <3>2
  <2> QED BY <2>3, <2>4
<1>8. Coming(who, p, id, a, memory[o][3]) BY <1>3, <1>6, <1>7 DEF Coming
<1> QED BY <1>8 DEF p

LEMMA ComingTail ==
  ASSUME NEW who, NEW q, NEW id, NEW a \in Nat, NEW b \in Nat, Coming(who, q, id, a, b),
         q # << >>, NEW x, x = Head(q)
  PROVE  /\ x[1] = "offset" /\ IsReply(who, x[2], id) /\ a < memory[x[2]][3]
         /\ memory[x[2]][3] <= b /\ memory[x[2]][3] \in Nat
         /\ Coming(who, Tail(q), id, memory[x[2]][3], b)
<1> DEFINE p == Tail(q)
<1>1. q \in Seq(Items) /\ Len(q) \in Nat \ {0} /\ x = q[1] BY DEF Coming
<1>2. /\ p \in Seq(Items) /\ Len(p) = Len(q) - 1
      /\ \A n \in 1..Len(p) : p[n] = q[n + 1]
  BY <1>1
<1>3. 1 \in 1..Len(q) BY <1>1
<1>4. \A n \in 1..Len(q) : memory[q[n][2]][3] \in Nat BY DEF Coming, IsReply, Replies
<1> HIDE DEF p
<1>5. ASSUME NEW n \in 1..Len(p)
      PROVE  /\ p[n][1] = "offset" /\ IsReply(who, p[n][2], id)
             /\ memory[x[2]][3] < memory[p[n][2]][3] /\ memory[p[n][2]][3] <= b
  <2>1. n + 1 \in 1..Len(q) /\ 1 \in 1..(n + 1) - 1 BY <1>1, <1>2
  <2>2. /\ q[n + 1][1] = "offset" /\ IsReply(who, q[n + 1][2], id)
        /\ memory[q[1][2]][3] < memory[q[n + 1][2]][3] /\ memory[q[n + 1][2]][3] <= b
    BY <2>1 DEF Coming
  <2>3. p[n] = q[n + 1] BY <1>2
  <2> QED BY <1>1, <2>2, <2>3
<1>6. ASSUME NEW n \in 1..Len(p), NEW m \in 1..n - 1 PROVE memory[p[m][2]][3] < memory[p[n][2]][3]
  <2>1. n + 1 \in 1..Len(q) /\ m + 1 \in 1..(n + 1) - 1 /\ m \in 1..Len(p) BY <1>1, <1>2
  <2>2. memory[q[m + 1][2]][3] < memory[q[n + 1][2]][3] BY <2>1 DEF Coming
  <2>3. p[n] = q[n + 1] /\ p[m] = q[m + 1] BY <1>2, <2>1
  <2> QED BY <2>2, <2>3
<1>7. Coming(who, p, id, memory[x[2]][3], b) BY <1>2, <1>5, <1>6 DEF Coming
<1>8. /\ q[1][1] = "offset" /\ IsReply(who, q[1][2], id)
      /\ a < memory[q[1][2]][3] /\ memory[q[1][2]][3] <= b
  BY <1>3 DEF Coming
<1> QED BY <1>1, <1>3, <1>4, <1>7, <1>8 DEF p

LEMMA GotAppend ==
  ASSUME NEW r, NEW a \in Nat, Got(r, a), NEW x \in Replies, x[2] = r.id, a < x[3], NEW s,
         s.id = r.id, s.got = Append(r.got, x)
  PROVE  Got(s, x[3])
<1>1. PICK q : q = r.got OBVIOUS
<1>2. PICK p : p = s.got OBVIOUS
<1>3. q \in Seq(Replies) /\ Len(q) \in Nat /\ p = Append(q, x) BY <1>1, <1>2 DEF Got
<1>4. /\ p \in Seq(Replies) /\ Len(p) = Len(q) + 1 /\ p[Len(q) + 1] = x
      /\ \A n \in 1..Len(q) : p[n] = q[n]
  BY <1>3
<1>5. \A n \in 1..Len(q) : q[n] \in Replies BY <1>3
<1>6. x[3] \in Nat /\ \A n \in 1..Len(q) : q[n][3] \in Nat BY <1>5 DEF Replies
<1>7. ASSUME NEW n \in 1..Len(p) PROVE p[n][2] = s.id /\ p[n][3] <= x[3]
  <2>1. CASE n = Len(q) + 1 BY <1>4, <1>6, <2>1
  <2>2. CASE n # Len(q) + 1
    <3>1. n \in 1..Len(q) BY <1>3, <1>4, <2>2
    <3>2. q[n][2] = r.id /\ q[n][3] <= a /\ p[n] = q[n] BY <1>1, <1>4, <3>1 DEF Got
    <3> QED BY <1>6, <3>1, <3>2
  <2> QED BY <2>1, <2>2
<1>8. ASSUME NEW n \in 1..Len(p), NEW m \in 1..n - 1 PROVE p[m][3] < p[n][3]
  <2>1. m \in 1..Len(q) BY <1>3, <1>4
  <2>2. q[m][3] \in Nat /\ q[m][3] <= a /\ p[m] = q[m] BY <1>1, <1>4, <1>6, <2>1 DEF Got
  <2>3. CASE n = Len(q) + 1 BY <1>4, <1>6, <2>2, <2>3
  <2>4. CASE n # Len(q) + 1
    <3>1. n \in 1..Len(q) BY <1>3, <1>4, <2>4
    <3>2. q[m][3] < q[n][3] /\ p[n] = q[n] BY <1>1, <1>4, <3>1 DEF Got
    <3> QED BY <2>2, <3>2
  <2> QED BY <2>3, <2>4
<1> QED BY <1>2, <1>4, <1>7, <1>8 DEF Got

(* The numbers of what a session has got, is getting, waits for and has asked. *)
Early == {"out", "find", "write", "touch", "count", "allocate", "publish"}
Talkers == Attends \cup {"publish"}

Working(id, b, d) ==
  server.id = id /\ server.pc \in Serves => b < server.item[2] /\ server.item[2] <= d

FlowAt(who, r, a, b, d) ==
  /\ a <= b /\ b <= d /\ d <= r.sent
  /\ Got(r, a) /\ Coming(who, Queue(r.rings[2]), r.id, a, b) /\ Working(r.id, b, d)
  /\ Asked(Queue(r.rings[1]), d, r.sent)
Flow(who, r) == \E a, b, d \in Nat : FlowAt(who, r, a, b, d)

Talks(who, r) ==
  /\ r.pc \in Early => r.sent = 0 /\ r.got = << >>
  /\ Got(r, r.sent)
  /\ r.pc \in Talkers => Flow(who, r)

(* The session that the server works for has rings, and the server has their offsets. *)
Busy ==
  server.pc # "idle" => server.id # 0 /\ server.id < next_session_id /\ ~Attaching(server.id)
RingOf(who, o, w) == o \in Offsets /\ who[o] = w /\ IsRing(o)
AtRing(who) ==
  /\ server.pc = "pop" => RingOf(who, server.ref, CmdOf(server.id))
  /\ server.pc = "push" => RingOf(who, server.ref, RespOf(server.id))
Refs ==
  \A c \in Clients : Holds(client[c]) /\ client[c].id = server.id =>
    /\ server.pc = "pop" => server.ref = client[c].rings[1]
    /\ server.pc = "push" => server.ref = client[c].rings[2]
Response(who) ==
  server.pc \in {"find", "push"} =>
    IsReply(who, server.reply, server.id) /\ memory[server.reply][3] = server.item[2]
Attentive(who) == Busy /\ AtRing(who) /\ Refs /\ Response(who)

Talk(who) == (\A c \in Clients : Talks(who, client[c])) /\ Attentive(who)

LEMMA IsReplyKept ==
  ASSUME NEW who, NEW who1, NEW X, Frame(who, who1, X), \A o \in X : who[o] # ReplyBlock,
         NEW o, NEW id, IsReply(who, o, id)
  PROVE  IsReply(who1, o, id)' /\ memory'[o] = memory[o]
<1>1. o \in Offsets /\ who[o] = ReplyBlock /\ o \notin X BY DEF IsReply
<1>2. who1[o] = ReplyBlock /\ memory'[o] = memory[o] BY <1>1, Owners DEF Frame
<1> QED BY <1>1, <1>2 DEF IsReply

LEMMA ComingKept ==
  ASSUME NEW who, NEW who1, NEW X, Frame(who, who1, X), \A o \in X : who[o] # ReplyBlock,
         NEW q, NEW id, NEW a, NEW b, Coming(who, q, id, a, b)
  PROVE  Coming(who1, q, id, a, b)'
<1>1. \A n \in 1..Len(q) : /\ IsReply(who1, q[n][2], id)' /\ memory'[q[n][2]] = memory[q[n][2]]
  BY IsReplyKept DEF Coming
<1>2. \A n \in 1..Len(q) : \A m \in 1..n - 1 : m \in 1..Len(q)
  <2>1. Len(q) \in Nat BY DEF Coming
  <2> QED BY <2>1
<1>3. \A n \in 1..Len(q) : \A m \in 1..n - 1 : memory'[q[m][2]] = memory[q[m][2]] BY <1>1, <1>2
<1> QED BY <1>1, <1>3 DEF Coming

ServesOn(id) ==
  server'.id = id /\ server'.pc \in Serves =>
    server.id = id /\ server.pc \in Serves /\ server'.item[2] = server.item[2]

Alike(r, s) ==
  /\ s.id = r.id /\ s.rings[1] = r.rings[1] /\ s.rings[2] = r.rings[2]
  /\ s.sent = r.sent /\ s.got = r.got

LEMMA WorkingKept ==
  ASSUME NEW id, NEW b, NEW d, Working(id, b, d), ServesOn(id) PROVE Working(id, b, d)'
BY DEF Working, ServesOn

LEMMA FlowKept ==
  ASSUME NEW who, NEW who1, NEW X, Frame(who, who1, X), \A o \in X : who[o] # ReplyBlock,
         NEW r, Owns(who, r), Flow(who, r), r.rings[1] \notin X, r.rings[2] \notin X,
         ServesOn(r.id), NEW s, Alike(r, s)
  PROVE  Flow(who1, s)'
<1>1. PICK a \in Nat, b \in Nat, d \in Nat : FlowAt(who, r, a, b, d) BY DEF Flow
<1>2. memory'[r.rings[1]] = memory[r.rings[1]] /\ memory'[r.rings[2]] = memory[r.rings[2]]
  BY Owners DEF Owns, Frame
<1>3. Queue(s.rings[1])' = Queue(r.rings[1]) /\ Queue(s.rings[2])' = Queue(r.rings[2])
  BY <1>2 DEF Queue, Alike
<1>4. PICK q : q = Queue(r.rings[2]) OBVIOUS
<1>5. Coming(who1, q, r.id, a, b)' BY <1>1, <1>4, ComingKept DEF FlowAt
<1>6. Working(r.id, b, d)' BY <1>1, WorkingKept DEF FlowAt
<1>7. Coming(who1, Queue(s.rings[2]), s.id, a, b)' BY <1>3, <1>4, <1>5 DEF Alike
<1>8. Got(s, a) BY <1>1 DEF FlowAt, Got, Alike
<1>9. a <= b /\ b <= d /\ d <= s.sent BY <1>1 DEF FlowAt, Alike
<1>10. PICK q1 : q1 = Queue(r.rings[1]) OBVIOUS
<1>11. Asked(q1, d, s.sent) BY <1>1, <1>10 DEF FlowAt, Alike
<1>12. Asked(Queue(s.rings[1]), d, s.sent)' BY <1>3, <1>10, <1>11 DEF Asked
<1>13. Working(s.id, b, d)' BY <1>6 DEF Alike
<1>14. FlowAt(who1, s, a, b, d)' BY <1>7, <1>8, <1>9, <1>12, <1>13 DEF FlowAt, Got
<1> QED BY <1>14 DEF Flow

(* A call that does not use its rings. *)
In(r) == r.undo \/ r.pc \in {"touch", "count", "allocate", "publish"}
Hears(r, s) ==
  \/ s.sent = 0 /\ s.got = << >>
  \/ /\ s.sent = r.sent /\ s.got = r.got
     /\ r.pc \in Early \/ (s.id = r.id /\ s.pc \notin Early)
Follows(r, s) == Hears(r, s) /\ (s.pc \in Talkers => r.pc \in Talkers /\ Alike(r, s))
Attaches(r, s) == In(s) => (In(r) /\ s.id = r.id) \/ s.id = next_session_id

LEMMA SilentGot == ASSUME NEW s, s.sent = 0, s.got = << >> PROVE Got(s, s.sent)
BY DEF Got

LEMMA TalksKept ==
  ASSUME NEW who, NEW who1, NEW X, Frame(who, who1, X), \A o \in X : who[o] # ReplyBlock,
         NEW r, Talks(who, r),
         r.pc \in Talkers => /\ Owns(who, r) /\ r.rings[1] \notin X /\ r.rings[2] \notin X
                             /\ ServesOn(r.id),
         NEW s, Follows(r, s)
  PROVE  Talks(who1, s)'
<1>1. s.pc \in Talkers => Flow(who1, s)' BY FlowKept DEF Follows, Talks
<1>2. CASE s.sent = 0 /\ s.got = << >>
  <2>1. Got(s, s.sent) BY <1>2, SilentGot
  <2> QED BY <1>1, <1>2, <2>1 DEF Talks, Got
<1>3. CASE ~(s.sent = 0 /\ s.got = << >>)
  <2>1. /\ s.sent = r.sent /\ s.got = r.got /\ s.id = r.id /\ s.pc \notin Early
    BY <1>3 DEF Follows, Hears, Talks
  <2>2. Got(s, s.sent) BY <2>1 DEF Talks, Got
  <2> QED BY <1>1, <2>1, <2>2 DEF Talks, Got
<1> QED BY <1>2, <1>3

LEMMA SameFollows ==
  ASSUME NEW r, NEW s, Same(r, s), s.pc \in Early => r.pc \in Early,
         s.pc \in Talkers => r.pc \in Talkers
  PROVE  Follows(r, s)
BY DEF Follows, Hears, Alike, Same

LEMMA OutsideFollows == \A r : Follows(r, Outside) /\ Attaches(r, Outside) /\ Outside.pc = "out"
BY DEF Follows, Hears, Outside, Talkers, Attends, Attaches, In

LEMMA NotInFollows ==
  ASSUME Base, Sess, NEW c \in Clients, NotIn(c)
  PROVE  Follows(client[c], client'[c]) /\ Attaches(client[c], client'[c])
<1> USE DEF Early, Talkers, Attends
<1>1. CASE create_session(c)
  <2> DEFINE r == [Outside EXCEPT !.pc = "find"]
  <2>1. client' = [client EXCEPT ![c] = r] BY <1>1 DEF create_session
  <2>2. r.sent = 0 /\ r.got = << >> /\ r.pc = "find" /\ ~r.undo BY DEF Outside
  <2> HIDE DEF r
  <2>3. client'[c] = r BY <2>1 DEF Base, Callers
  <2> QED BY <2>2, <2>3 DEF Follows, Hears, Attaches, In
<1>2. CASE find_free_slot(c)
  <2>1. /\ client[c].pc = "find" /\ client'[c].pc \in {"out", "write"}
        /\ client'[c].pc = "write" => /\ client'[c].sent = client[c].sent
                                      /\ client'[c].got = client[c].got
                                      /\ client'[c].id = client[c].id
                                      /\ client'[c].undo = client[c].undo
        /\ client'[c].pc = "out" => client'[c] = Outside
    BY <1>2, FindShape
  <2>2. CASE client'[c].pc = "out" BY <2>1, <2>2, OutsideFollows
  <2>3. CASE client'[c].pc = "write" BY <2>1, <2>3 DEF Follows, Hears, Attaches, In
  <2> QED BY <2>1, <2>2, <2>3
<1>3. CASE WriteId(c) BY <1>3, WriteIdShape DEF Follows, Hears, Attaches, In
<1>4. CASE CountUp(c) BY <1>4, CountUpShape, SameFollows DEF Attaches, In, Same
<1>5. ASSUME NEW fails \in BOOLEAN, OpenEventfd(c, fails)
      PROVE  Follows(client[c], client'[c]) /\ Attaches(client[c], client'[c])
  BY <1>5, OpenShape, SameFollows DEF Attaches, In, Same
<1>6. CASE PublishRings(c) BY <1>6, PublishShape, SameFollows DEF Attaches, In, Same
<1>7. CASE detach_session(c)
  <2>1. /\ client[c].pc \in {"in", "remove"}
        /\ IF \A i \in 1..MaxSessions : slots[i].id # client[c].id THEN client'[c] = Outside
           ELSE /\ client'[c].pc = "drop" /\ client'[c].id = client[c].id
                /\ client'[c].undo = client[c].undo
                /\ client'[c].sent = client[c].sent /\ client'[c].got = client[c].got
    BY <1>7, DetachShape
  <2>2. \/ client'[c] = Outside
        \/ /\ client'[c].pc = "drop" /\ client'[c].id = client[c].id
           /\ client'[c].undo = client[c].undo
           /\ client'[c].sent = client[c].sent /\ client'[c].got = client[c].got
    BY <2>1
  <2>3. CASE client'[c] = Outside BY <2>3, OutsideFollows
  <2>4. CASE /\ client'[c].pc = "drop" /\ client'[c].id = client[c].id
             /\ client'[c].undo = client[c].undo
             /\ client'[c].sent = client[c].sent /\ client'[c].got = client[c].got
    BY <2>4 DEF Follows, Hears, Attaches, In
  <2> QED BY <2>2, <2>3, <2>4
<1>8. CASE remove_session(c) BY <1>8, RemoveShape, SameFollows DEF Attaches, In, Same
<1>9. CASE CountDown(c)
  <2>1. \/ client'[c] = Outside
        \/ client[c].pc = "discount" /\ client'[c].pc = "free" /\ Same(client[c], client'[c])
    BY <1>9, CountDownShape
  <2>2. CASE client'[c] = Outside BY <2>2, OutsideFollows
  <2>3. CASE client[c].pc = "discount" /\ client'[c].pc = "free" /\ Same(client[c], client'[c])
    BY <2>3, SameFollows DEF Attaches, In, Same
  <2> QED BY <2>1, <2>2, <2>3
<1>10. CASE Sleep(c) BY <1>10, SleepShape, SameFollows DEF Attaches, In, Same
<1>11. CASE Wake(c) BY <1>11, WakeShape, SameFollows DEF Attaches, In, Same
<1>12. CASE ack_notifications(c)
  BY <1>12, AckShape DEF Follows, Hears, Alike, Attaches, In
<1> QED BY <1>1, <1>2, <1>3, <1>4, <1>5, <1>6, <1>7, <1>8, <1>9, <1>10, <1>11, <1>12 DEF NotIn

(* What the server has stays when others use the arena. *)
LEMMA RingOfKept ==
  ASSUME NEW who, NEW who1, NEW X, Frame(who, who1, X), NEW o, NEW w, RingOf(who, o, w),
         w[1] \in Shared, o \notin X
  PROVE  RingOf(who1, o, w)'
BY DEF RingOf, Frame, IsRing

LEMMA BusyKept ==
  ASSUME Busy, server'.pc # "idle" => server.pc # "idle" /\ server'.id = server.id,
         next_session_id \in Nat, server.id \in Nat,
         next_session_id' \in {next_session_id, next_session_id + 1},
         NEW c \in Clients, Moves(c), Attaches(client[c], client'[c])
  PROVE  Busy'
<1> SUFFICES ASSUME server'.pc # "idle"
             PROVE  server'.id # 0 /\ server'.id < next_session_id' /\ ~Attaching(server.id)'
  BY DEF Busy
<1>1. server.id # 0 /\ server.id < next_session_id /\ ~Attaching(server.id) BY DEF Busy
<1>2. server'.id = server.id /\ server.id < next_session_id' BY <1>1
<1>3. \A d \in Clients : ~(client[d].id = server.id /\ In(client[d])) BY <1>1 DEF Attaching, In
<1>4. \A d \in Clients : ~(client'[d].id = server.id /\ In(client'[d]))
  <2>1. ASSUME NEW d \in Clients, client'[d].id = server.id, In(client'[d]) PROVE FALSE
    <3>1. CASE d = c
      <4>1. client'[c].id # next_session_id BY <1>1, <2>1, <3>1
      <4>2. In(client[c]) /\ client'[c].id = client[c].id BY <2>1, <3>1, <4>1 DEF Attaches
      <4> QED BY <1>3, <2>1, <3>1, <4>2
    <3>2. CASE d # c BY <1>3, <2>1, <3>2 DEF Moves
    <3> QED BY <3>1, <3>2
  <2> QED BY <2>1
<1>5. ~Attaching(server.id)' BY <1>2, <1>4 DEF Attaching, In
<1> QED BY <1>1, <1>2, <1>5

LEMMA BusyStill ==
  ASSUME Busy, server'.pc # "idle" => server.pc # "idle" /\ server'.id = server.id,
         UNCHANGED <<client, next_session_id>>
  PROVE  Busy'
BY DEF Busy, Attaching

LEMMA RefsKept ==
  ASSUME Refs, server' = server, NEW c \in Clients, Moves(c), KeepsRings(client[c], client'[c])
  PROVE  Refs'
<1> SUFFICES ASSUME NEW d \in Clients, Holds(client'[d]), client'[d].id = server.id
             PROVE  /\ server.pc = "pop" => server.ref = client'[d].rings[1]
                    /\ server.pc = "push" => server.ref = client'[d].rings[2]
  BY DEF Refs, Holds
<1>1. CASE d = c BY <1>1 DEF Refs, KeepsRings
<1>2. CASE d # c BY <1>2 DEF Refs, Moves
<1> QED BY <1>1, <1>2

LEMMA ResponseKept ==
  ASSUME NEW who, NEW who1, NEW X, Frame(who, who1, X), \A o \in X : who[o] # ReplyBlock,
         Response(who), server' = server
  PROVE  Response(who1)'
<1> SUFFICES ASSUME server.pc \in {"find", "push"}
             PROVE  IsReply(who1, server.reply, server.id)' /\ memory'[server.reply] = memory[server.reply]
  BY DEF Response
<1>1. PICK o, id : o = server.reply /\ id = server.id OBVIOUS
<1>2. IsReply(who, o, id) BY <1>1 DEF Response
<1>3. IsReply(who1, o, id)' /\ memory'[o] = memory[o] BY <1>2, IsReplyKept
<1> QED BY <1>1, <1>3

LEMMA AtRingKept ==
  ASSUME NEW who, NEW who1, NEW X, Frame(who, who1, X), AtRing(who), server' = server,
         server.pc \in {"pop", "push"} => server.ref \notin X
  PROVE  AtRing(who1)'
<1>1. PICK o, id : o = server.ref /\ id = server.id OBVIOUS
<1>2. CmdOf(id)[1] \in Shared /\ RespOf(id)[1] \in Shared BY Owners
<1>3. server.pc = "pop" => RingOf(who1, o, CmdOf(id))' BY <1>1, <1>2, RingOfKept DEF AtRing
<1>4. server.pc = "push" => RingOf(who1, o, RespOf(id))' BY <1>1, <1>2, RingOfKept DEF AtRing
<1> QED BY <1>1, <1>3, <1>4 DEF AtRing, CmdOf, RespOf

-----------------------------------------------------------------------------
(* Clients. *)
LEMMA TalkerOwns ==
  ASSUME NEW who, NEW at, Mem(who, at), NEW c \in Clients, client[c].pc \in Talkers
  PROVE  Holds(client[c]) /\ Owns(who, client[c]) /\ Known(client[c])
BY DEF Mem, Owned, Holds, Talkers, Known, Attends

LEMMA NotReply == \A id : CmdOf(id) # ReplyBlock /\ RespOf(id) # ReplyBlock
<1>1. \A id : CmdOf(id)[1] = "cmd" /\ RespOf(id)[1] = "resp" /\ ReplyBlock[1] = "reply"
  BY DEF CmdOf, RespOf, ReplyBlock
<1> QED BY <1>1

LEMMA OtherRings ==
  ASSUME NEW who, NEW r, NEW s, Owns(who, r), Owns(who, s)
  PROVE  /\ r.rings[1] # s.rings[2] /\ r.rings[2] # s.rings[1] /\ r.rings[1] # r.rings[2]
         /\ r.id # s.id => r.rings[1] # s.rings[1] /\ r.rings[2] # s.rings[2]
         /\ who[r.rings[1]] # ReplyBlock /\ who[r.rings[2]] # ReplyBlock
BY Owners, NotReply DEF Owns

LEMMA TalksOthers ==
  ASSUME NEW who, NEW at, Mem(who, at), Talk(who), NEW who1, NEW X, Frame(who, who1, X),
         \A o \in X : who[o] # ReplyBlock, NEW d \in Clients, client'[d] = client[d],
         client[d].pc \in Talkers => /\ client[d].rings[1] \notin X /\ client[d].rings[2] \notin X
                                     /\ ServesOn(client[d].id)
  PROVE  Talks(who1, client[d])'
<1>1. PICK r : r = client[d] /\ client'[d] = r OBVIOUS
<1>2. Follows(r, r) BY SameFollows DEF Same
<1>3. Talks(who, r) BY <1>1 DEF Talk
<1>4. r.pc \in Talkers => /\ Owns(who, r) /\ r.rings[1] \notin X /\ r.rings[2] \notin X
                          /\ ServesOn(r.id)
  BY <1>1, TalkerOwns
<1>5. Talks(who1, r)' BY <1>2, <1>3, <1>4, TalksKept
<1> QED BY <1>1, <1>5

LEMMA ServesSame == ASSUME server' = server PROVE \A id : ServesOn(id)
BY DEF ServesOn

LEMMA TalkNotIn ==
  ASSUME Base, Sess, NEW who, NEW at, Mem(who, at), Proper, Talk(who), NEW c \in Clients, NotIn(c),
         NEW who1, Frame(who, who1, {})
  PROVE  Talk(who1)'
<1>1. Moves(c) /\ KeepsRings(client[c], client'[c]) BY NotInKeeps
<1>2. Follows(client[c], client'[c]) /\ Attaches(client[c], client'[c]) BY NotInFollows
<1>3. server' = server BY NotInElsewhere DEF Elsewhere
<1>4. \A o \in {} : who[o] # ReplyBlock OBVIOUS
<1>5. ASSUME NEW d \in Clients PROVE Talks(who1, client[d])'
  <2>1. CASE d = c
    <3>1. PICK r : r = client[c] OBVIOUS
    <3>2. PICK s : s = client'[c] OBVIOUS
    <3>3. Talks(who, r) /\ Follows(r, s) BY <1>2, <3>1, <3>2 DEF Talk
    <3>4. r.pc \in Talkers => Owns(who, r) /\ ServesOn(r.id) BY <1>3, <3>1, TalkerOwns, ServesSame
    <3>5. Talks(who1, s)' BY <3>3, <3>4, TalksKept
    <3> QED BY <2>1, <3>2, <3>5
  <2>2. CASE d # c BY <1>1, <1>3, <2>2, TalksOthers, ServesSame DEF Moves
  <2> QED BY <2>1, <2>2
<1>6. next_session_id \in Nat /\ server.id \in Nat BY DEF Base, Registry, Proper, Serving
<1>7. next_session_id' \in {next_session_id, next_session_id + 1}
  BY DEF NotIn, create_session, find_free_slot, WriteId, CountUp, OpenEventfd, PublishRings,
     detach_session, remove_session, CountDown, Sleep, Wake, ack_notifications, registry
<1>8. Busy' BY <1>1, <1>2, <1>3, <1>6, <1>7, BusyKept DEF Talk, Attentive
<1>9. Refs' BY <1>1, <1>3, RefsKept DEF Talk, Attentive
<1>10. Response(who1)' BY <1>3, ResponseKept DEF Talk, Attentive
<1>11. AtRing(who1)' BY <1>3, AtRingKept DEF Talk, Attentive
<1> QED BY <1>5, <1>8, <1>9, <1>10, <1>11 DEF Talk, Attentive

LEMMA AttachedRings ==
  ASSUME Base, Sess, NEW c \in Clients, client[c].pc \in Attends, Attached(c)
  PROVE  CmdRing(c) = client[c].rings[1] /\ RespRing(c) = client[c].rings[2]
<1>1. PICK found : found = get_session(client[c].id) OBVIOUS
<1>2. found # {} /\ found = {i \in 1..MaxSessions : slots[i].id = client[c].id}
  BY <1>1 DEF Attached, get_session, Base, Registry
<1>3. Min(found) \in found
  <2>1. found \subseteq Nat BY <1>2
  <2> QED BY <1>2, <2>1, MinElement
<1>4. Fit(client[c]) BY DEF Sess
<1>5. slots[Min(found)].cmd = client[c].rings[1] /\ slots[Min(found)].resp = client[c].rings[2]
  BY <1>2, <1>3, <1>4 DEF Fit
<1> QED BY <1>1, <1>5 DEF CmdRing, RespRing

LEMMA QueueSet ==
  ASSUME NEW who, NEW at, Mem(who, at), NEW o \in Offsets, NEW q, SetQueue(q, o)
  PROVE  memory'[o][2] = q
<1>1. DOMAIN memory = Offsets BY DEF Mem, KvMem, Heap, Blocks, Arena
<1>2. memory'[o] = <<"ring", q>> BY <1>1 DEF SetQueue
<1> QED BY <1>2

(* A push or a pop of client c: everything but the flow of its own session. *)
LEMMA TalkQueue ==
  ASSUME Base, Sess, NEW who, NEW at, Mem(who, at), Talk(who), NEW c \in Clients,
         client[c].pc = "in", Moves(c), client'[c].pc = "in", client'[c].id = client[c].id,
         client'[c].rings = client[c].rings, client'[c].undo = client[c].undo,
         UNCHANGED <<server, next_session_id>>, Proper,
         NEW o, o = client[c].rings[1] \/ o = client[c].rings[2],
         NEW who1, NEW at1, Mem(who1, at1)', Frame(who, who1, {o}), Talks(who1, client[c])'
  PROVE  Talk(who1)'
<1>1. client[c].pc \in Talkers BY DEF Talkers, Attends
<1>2. Holds(client[c]) /\ Owns(who, client[c]) /\ Known(client[c]) BY <1>1, TalkerOwns
<1>3. \A p \in {o} : who[p] # ReplyBlock BY <1>2, OtherRings
<1>4. ASSUME NEW d \in Clients, d # c PROVE Talks(who1, client[d])'
  <2>1. client'[d] = client[d] BY <1>4 DEF Moves
  <2>2. ASSUME client[d].pc \in Talkers
        PROVE  client[d].rings[1] \notin {o} /\ client[d].rings[2] \notin {o}
    <3>1. Owns(who, client[d]) /\ Known(client[d]) BY <2>2, TalkerOwns
    <3>2. client[d].id # client[c].id BY <1>2, <1>4, <3>1 DEF Sess
    <3> QED BY <1>2, <3>1, <3>2, OtherRings
  <2> QED BY <1>3, <2>1, <2>2, TalksOthers, ServesSame
<1>5. KeepsRings(client[c], client'[c]) BY <1>2 DEF KeepsRings
<1>6. Attaches(client[c], client'[c]) BY DEF Attaches, In
<1>7. next_session_id \in Nat /\ server.id \in Nat BY DEF Base, Registry, Proper, Serving
<1>8. Busy' BY <1>6, <1>7, BusyKept DEF Talk, Attentive
<1>9. Refs' BY <1>5, RefsKept DEF Talk, Attentive
<1>10. Response(who1)' BY <1>3, ResponseKept DEF Talk, Attentive
<1>11. AtRing(who1)'
  <2>1. CASE server.pc \in {"pop", "push"} /\ server.ref = o
    <3>1. Holds(client'[c]) BY DEF Holds, Attends
    <3>2. Owns(who1, client[c])' BY <3>1 DEF Mem, Owned, Holds
    <3>3. /\ client[c].rings[1] \in Offsets /\ client[c].rings[2] \in Offsets
          /\ who[client[c].rings[1]] = CmdOf(client[c].id)
          /\ who[client[c].rings[2]] = RespOf(client[c].id)
      BY <1>2 DEF Owns
    <3>4. /\ server.pc = "pop" => who[server.ref] = CmdOf(server.id)
          /\ server.pc = "push" => who[server.ref] = RespOf(server.id)
      BY DEF Talk, Attentive, AtRing, RingOf
    <3>5. /\ server.pc = "pop" => server.ref = client[c].rings[1] /\ server.id = client[c].id
          /\ server.pc = "push" => server.ref = client[c].rings[2] /\ server.id = client[c].id
      BY <2>1, <3>3, <3>4, Owners
    <3> QED BY <3>2, <3>5 DEF AtRing, RingOf, Owns, CmdOf, RespOf
  <2>2. CASE ~(server.pc \in {"pop", "push"} /\ server.ref = o)
    BY <2>2, AtRingKept DEF Talk, Attentive
  <2> QED BY <2>1, <2>2
<1> QED BY <1>4, <1>8, <1>9, <1>10, <1>11 DEF Talk, Attentive

LEMMA TalkPush ==
  ASSUME Base, Sess, NEW who, NEW at, Mem(who, at), Proper, Talk(who), NEW c \in Clients,
         NEW command \in Requests, PushCommand(c, command),
         NEW who1, NEW at1, Mem(who1, at1)', Frame(who, who1, {CmdRing(c)})
  PROVE  Talk(who1)'
<1>1. /\ client[c].pc = "in" /\ client'[c].pc = "in" /\ Moves(c)
      /\ client'[c].id = client[c].id /\ client'[c].rings = client[c].rings
      /\ client'[c].undo = client[c].undo
      /\ client'[c].sent = client[c].sent + 1 /\ client'[c].got = client[c].got
  BY PushShape
<1>2. Attached(c) /\ UNCHANGED <<server, next_session_id>> BY DEF PushCommand, registry
<1>3. PICK r : r = client[c] OBVIOUS
<1>4. PICK s : s = client'[c] OBVIOUS
<1>5. PICK o : o = CmdRing(c) OBVIOUS
<1>6. o = r.rings[1] BY <1>1, <1>2, <1>3, <1>5, AttachedRings DEF Attends
<1>7. r.pc \in Talkers /\ r.sent \in Nat BY <1>1, <1>3 DEF Talkers, Attends, Proper, Sent
<1>8. Owns(who, r) BY <1>3, <1>7, TalkerOwns
<1>9. o \in Offsets /\ r.rings[1] # r.rings[2] /\ \A p \in {o} : who[p] # ReplyBlock
  BY <1>6, <1>8, OtherRings DEF Owns
<1>10. PICK a \in Nat, b \in Nat, d \in Nat : FlowAt(who, r, a, b, d)
  BY <1>3, <1>7 DEF Talk, Talks, Flow
<1>11. PICK x : x = <<"command", r.sent + 1, command>> OBVIOUS
<1>12. PICK q : q = Queue(o) OBVIOUS
<1>13. SetQueue(Append(q, x), o) BY <1>3, <1>5, <1>11, <1>12 DEF PushCommand
<1>14. memory'[o][2] = Append(q, x) BY <1>9, <1>13, QueueSet
<1>15. Frame(who, who1, {o}) BY <1>5
<1>16. memory'[r.rings[2]] = memory[r.rings[2]] BY <1>6, <1>8, <1>9, <1>15, Owners DEF Owns, Frame
<1>17. PICK p : p = Queue(r.rings[2]) OBVIOUS
<1>18. Coming(who1, p, r.id, a, b)' BY <1>9, <1>10, <1>15, <1>17, ComingKept DEF FlowAt
<1>19. Asked(Append(q, x), d, r.sent + 1)
  BY <1>6, <1>7, <1>10, <1>11, <1>12, AskedAppend DEF FlowAt
<1>20. s.id = r.id /\ s.rings = r.rings /\ s.sent = r.sent + 1 /\ s.got = r.got /\ s.pc = "in"
  BY <1>1, <1>3, <1>4
<1>21. Queue(s.rings[1])' = Append(q, x) /\ Queue(s.rings[2])' = p
  BY <1>6, <1>14, <1>16, <1>17, <1>20 DEF Queue
<1>22. Got(s, a) /\ a <= b /\ b <= d /\ d <= s.sent
  <2>1. Got(r, a) /\ a <= b /\ b <= d /\ d <= r.sent BY <1>10 DEF FlowAt
  <2> QED BY <1>7, <1>20, <2>1 DEF Got
<1>23. Working(r.id, b, d)' BY <1>2, <1>10 DEF FlowAt, Working
<1>24. Asked(Queue(s.rings[1]), d, s.sent)' BY <1>19, <1>20, <1>21 DEF Asked
<1>25. Coming(who1, Queue(s.rings[2]), s.id, a, b)' BY <1>18, <1>20, <1>21
<1>26. Working(s.id, b, d)' BY <1>20, <1>23
<1>27. FlowAt(who1, s, a, b, d)' BY <1>22, <1>24, <1>25, <1>26 DEF FlowAt, Got
<1>28. Got(s, s.sent)
  <2>1. Got(r, r.sent) /\ \A n \in 1..Len(r.got) : r.got[n] \in Replies BY <1>3 DEF Talk, Talks, Got
  <2>2. \A n \in 1..Len(r.got) : r.got[n][3] \in Nat BY <2>1 DEF Replies
  <2>3. \A n \in 1..Len(r.got) : r.got[n][3] <= r.sent + 1 BY <1>7, <2>1, <2>2 DEF Got
  <2> QED BY <1>20, <2>1, <2>3 DEF Got
<1>29. Talks(who1, s)'
  <2>1. s.pc \notin Early BY <1>20 DEF Early
  <2> QED BY <1>27, <1>28, <2>1 DEF Talks, Flow, Got
<1>30. Talks(who1, client[c])' BY <1>4, <1>29
<1> QED BY <1>1, <1>2, <1>3, <1>6, <1>15, <1>30, TalkQueue

LEMMA TalkPop ==
  ASSUME Base, Sess, NEW who, NEW at, Mem(who, at), Proper, Talk(who), NEW c \in Clients,
         PopResponse(c), NEW who1, NEW at1, Mem(who1, at1)', Frame(who, who1, {RespRing(c)})
  PROVE  Talk(who1)'
<1>1. Attached(c) /\ UNCHANGED <<server, next_session_id>> BY DEF PopResponse, registry
<1>2. PICK r : r = client[c] OBVIOUS
<1>3. PICK s : s = client'[c] OBVIOUS
<1>4. PICK o : o = RespRing(c) OBVIOUS
<1>5. PICK q : q = Queue(o) OBVIOUS
<1>6. PICK slot : slot = Head(q) OBVIOUS
<1>7. PICK x : x = IF slot[1] = "offset" THEN memory[slot[2]] ELSE slot OBVIOUS
<1>8. /\ client[c].pc = "in" /\ client'[c].pc = "in" /\ Moves(c)
      /\ client'[c].id = client[c].id /\ client'[c].rings = client[c].rings
      /\ client'[c].undo = client[c].undo
      /\ client'[c].sent = client[c].sent /\ client'[c].got = Append(client[c].got, x)
  BY <1>4, <1>5, <1>6, <1>7, PopShape
<1>9. o = r.rings[2] BY <1>1, <1>2, <1>4, <1>8, AttachedRings DEF Attends
<1>10. r.pc \in Talkers /\ r.sent \in Nat BY <1>2, <1>8 DEF Talkers, Attends, Proper, Sent
<1>11. Owns(who, r) BY <1>2, <1>10, TalkerOwns
<1>12. o \in Offsets /\ r.rings[1] # r.rings[2] /\ \A p \in {o} : who[p] # ReplyBlock
  BY <1>9, <1>11, OtherRings DEF Owns
<1>13. PICK a \in Nat, b \in Nat, d \in Nat : FlowAt(who, r, a, b, d)
  BY <1>2, <1>10 DEF Talk, Talks, Flow
<1>14. SetQueue(Tail(q), o) /\ q # << >> BY <1>4, <1>5 DEF PopResponse, popped
<1>15. memory'[o][2] = Tail(q) BY <1>12, <1>14, QueueSet
<1>16. Frame(who, who1, {o}) BY <1>4
<1>17. memory'[r.rings[1]] = memory[r.rings[1]] BY <1>9, <1>11, <1>12, <1>16, Owners DEF Owns, Frame
<1>18. Coming(who, q, r.id, a, b) BY <1>5, <1>9, <1>13 DEF FlowAt
<1>19. PICK e : e = memory[slot[2]][3] OBVIOUS
<1>20. /\ slot[1] = "offset" /\ IsReply(who, slot[2], r.id) /\ a < e /\ e <= b /\ e \in Nat
       /\ Coming(who, Tail(q), r.id, e, b)
  BY <1>6, <1>14, <1>18, <1>19, ComingTail
<1>21. x \in Replies /\ x[2] = r.id /\ x[3] = e BY <1>7, <1>19, <1>20 DEF IsReply
<1>22. PICK p : p = Tail(q) OBVIOUS
<1>23. Coming(who1, p, r.id, e, b)' BY <1>12, <1>16, <1>20, <1>22, ComingKept
<1>24. s.id = r.id /\ s.rings = r.rings /\ s.sent = r.sent /\ s.got = Append(r.got, x) /\ s.pc = "in"
  BY <1>2, <1>3, <1>8
<1>25. Got(r, a) /\ a <= b /\ b <= d /\ d <= r.sent BY <1>13 DEF FlowAt
<1>26. Got(s, e) BY <1>20, <1>21, <1>24, <1>25, GotAppend
<1>27. PICK p1 : p1 = Queue(r.rings[1]) OBVIOUS
<1>28. Queue(s.rings[1])' = p1 /\ Queue(s.rings[2])' = p
  BY <1>9, <1>15, <1>17, <1>22, <1>24, <1>27 DEF Queue
<1>29. Working(r.id, b, d)' BY <1>1, <1>13 DEF FlowAt, Working
<1>30. Asked(p1, d, r.sent) BY <1>13, <1>27 DEF FlowAt
<1>31. Asked(Queue(s.rings[1]), d, s.sent)' BY <1>24, <1>28, <1>30 DEF Asked
<1>32. Coming(who1, Queue(s.rings[2]), s.id, e, b)' BY <1>23, <1>24, <1>28
<1>33. Working(s.id, b, d)' BY <1>24, <1>29
<1>34. FlowAt(who1, s, e, b, d)' BY <1>20, <1>24, <1>25, <1>26, <1>31, <1>32, <1>33 DEF FlowAt, Got
<1>35. Got(s, s.sent)
  <2>1. \A n \in 1..Len(s.got) : s.got[n] \in Replies BY <1>26 DEF Got
  <2>2. \A n \in 1..Len(s.got) : s.got[n][3] \in Nat BY <2>1 DEF Replies
  <2>3. e <= s.sent BY <1>10, <1>20, <1>24, <1>25
  <2>4. \A n \in 1..Len(s.got) : s.got[n][3] <= s.sent BY <1>10, <1>20, <1>24, <1>26, <2>2, <2>3 DEF Got
  <2> QED BY <1>26, <2>4 DEF Got
<1>36. Talks(who1, s)'
  <2>1. s.pc \notin Early BY <1>24 DEF Early
  <2> QED BY <1>20, <1>34, <1>35, <2>1 DEF Talks, Flow, Got
<1>37. Talks(who1, client[c])' BY <1>3, <1>36
<1> QED BY <1>1, <1>2, <1>8, <1>9, <1>16, <1>37, TalkQueue

LEMMA TalkAllocate ==
  ASSUME Base, Sess, NEW who, NEW at, Mem(who, at), Proper, Talk(who), NEW c \in Clients,
         AllocateRings(c), NEW who1, Frame(who, who1, {})
  PROVE  Talk(who1)'
<1>1. PICK got, rings : Allocates(c, got, rings) BY DEF AllocateRings, Allocates
<1>2. client[c].pc = "allocate" /\ UNCHANGED <<server, next_session_id>>
  BY DEF AllocateRings, At, registry
<1>3. /\ Moves(c) /\ client'[c].pc = (IF got THEN "publish" ELSE "remove")
      /\ client'[c].id = client[c].id /\ client'[c].undo = ~got
      /\ client'[c].sent = client[c].sent /\ client'[c].got = client[c].got
  BY <1>1, <1>2, AllocateShape
<1>4. client'[c].pc = "publish" => /\ Queue(client[c].rings[1])' = << >>
                                  /\ Queue(client[c].rings[2])' = << >>
  BY MemAllocate
<1>5. client[c].sent = 0 /\ client[c].got = << >> BY <1>2 DEF Talk, Talks, Early
<1>6. client[c].id # 0 BY <1>2, KnownHasId DEF Known
<1>7. In(client[c]) BY <1>2 DEF In
<1>8. server.pc # "idle" => server.id # client[c].id
  BY <1>7 DEF Talk, Attentive, Busy, Attaching, In
<1>9. PICK s : s = client'[c] OBVIOUS
<1>10. Got(s, s.sent) /\ s.sent = 0 /\ s.got = << >> BY <1>3, <1>5, <1>9, SilentGot
<1>11. ASSUME s.pc = "publish" PROVE Flow(who1, s)'
  <2>1. Queue(s.rings[1])' = << >> /\ Queue(s.rings[2])' = << >> BY <1>4, <1>9, <1>11
  <2>2. Coming(who1, << >>, s.id, 0, 0)' BY DEF Coming
  <2>3. Coming(who1, Queue(s.rings[2]), s.id, 0, 0)' BY <2>1, <2>2
  <2>4. Asked(<< >>, 0, s.sent) BY DEF Asked
  <2>5. Asked(Queue(s.rings[1]), 0, s.sent)' BY <2>1, <2>4 DEF Asked
  <2>6. Working(s.id, 0, 0)' BY <1>2, <1>3, <1>8, <1>9 DEF Working, Serves
  <2>7. FlowAt(who1, s, 0, 0, 0)' BY <1>10, <2>3, <2>5, <2>6 DEF FlowAt, Got
  <2> QED BY <2>7 DEF Flow
<1>12. Talks(who1, s)'
  <2>1. s.pc \in {"publish", "remove"} BY <1>3, <1>9
  <2>2. s.pc \in Talkers => s.pc = "publish" BY <2>1 DEF Talkers, Attends
  <2> QED BY <1>10, <1>11, <2>2 DEF Talks, Got
<1>13. Talks(who1, client[c])' BY <1>9, <1>12
<1>14. ASSUME NEW d \in Clients, d # c PROVE Talks(who1, client[d])'
  BY <1>2, <1>3, <1>14, TalksOthers, ServesSame DEF Moves
<1>15. Attaches(client[c], client'[c]) BY <1>3, <1>7 DEF Attaches
<1>16. next_session_id \in Nat /\ server.id \in Nat BY DEF Base, Registry, Proper, Serving
<1>17. Busy' BY <1>2, <1>3, <1>15, <1>16, BusyKept DEF Talk, Attentive
<1>18. Refs'
  <2> SUFFICES ASSUME NEW d \in Clients, Holds(client'[d]), client'[d].id = server.id
               PROVE  /\ server.pc = "pop" => server.ref = client'[d].rings[1]
                      /\ server.pc = "push" => server.ref = client'[d].rings[2]
    BY <1>2 DEF Refs, Holds
  <2>1. CASE d = c BY <1>3, <1>8, <2>1
  <2>2. CASE d # c BY <1>3, <2>2 DEF Talk, Attentive, Refs, Moves
  <2> QED BY <2>1, <2>2
<1>19. Response(who1)' BY <1>2, ResponseKept DEF Talk, Attentive
<1>20. AtRing(who1)' BY <1>2, AtRingKept DEF Talk, Attentive
<1> QED BY <1>13, <1>14, <1>17, <1>18, <1>19, <1>20 DEF Talk, Attentive

LEMMA TalkFree ==
  ASSUME Base, Sess, NEW who, NEW at, Mem(who, at), Proper, Talk(who), NEW c \in Clients,
         FreeRings(c), ~met', NEW who1, Frame(who, who1, {client[c].rings[1], client[c].rings[2]})
  PROVE  Talk(who1)'
<1>1. client[c].pc = "free" /\ Moves(c) /\ client'[c] = Outside BY FreeShape
<1>2. server.id # client[c].id /\ UNCHANGED <<server, next_session_id>>
  BY DEF FreeRings, registry
<1>3. Holds(client[c]) /\ Known(client[c])
  BY <1>1 DEF Holds, Leaves, Sess, Fit, Known
<1>4. Owns(who, client[c]) BY <1>3 DEF Mem, Owned
<1>5. PICK X : X = {client[c].rings[1], client[c].rings[2]} OBVIOUS
<1>6. Frame(who, who1, X) /\ \A o \in X : who[o] # ReplyBlock BY <1>4, <1>5, OtherRings
<1>7. ASSUME NEW d \in Clients, d # c PROVE Talks(who1, client[d])'
  <2>1. client'[d] = client[d] BY <1>1, <1>7 DEF Moves
  <2>2. ASSUME client[d].pc \in Talkers
        PROVE  client[d].rings[1] \notin X /\ client[d].rings[2] \notin X
    <3>1. Owns(who, client[d]) /\ Known(client[d]) BY <2>2, TalkerOwns
    <3>2. client[d].id # client[c].id BY <1>3, <1>7, <3>1 DEF Sess
    <3> QED BY <1>4, <1>5, <3>1, <3>2, OtherRings
  <2> QED BY <1>2, <1>6, <2>1, <2>2, TalksOthers, ServesSame
<1>8. Talks(who1, client[c])'
  <2>1. PICK s : s = client'[c] OBVIOUS
  <2>2. s.sent = 0 /\ s.got = << >> /\ s.pc = "out" BY <1>1, <2>1 DEF Outside
  <2>3. Got(s, s.sent) BY <2>2, SilentGot
  <2>4. Talks(who1, s)' BY <2>2, <2>3 DEF Talks, Talkers, Attends, Got
  <2> QED BY <2>1, <2>4
<1>9. Attaches(client[c], client'[c]) BY <1>1, OutsideFollows
<1>10. KeepsRings(client[c], client'[c])
  BY <1>1, OutsideFollows DEF KeepsRings, Holds, Attends, Leaves
<1>11. next_session_id \in Nat /\ server.id \in Nat BY DEF Base, Registry, Proper, Serving
<1>12. Busy' BY <1>1, <1>2, <1>9, <1>11, BusyKept DEF Talk, Attentive
<1>13. Refs' BY <1>1, <1>2, <1>10, RefsKept DEF Talk, Attentive
<1>14. Response(who1)' BY <1>2, <1>6, ResponseKept DEF Talk, Attentive
<1>15. server.pc \in {"pop", "push"} => server.ref \notin X
  <2>1. who[client[c].rings[1]] = CmdOf(client[c].id) /\ who[client[c].rings[2]] = RespOf(client[c].id)
    BY <1>4 DEF Owns
  <2>2. server.pc \in {"pop", "push"} => who[server.ref] \in {CmdOf(server.id), RespOf(server.id)}
    BY DEF Talk, Attentive, AtRing, RingOf
  <2> QED BY <1>2, <1>5, <2>1, <2>2, Owners
<1>16. AtRing(who1)' BY <1>2, <1>6, <1>15, AtRingKept DEF Talk, Attentive
<1> QED BY <1>7, <1>8, <1>12, <1>13, <1>14, <1>16 DEF Talk, Attentive

-----------------------------------------------------------------------------
(* The serving thread. *)
LEMMA SlotRings ==
  ASSUME Base, Sess, NEW who, NEW at, Mem(who, at), NEW i \in 1..MaxSessions, NEW id,
         id = slots[i].id, id # 0, ~Attaching(id)
  PROVE  /\ RingOf(who, slots[i].cmd, CmdOf(id)) /\ RingOf(who, slots[i].resp, RespOf(id))
         /\ \A c \in Clients : Holds(client[c]) /\ client[c].id = id =>
              slots[i].cmd = client[c].rings[1] /\ slots[i].resp = client[c].rings[2]
<1>1. PICK c \in Clients : client[c].id = id /\ client[c].pc \in Entered BY DEF Sess
<1>2. ~In(client[c]) /\ Fit(client[c]) BY <1>1 DEF Attaching, In, Sess
<1>3. ~client[c].undo /\ client[c].pc \in Attends \cup {"drop"}
  BY <1>1, <1>2 DEF In, Entered, Fit
<1>4. Holds(client[c]) BY <1>3 DEF Holds
<1>5. slots[i].cmd = client[c].rings[1] /\ slots[i].resp = client[c].rings[2]
  BY <1>1, <1>2, <1>3 DEF Fit
<1>6. Owns(who, client[c]) BY <1>4 DEF Mem, Owned
<1>7. ASSUME NEW d \in Clients, Holds(client[d]), client[d].id = id PROVE d = c
  <2>1. Known(client[c]) /\ Known(client[d]) BY <1>4, <1>7 DEF Known, Holds, Attends, Leaves
  <2> QED BY <1>1, <1>7, <2>1 DEF Sess
<1> QED BY <1>1, <1>5, <1>6, <1>7 DEF Owns, RingOf

LEMMA TalkOn ==
  ASSUME NEW who, NEW at, Mem(who, at), Talk(who), NEW who1, Frame(who, who1, {}),
         UNCHANGED client, \A id : ServesOn(id), Busy', AtRing(who1)', Refs', Response(who1)'
  PROVE  Talk(who1)'
<1>1. \A d \in Clients : Talks(who1, client[d])' BY TalksOthers
<1> QED BY <1>1 DEF Talk, Attentive

LEMMA RestAttends ==
  ASSUME server'.pc \notin {"pop", "push", "find"}
  PROVE  Refs' /\ \A who1 : AtRing(who1)' /\ Response(who1)'
BY DEF Refs, AtRing, Response

LEMMA RestServes == ASSUME server'.pc \notin Serves PROVE \A id : ServesOn(id)
BY DEF ServesOn

LEMMA TalkRests ==
  ASSUME NEW who, NEW at, Mem(who, at), Talk(who), NEW who1, Frame(who, who1, {}),
         UNCHANGED <<client, next_session_id>>,
         \/ server' = Resting
         \/ server.pc = "notify" /\ Moved(server, "signal")
  PROVE  Talk(who1)'
<1>1. server'.pc \in {"idle", "signal"} /\ (server'.pc # "idle" =>
                                              server.pc # "idle" /\ server'.id = server.id)
  BY RestServing DEF Moved
<1>2. Busy' BY <1>1, BusyStill DEF Talk, Attentive
<1>3. Refs' /\ AtRing(who1)' /\ Response(who1)' BY <1>1, RestAttends
<1>4. \A id : ServesOn(id) BY <1>1, RestServes DEF Serves
<1> QED BY <1>2, <1>3, <1>4, TalkOn

LEMMA TalkTake ==
  ASSUME Base, Sess, NEW who, NEW at, Mem(who, at), Proper, Talk(who), NEW i \in DOMAIN slots,
         get_cmd_ring(i), ~met', NEW who1, Frame(who, who1, {})
  PROVE  Talk(who1)'
<1>1. /\ i \in 1..MaxSessions /\ slots[i].id # 0 /\ server'.pc = "pop"
      /\ server'.id = slots[i].id /\ server'.ref = slots[i].cmd /\ UNCHANGED <<client, slots>>
  BY TakeShape
<1>2. PICK id : id = slots[i].id OBVIOUS
<1>3. ~Attaching(id) /\ UNCHANGED next_session_id BY <1>2 DEF get_cmd_ring, registry
<1>4. PICK o : o = slots[i].cmd OBVIOUS
<1>5. /\ RingOf(who, o, CmdOf(id))
      /\ \A c \in Clients : Holds(client[c]) /\ client[c].id = id => o = client[c].rings[1]
  BY <1>1, <1>2, <1>3, <1>4, SlotRings
<1>6. RingOf(who1, o, CmdOf(id))' BY <1>5, Owners, RingOfKept
<1>7. AtRing(who1)' BY <1>1, <1>2, <1>4, <1>6 DEF AtRing, CmdOf
<1>8. Refs' BY <1>1, <1>2, <1>4, <1>5 DEF Refs, Holds
<1>9. Response(who1)' BY <1>1 DEF Response
<1>10. Busy' BY <1>1, <1>2, <1>3 DEF Busy, Attaching, Sess
<1>11. \A jd : ServesOn(jd) BY <1>1, RestServes DEF Serves
<1> QED BY <1>1, <1>7, <1>8, <1>9, <1>10, <1>11, TalkOn

LEMMA TalkProcess ==
  ASSUME NEW who, NEW at, Mem(who, at), Proper, Talk(who), process_command,
         NEW who1, Frame(who, who1, {})
  PROVE  Talk(who1)'
<1>1. /\ server.pc = "process" /\ Moved(server, "reply") /\ server'.item = server.item
      /\ UNCHANGED client
  BY ProcessShape DEF Proper
<1>2. UNCHANGED next_session_id BY DEF process_command, registry
<1>3. Busy' BY <1>1, <1>2, BusyStill DEF Talk, Attentive, Moved
<1>4. Refs' /\ AtRing(who1)' /\ Response(who1)' BY <1>1, RestAttends DEF Moved
<1>5. \A id : ServesOn(id) BY <1>1 DEF ServesOn, Serves, Moved
<1> QED BY <1>1, <1>3, <1>4, <1>5, TalkOn

LEMMA TalkAnswer ==
  ASSUME NEW who, NEW at, Mem(who, at), Proper, Talk(who), AllocateReply
  PROVE  \E who1, at1 : Mem(who1, at1)' /\ Talk(who1)'
<1>1. /\ server.pc = "reply" /\ UNCHANGED <<slots, client>>
      /\ \/ server' = Resting /\ UNCHANGED <<entries, stored, arenaVars>>
         \/ \E who1, at1, o : /\ Mem(who1, at1)' /\ Frame(who, who1, {})
                              /\ Answered(who1, o, <<"reply", server.id, server.item[2]>>)
                              /\ Moved(server, "find") /\ server'.item = server.item
                              /\ server'.reply = o
  BY AnswerShape DEF Proper
<1>2. UNCHANGED next_session_id BY DEF AllocateReply, registry
<1>3. CASE server' = Resting /\ UNCHANGED <<entries, stored, arenaVars>>
  <2>1. PICK who1, at1 : Mem(who1, at1)' /\ Frame(who, who1, {}) BY <1>1, <1>3, MemStill DEF MemStep
  <2> QED BY <1>1, <1>2, <1>3, <2>1, TalkRests
<1>4. ASSUME NEW who1, NEW at1, NEW o, NEW x, x = <<"reply", server.id, server.item[2]>>,
             Mem(who1, at1)', Frame(who, who1, {}), Answered(who1, o, x),
             Moved(server, "find"), server'.item = server.item, server'.reply = o
      PROVE  \E who2, at2 : Mem(who2, at2)' /\ Talk(who2)'
  <2>1. Busy' BY <1>1, <1>2, <1>4, BusyStill DEF Talk, Attentive, Moved
  <2>2. Refs' /\ AtRing(who1)' BY <1>4 DEF Refs, AtRing, Moved
  <2>3. \A id : ServesOn(id) BY <1>1, <1>4 DEF ServesOn, Serves, Moved
  <2>4. server.id \in Nat /\ server.item \in Commands BY <1>1 DEF Proper, Serving, Serves
  <2>5. server.item[2] \in Nat BY <2>4, CommandParts
  <2>6. x \in Replies /\ x[2] = server.id /\ x[3] = server.item[2] BY <1>4, <2>4, <2>5 DEF Replies
  <2>7. PICK id : id = server.id OBVIOUS
  <2>8. IsReply(who1, o, id)' BY <1>4, <2>6, <2>7 DEF IsReply, Answered
  <2>9. Response(who1)' BY <1>4, <2>6, <2>7, <2>8 DEF Response, Answered, Moved
  <2>10. Talk(who1)' BY <1>1, <1>4, <2>1, <2>2, <2>3, <2>9, TalkOn
  <2> QED BY <1>4, <2>10
<1> QED BY <1>1, <1>3, <1>4

LEMMA TalkFind ==
  ASSUME Base, Sess, NEW who, NEW at, Mem(who, at), Proper, Talk(who), get_resp_ring,
         NEW who1, Frame(who, who1, {})
  PROVE  Talk(who1)'
<1>1. /\ server.pc = "find" /\ UNCHANGED <<slots, client>>
      /\ \/ server' = Resting
         \/ \E i \in 1..MaxSessions :
              /\ slots[i].id = server.id /\ Moved(server, "push") /\ server'.item = server.item
              /\ server'.reply = server.reply /\ server'.ref = slots[i].resp
  BY FindRingShape DEF Proper
<1>2. UNCHANGED next_session_id BY DEF get_resp_ring, registry
<1>3. CASE server' = Resting BY <1>1, <1>2, <1>3, TalkRests
<1>4. ASSUME NEW i \in 1..MaxSessions, slots[i].id = server.id, Moved(server, "push"),
             server'.item = server.item, server'.reply = server.reply, server'.ref = slots[i].resp
      PROVE  Talk(who1)'
  <2>1. PICK id : id = server.id OBVIOUS
  <2>2. id # 0 /\ ~Attaching(id) BY <1>1, <2>1 DEF Talk, Attentive, Busy
  <2>3. PICK o : o = slots[i].resp OBVIOUS
  <2>4. /\ RingOf(who, o, RespOf(id))
        /\ \A c \in Clients : Holds(client[c]) /\ client[c].id = id => o = client[c].rings[2]
    BY <1>4, <2>1, <2>2, <2>3, SlotRings
  <2>5. RingOf(who1, o, RespOf(id))' BY <2>4, Owners, RingOfKept
  <2>6. server'.pc = "push" /\ server'.id = id /\ server'.ref = o BY <1>4, <2>1, <2>3 DEF Moved
  <2>7. AtRing(who1)' BY <2>5, <2>6 DEF AtRing, RespOf
  <2>8. Refs' BY <1>1, <2>4, <2>6 DEF Refs, Holds
  <2>9. PICK p : p = server.reply OBVIOUS
  <2>10. IsReply(who, p, id) /\ memory[p][3] = server.item[2] BY <1>1, <2>1, <2>9 DEF Talk, Attentive, Response
  <2>11. IsReply(who1, p, id)' /\ memory'[p] = memory[p]
    <3>1. \A e \in {} : who[e] # ReplyBlock OBVIOUS
    <3> QED BY <2>10, <3>1, IsReplyKept
  <2>12. Response(who1)' BY <1>4, <2>6, <2>9, <2>10, <2>11 DEF Response
  <2>13. Busy' BY <1>1, <1>2, <1>4, BusyStill DEF Talk, Attentive, Moved
  <2>14. \A jd : ServesOn(jd) BY <1>1, <1>4 DEF ServesOn, Serves, Moved
  <2> QED BY <1>1, <2>7, <2>8, <2>12, <2>13, <2>14, TalkOn
<1> QED BY <1>1, <1>3, <1>4

LEMMA TalkOthers ==
  ASSUME NEW who, NEW at, Mem(who, at), Talk(who), NEW who1, Frame(who, who1, {}),
         UNCHANGED <<server, client, next_session_id>>
  PROVE  Talk(who1)'
<1>1. Busy' BY BusyStill DEF Talk, Attentive
<1>2. Refs' BY DEF Talk, Attentive, Refs, Holds
<1>3. Response(who1)' BY ResponseKept DEF Talk, Attentive
<1>4. AtRing(who1)' BY AtRingKept DEF Talk, Attentive
<1>5. \A id : ServesOn(id) BY ServesSame
<1> QED BY <1>1, <1>2, <1>3, <1>4, <1>5, TalkOn

(* The server at a ring: clients of other sessions, and sessions whose client has left, are *)
(* not concerned.                                                                            *)
LEMMA TalkServed ==
  ASSUME Base, Sess, NEW who, NEW at, Mem(who, at), Proper, Talk(who),
         server.pc \in {"pop", "push"}, UNCHANGED <<client, next_session_id>>,
         server'.pc \notin {"pop", "push", "find"},
         server'.pc # "idle" => server'.id = server.id,
         \A id : id # server.id => ServesOn(id),
         NEW who1, Frame(who, who1, {server.ref}),
         \A c \in Clients : client[c].pc \in Talkers /\ client[c].id = server.id =>
           Flow(who1, client[c])'
  PROVE  Talk(who1)'
<1>1. Busy' BY BusyStill DEF Talk, Attentive
<1>2. Refs' /\ AtRing(who1)' /\ Response(who1)' BY RestAttends
<1>3. PICK o : o = server.ref OBVIOUS
<1>4. o \in Offsets /\ who[o] \in {CmdOf(server.id), RespOf(server.id)}
  BY <1>3 DEF Talk, Attentive, AtRing, RingOf
<1>5. Frame(who, who1, {o}) /\ \A p \in {o} : who[p] # ReplyBlock BY <1>3, <1>4, NotReply
<1>6. ASSUME NEW c \in Clients PROVE Talks(who1, client[c])'
  <2>1. CASE client[c].pc \in Talkers /\ client[c].id = server.id
    <3>1. PICK r : r = client[c] /\ client'[c] = r OBVIOUS
    <3>2. Talks(who, r) /\ Flow(who1, r)' BY <2>1, <3>1 DEF Talk
    <3>3. Talks(who1, r)' BY <3>2 DEF Talks, Got
    <3> QED BY <3>1, <3>3
  <2>2. CASE ~(client[c].pc \in Talkers /\ client[c].id = server.id)
    <3>1. ASSUME client[c].pc \in Talkers
          PROVE  /\ client[c].rings[1] \notin {o} /\ client[c].rings[2] \notin {o}
                 /\ ServesOn(client[c].id)
      <4>1. Owns(who, client[c]) /\ client[c].id # server.id BY <2>2, <3>1, TalkerOwns
      <4> QED BY <1>4, <4>1, Owners DEF Owns
    <3> QED BY <1>5, <3>1, TalksOthers
  <2> QED BY <2>1, <2>2
<1> QED BY <1>1, <1>2, <1>6 DEF Talk, Attentive

LEMMA TalkFetch ==
  ASSUME Base, Sess, NEW who, NEW at, Mem(who, at), Proper, Talk(who), try_get_command
  PROVE  \E who1, at1 : Mem(who1, at1)' /\ Talk(who1)'
<1>1. /\ server.pc = "pop" /\ server.ref \in Offsets /\ IsRing(server.ref)
      /\ UNCHANGED <<entries, stored, current, free_lists, width, smashed, slots, client>>
      /\ \/ server' = Resting /\ UNCHANGED memory
         \/ \E q \in Seq(Items), x \in Items :
              /\ Queue(server.ref) # << >> /\ q = Tail(Queue(server.ref))
              /\ x = Head(Queue(server.ref)) /\ SetQueue(q, server.ref)
              /\ \/ x[1] # "command" /\ server' = Resting
                 \/ /\ x \in Commands /\ Moved(server, "process") /\ server'.item = x
  BY FetchShape DEF Proper
<1>2. UNCHANGED next_session_id BY DEF try_get_command, registry
<1>3. CASE server' = Resting /\ UNCHANGED memory
  <2>1. PICK who1, at1 : Mem(who1, at1)' /\ Frame(who, who1, {})
    BY <1>1, <1>3, MemStill DEF MemStep, arenaVars
  <2> QED BY <1>1, <1>2, <1>3, <2>1, TalkRests
<1>4. ASSUME NEW q, NEW x, NEW Q, Q = Queue(server.ref), Q # << >>, q = Tail(Q), x = Head(Q),
             SetQueue(q, server.ref),
             \/ server' = Resting
             \/ Moved(server, "process") /\ server'.item = x
      PROVE  \E who2, at2 : Mem(who2, at2)' /\ Talk(who2)'
  <2>1. PICK who1, at1 : Mem(who1, at1)' /\ Frame(who, who1, {server.ref})
    BY <1>1, <1>4, OwnsStay, MemQueue DEF MemStep
  <2>2. PICK o : o = server.ref OBVIOUS
  <2>3. who[o] = CmdOf(server.id) BY <1>1, <2>2 DEF Talk, Attentive, AtRing, RingOf
  <2>4. Frame(who, who1, {o}) /\ \A p \in {o} : who[p] # ReplyBlock BY <2>1, <2>2, <2>3, NotReply
  <2>5. memory'[o][2] = q BY <1>1, <1>4, <2>2, QueueSet
  <2>6. /\ server'.pc \in {"idle", "process"} /\ (server'.pc # "idle" => server'.id = server.id)
        /\ server'.pc \in Serves => server'.item = x
    BY <1>4, RestServing DEF Moved, Serves
  <2>7. ASSUME NEW c \in Clients, client[c].pc \in Talkers, client[c].id = server.id
        PROVE  Flow(who1, client[c])'
    <3>1. PICK r : r = client[c] /\ client'[c] = r BY <1>1
    <3>2. Owns(who, r) /\ Holds(r) BY <2>7, <3>1, TalkerOwns
    <3>3. o = r.rings[1] BY <1>1, <2>2, <2>7, <3>1, <3>2 DEF Talk, Attentive, Refs
    <3>4. PICK a \in Nat, b \in Nat, d \in Nat : FlowAt(who, r, a, b, d)
      BY <2>7, <3>1 DEF Talk, Talks, Flow
    <3>5. r.sent \in Nat BY <3>1 DEF Proper, Sent
    <3>6. Asked(Q, d, r.sent) BY <1>4, <2>2, <3>3, <3>4 DEF FlowAt
    <3>7. PICK e : e = x[2] OBVIOUS
    <3>8. d < e /\ e <= r.sent /\ e \in Nat /\ Asked(q, e, r.sent)
      BY <1>4, <3>5, <3>6, <3>7, AskedTail
    <3>9. a <= b /\ b <= d /\ Got(r, a) BY <3>4 DEF FlowAt
    <3>10. b < e /\ b <= e BY <3>8, <3>9
    <3>11. Working(r.id, b, e)' BY <2>6, <3>7, <3>8, <3>10 DEF Working
    <3>12. PICK p : p = Queue(r.rings[2]) OBVIOUS
    <3>13. Coming(who1, p, r.id, a, b)' BY <2>4, <3>4, <3>12, ComingKept DEF FlowAt
    <3>14. memory'[r.rings[2]] = memory[r.rings[2]]
      BY <2>4, <3>2, <3>3, Owners, OtherRings DEF Owns, Frame
    <3>15. Queue(r.rings[1])' = q /\ Queue(r.rings[2])' = p
      BY <2>5, <3>3, <3>12, <3>14 DEF Queue
    <3>16. Asked(Queue(r.rings[1]), e, r.sent)' BY <3>8, <3>15 DEF Asked
    <3>17. Coming(who1, Queue(r.rings[2]), r.id, a, b)' BY <3>13, <3>15
    <3>18. FlowAt(who1, r, a, b, e)'
      BY <3>8, <3>9, <3>10, <3>11, <3>16, <3>17 DEF FlowAt, Got
    <3>19. Flow(who1, r)' BY <3>8, <3>18 DEF Flow
    <3> QED BY <3>1, <3>19
  <2>8. \A id : id # server.id => ServesOn(id) BY <2>6 DEF ServesOn, Serves
  <2>9. Talk(who1)' BY <1>1, <1>2, <2>1, <2>6, <2>7, <2>8, TalkServed
  <2> QED BY <2>1, <2>9
<1> QED BY <1>1, <1>3, <1>4

LEMMA TalkReply ==
  ASSUME Base, Sess, NEW who, NEW at, Mem(who, at), Proper, Talk(who), PushReply
  PROVE  \E who1, at1 : Mem(who1, at1)' /\ Talk(who1)'
<1>1. /\ server.pc = "push" /\ server.ref \in Offsets /\ IsRing(server.ref)
      /\ UNCHANGED <<entries, stored, current, free_lists, width, smashed, slots, client>>
      /\ \/ server' = Resting /\ UNCHANGED memory
         \/ \E q \in Seq(Items) :
              /\ q = Append(Queue(server.ref), <<"offset", server.reply>>)
              /\ SetQueue(q, server.ref) /\ Moved(server, "notify")
  BY ReplyShape DEF Proper
<1>2. UNCHANGED next_session_id BY DEF PushReply, registry
<1>3. CASE server' = Resting /\ UNCHANGED memory
  <2>1. PICK who1, at1 : Mem(who1, at1)' /\ Frame(who, who1, {})
    BY <1>1, <1>3, MemStill DEF MemStep, arenaVars
  <2> QED BY <1>1, <1>2, <1>3, <2>1, TalkRests
<1>4. ASSUME NEW Q, NEW x, NEW q, Q = Queue(server.ref), x = <<"offset", server.reply>>,
             q = Append(Q, x), SetQueue(q, server.ref), Moved(server, "notify")
      PROVE  \E who2, at2 : Mem(who2, at2)' /\ Talk(who2)'
  <2>1. PICK who1, at1 : Mem(who1, at1)' /\ Frame(who, who1, {server.ref})
    BY <1>1, <1>4, OwnsStay, MemQueue DEF MemStep
  <2>2. PICK o : o = server.ref OBVIOUS
  <2>3. who[o] = RespOf(server.id) BY <1>1, <2>2 DEF Talk, Attentive, AtRing, RingOf
  <2>4. Frame(who, who1, {o}) /\ \A p \in {o} : who[p] # ReplyBlock BY <2>1, <2>2, <2>3, NotReply
  <2>5. memory'[o][2] = q BY <1>1, <1>4, <2>2, QueueSet
  <2>6. server'.pc = "notify" /\ server'.id = server.id BY <1>4 DEF Moved
  <2>7. server.item \in Commands BY <1>1 DEF Proper, Serving, Serves
  <2>8. PICK e : e = server.item[2] OBVIOUS
  <2>9. e \in Nat BY <2>7, <2>8, CommandParts
  <2>10. PICK v : v = server.reply OBVIOUS
  <2>11. IsReply(who, v, server.id) /\ memory[v][3] = e
    BY <1>1, <2>8, <2>10 DEF Talk, Attentive, Response
  <2>12. ASSUME NEW c \in Clients, client[c].pc \in Talkers, client[c].id = server.id
         PROVE  Flow(who1, client[c])'
    <3>1. PICK r : r = client[c] /\ client'[c] = r BY <1>1
    <3>2. Owns(who, r) /\ Holds(r) BY <2>12, <3>1, TalkerOwns
    <3>3. o = r.rings[2] BY <1>1, <2>2, <2>12, <3>1, <3>2 DEF Talk, Attentive, Refs
    <3>4. PICK a \in Nat, b \in Nat, d \in Nat : FlowAt(who, r, a, b, d)
      BY <2>12, <3>1 DEF Talk, Talks, Flow
    <3>5. Coming(who, Q, r.id, a, b) BY <1>4, <2>2, <3>3, <3>4 DEF FlowAt
    <3>6. a <= b /\ b <= d /\ d <= r.sent /\ Got(r, a) BY <3>4 DEF FlowAt
    <3>7. b < e /\ e <= d BY <1>1, <2>8, <2>12, <3>1, <3>4 DEF FlowAt, Working, Serves
    <3>8. a <= e BY <2>9, <3>6, <3>7
    <3>9. IsReply(who, v, r.id) BY <2>11, <2>12, <3>1
    <3>10. b < memory[v][3] /\ x = <<"offset", v>> BY <1>4, <2>10, <2>11, <3>7
    <3>11. Coming(who, q, r.id, a, memory[v][3]) BY <1>4, <3>5, <3>6, <3>9, <3>10, ComingAppend
    <3>12. Coming(who, q, r.id, a, e) BY <2>11, <3>11
    <3>13. Coming(who1, q, r.id, a, e)' BY <2>4, <3>12, ComingKept
    <3>14. memory'[r.rings[1]] = memory[r.rings[1]]
      BY <2>4, <3>2, <3>3, Owners, OtherRings DEF Owns, Frame
    <3>15. PICK p : p = Queue(r.rings[1]) OBVIOUS
    <3>16. Queue(r.rings[1])' = p /\ Queue(r.rings[2])' = q
      BY <2>5, <3>3, <3>14, <3>15 DEF Queue
    <3>17. Asked(p, d, r.sent) BY <3>4, <3>15 DEF FlowAt
    <3>18. Asked(Queue(r.rings[1]), d, r.sent)' BY <3>16, <3>17 DEF Asked
    <3>19. Coming(who1, Queue(r.rings[2]), r.id, a, e)' BY <3>13, <3>16
    <3>20. Working(r.id, e, d)' BY <2>6 DEF Working, Serves
    <3>21. FlowAt(who1, r, a, e, d)'
      BY <3>6, <3>7, <3>8, <3>18, <3>19, <3>20 DEF FlowAt, Got
    <3>22. Flow(who1, r)' BY <2>9, <3>21 DEF Flow
    <3> QED BY <3>1, <3>22
  <2>13. \A id : id # server.id => ServesOn(id) BY <2>6 DEF ServesOn, Serves
  <2>14. Talk(who1)' BY <1>1, <1>2, <2>1, <2>6, <2>12, <2>13, TalkServed
  <2> QED BY <2>1, <2>14
<1> QED BY <1>1, <1>3, <1>4

(* No ring is looked for where there is none. *)
LEMMA NoStray ==
  ASSUME Base, Sess, NEW who, NEW at, Mem(who, at), Talk(who) PROVE ~Stray
<1>1. server.pc \in {"pop", "push"} => IsRing(server.ref) BY DEF Talk, Attentive, AtRing, RingOf
<1>2. ASSUME NEW c \in Clients, client[c].pc = "in", Attached(c)
      PROVE  IsRing(CmdRing(c)) /\ IsRing(RespRing(c))
  <2>1. client[c].pc \in Talkers BY <1>2 DEF Talkers, Attends
  <2>2. Owns(who, client[c]) BY <2>1, TalkerOwns
  <2> QED BY <1>2, <2>2, AttachedRings DEF Owns, Attends
<1> QED BY <1>1, <1>2 DEF Stray

(* Unless the server used a session that was being attached or detached, every session has   *)
(* its commands and responses in order.                                                      *)
Told ==
  smashed \/ dangling \/ met \/ (~stray /\ \E who, at : Mem(who, at) /\ Proper /\ Talk(who))

LEMMA MetStays == EngineNext /\ met => met'
<1> SUFFICES ASSUME EngineNext, met PROVE met' OBVIOUS
<1>1. ASSUME NEW c \in Clients, ClientStep(c) PROVE met'
  BY <1>1 DEF ClientStep, create_session, find_free_slot, WriteId, CountUp, OpenEventfd, AllocateRings,
     PublishRings, detach_session, remove_session, CountDown, FreeRings, PushCommand, PopResponse,
     Sleep, Wake, ack_notifications, history
<1>2. CASE ServerStep
  BY <1>2 DEF ServerStep, get_cmd_ring, try_get_command, process_command, AllocateReply,
     get_resp_ring, PushReply, Notify, Signal, history
<1>3. CASE Others
  BY <1>3 DEF Others, Direct, Stray, TimePasses, cleanup_stale_sessions, SweepLook, SweepDrop,
     SweepEnds, history
<1> QED BY <1>1, <1>2, <1>3 DEF EngineNext, Others

LEMMA StrayStays == EngineNext /\ ~Stray => stray' = stray
<1> SUFFICES ASSUME EngineNext, ~Stray PROVE stray' = stray OBVIOUS
<1>1. ASSUME NEW c \in Clients, ClientStep(c) PROVE stray' = stray
  BY <1>1 DEF ClientStep, create_session, find_free_slot, WriteId, CountUp, OpenEventfd, AllocateRings,
     PublishRings, detach_session, remove_session, CountDown, FreeRings, PushCommand, PopResponse,
     Sleep, Wake, ack_notifications, history
<1>2. CASE ServerStep
  BY <1>2 DEF ServerStep, get_cmd_ring, try_get_command, process_command, AllocateReply,
     get_resp_ring, PushReply, Notify, Signal, history
<1>3. CASE Others
  BY <1>3 DEF Others, Direct, TimePasses, cleanup_stale_sessions, SweepLook, SweepDrop,
     SweepEnds, history
<1> QED BY <1>1, <1>2, <1>3 DEF EngineNext, Others

LEMMA ToldNext == Base /\ Sess /\ Told /\ [EngineNext]_<<kvVars, engineVars>> => Told'
<1> SUFFICES ASSUME Base, Sess, Told, [EngineNext]_<<kvVars, engineVars>>, ~smashed', ~dangling', ~met'
             PROVE  Told'
  BY DEF Told
<1>1. ~smashed /\ ~dangling /\ ~met
  <2>1. CASE UNCHANGED <<kvVars, engineVars>> BY <2>1 DEF kvVars, arenaVars, engineVars, history
  <2>2. CASE EngineNext BY <2>2, AllDefined, DanglingStays, MetStays DEF Defined, Called
  <2> QED BY <2>1, <2>2
<1>2. ~stray /\ \E who, at : Mem(who, at) /\ Proper /\ Talk(who) BY <1>1 DEF Told
<1>3. PICK who, at : Mem(who, at) /\ Proper /\ Talk(who) BY <1>2
<1>4. ~Stray BY <1>3, NoStray
<1>5. ~stray'
  <2>1. CASE UNCHANGED <<kvVars, engineVars>> BY <1>2, <2>1 DEF engineVars, history
  <2>2. CASE EngineNext BY <1>2, <1>4, <2>2, StrayStays
  <2> QED BY <2>1, <2>2
<1>6. ASSUME NEW who1, NEW at1, Mem(who1, at1)', Proper', Talk(who1)' PROVE Told'
  BY <1>5, <1>6 DEF Told
<1>7. CASE UNCHANGED <<kvVars, engineVars>>
  <2>1. UNCHANGED <<kvVars, client, server, slots, next_session_id>> BY <1>7 DEF engineVars, registry
  <2>2. Serving' /\ Named' BY <1>3, <2>1, ServingSame DEF Proper, Named
  <2>3. MemStep(who, {}) /\ Proper' BY <1>3, <2>1, <2>2, ProperStill
  <2>4. PICK who1, at1 : Mem(who1, at1)' /\ Frame(who, who1, {}) BY <2>3 DEF MemStep
  <2>5. Talk(who1)' BY <1>3, <2>1, <2>4, TalkOthers
  <2> QED BY <1>6, <2>3, <2>4, <2>5
<1>8. CASE Others
  <2>1. MemStep(who, {}) /\ Proper' /\ UNCHANGED <<server, client>> BY <1>3, <1>8, ProperOthers
  <2>2. UNCHANGED next_session_id
    BY <1>8 DEF Others, Direct, Stray, TimePasses, cleanup_stale_sessions, SweepLook, SweepDrop,
       SweepEnds, registry
  <2>3. PICK who1, at1 : Mem(who1, at1)' /\ Frame(who, who1, {}) BY <2>1 DEF MemStep
  <2>4. Talk(who1)' BY <1>3, <2>1, <2>2, <2>3, TalkOthers
  <2> QED BY <1>6, <2>1, <2>3, <2>4
<1>9. CASE ServerStep
  <2>1. ASSUME NEW i \in DOMAIN slots, get_cmd_ring(i) PROVE Told'
    <3>1. MemStep(who, {}) /\ Proper' BY <1>3, <2>1, ProperTake
    <3>2. PICK who1, at1 : Mem(who1, at1)' /\ Frame(who, who1, {}) BY <3>1 DEF MemStep
    <3> QED BY <1>3, <1>6, <2>1, <3>1, <3>2, TalkTake
  <2>2. CASE try_get_command BY <1>3, <1>6, <2>2, ProperFetch, TalkFetch
  <2>3. CASE process_command
    <3>1. MemStep(who, {}) /\ Proper' BY <1>3, <2>3, ProperProcess
    <3>2. PICK who1, at1 : Mem(who1, at1)' /\ Frame(who, who1, {}) BY <3>1 DEF MemStep
    <3> QED BY <1>3, <1>6, <2>3, <3>1, <3>2, TalkProcess
  <2>4. CASE AllocateReply BY <1>3, <1>6, <2>4, ProperAnswer, TalkAnswer
  <2>5. CASE get_resp_ring
    <3>1. MemStep(who, {}) /\ Proper' BY <1>3, <2>5, ProperFind
    <3>2. PICK who1, at1 : Mem(who1, at1)' /\ Frame(who, who1, {}) BY <3>1 DEF MemStep
    <3> QED BY <1>3, <1>6, <2>5, <3>1, <3>2, TalkFind
  <2>6. CASE PushReply BY <1>3, <1>6, <2>6, ProperReply, TalkReply
  <2>7. CASE Notify \/ Signal
    <3>1. /\ MemStep(who, {}) /\ Proper' /\ UNCHANGED client
          /\ server' = Resting \/ (server.pc = "notify" /\ Moved(server, "signal"))
      BY <1>3, <2>7, ProperNotify, ProperSignal
    <3>2. PICK who1, at1 : Mem(who1, at1)' /\ Frame(who, who1, {}) BY <3>1 DEF MemStep
    <3>3. UNCHANGED next_session_id BY <2>7 DEF Notify, Signal
    <3>4. Talk(who1)' BY <1>3, <3>1, <3>2, <3>3, TalkRests
    <3> QED BY <1>6, <3>1, <3>2, <3>4
  <2> QED BY <1>9, <2>1, <2>2, <2>3, <2>4, <2>5, <2>6, <2>7 DEF ServerStep
<1>10. ASSUME NEW c \in Clients, ClientStep(c) PROVE Told'
  <2>1. CASE NotIn(c)
    <3>1. MemStep(who, {}) /\ Proper' BY <1>3, <2>1, ProperNotIn
    <3>2. PICK who1, at1 : Mem(who1, at1)' /\ Frame(who, who1, {}) BY <3>1 DEF MemStep
    <3> QED BY <1>3, <1>6, <2>1, <3>1, <3>2, TalkNotIn
  <2>2. ASSUME NEW command \in Requests, PushCommand(c, command) PROVE Told'
    <3>1. MemStep(who, {CmdRing(c)}) /\ Proper' BY <1>3, <2>2, ProperPush
    <3>2. PICK who1, at1 : Mem(who1, at1)' /\ Frame(who, who1, {CmdRing(c)}) BY <3>1 DEF MemStep
    <3> QED BY <1>3, <1>6, <2>2, <3>1, <3>2, TalkPush
  <2>3. CASE PopResponse(c)
    <3>1. MemStep(who, {RespRing(c)}) /\ Proper' BY <1>3, <2>3, ProperPop
    <3>2. PICK who1, at1 : Mem(who1, at1)' /\ Frame(who, who1, {RespRing(c)}) BY <3>1 DEF MemStep
    <3> QED BY <1>3, <1>6, <2>3, <3>1, <3>2, TalkPop
  <2>4. CASE AllocateRings(c)
    <3>1. MemStep(who, {}) /\ Proper' BY <1>3, <2>4, ProperAllocate
    <3>2. PICK who1, at1 : Mem(who1, at1)' /\ Frame(who, who1, {}) BY <3>1 DEF MemStep
    <3> QED BY <1>3, <1>6, <2>4, <3>1, <3>2, TalkAllocate
  <2>5. CASE FreeRings(c)
    <3>1. MemStep(who, {client[c].rings[1], client[c].rings[2]}) /\ Proper'
      BY <1>3, <2>5, ProperFree
    <3>2. PICK who1, at1 : /\ Mem(who1, at1)'
                           /\ Frame(who, who1, {client[c].rings[1], client[c].rings[2]})
      BY <3>1 DEF MemStep
    <3> QED BY <1>3, <1>6, <2>5, <3>1, <3>2, TalkFree
  <2> QED BY <1>10, <2>1, <2>2, <2>3, <2>4, <2>5 DEF ClientStep, NotIn
<1> QED BY <1>7, <1>8, <1>9, <1>10 DEF EngineNext, Others

LEMMA ToldInit == EngineInit => Told
<1> SUFFICES ASSUME EngineInit PROVE Told OBVIOUS
<1>1. PICK who, at : Mem(who, at) /\ Proper BY OrderInit
<1>2. server = Resting /\ ~stray /\ \A c \in Clients : client[c] = Outside BY DEF EngineInit
<1>3. server.pc = "idle" BY <1>2 DEF Resting
<1>4. Attentive(who) BY <1>3 DEF Attentive, Busy, AtRing, Refs, Response
<1>5. ASSUME NEW c \in Clients PROVE Talks(who, client[c])
  <2>1. PICK r : r = client[c] OBVIOUS
  <2>2. r.sent = 0 /\ r.got = << >> /\ r.pc = "out" BY <1>2, <2>1 DEF Outside
  <2>3. Talks(who, r) BY <2>2, SilentGot DEF Talks, Talkers, Attends
  <2> QED BY <2>1, <2>3
<1> QED BY <1>1, <1>2, <1>4, <1>5 DEF Told, Talk

(* For any clients, sessions, rings, commands and arena: as long as the server has not used  *)
(* a session that was being attached or detached, and the arena is in order, a client reads  *)
(* responses to commands of its own session only, in the order in which it sent them and     *)
(* each at most once, and no memory is taken for a ring that is none, although descriptors,  *)
(* rings and blocks are reused, rings and the arena fill up, and sessions are swept while    *)
(* they are served (core.rs:115-258, session.rs:163-388, spsc.rs:50-150).                    *)
THEOREM ClientsReadTheirOwn == EngineSpec => []OwnResponses
<1>1. Told => OwnResponses
  <2> SUFFICES ASSUME Told, ~met, ~dangling, ~smashed
               PROVE  /\ ~stray
                      /\ \A c \in Clients : LET got == client[c].got IN \A n \in DOMAIN got :
                            /\ got[n][1] = "reply" /\ got[n][2] = client[c].id
                            /\ got[n][3] <= client[c].sent
                            /\ \A m \in 1..n - 1 : got[m][3] < got[n][3]
    BY DEF OwnResponses
  <2>1. ~stray /\ \E who, at : Mem(who, at) /\ Proper /\ Talk(who) BY DEF Told
  <2>2. ASSUME NEW c \in Clients, NEW n \in DOMAIN client[c].got
        PROVE  /\ client[c].got[n][1] = "reply" /\ client[c].got[n][2] = client[c].id
               /\ client[c].got[n][3] <= client[c].sent
               /\ \A m \in 1..n - 1 : client[c].got[m][3] < client[c].got[n][3]
    <3>1. PICK r : r = client[c] OBVIOUS
    <3>2. Got(r, r.sent) BY <2>1, <3>1 DEF Talk, Talks
    <3>3. r.got \in Seq(Replies) /\ n \in 1..Len(r.got) BY <2>2, <3>1, <3>2 DEF Got
    <3>4. r.got[n] \in Replies BY <3>3
    <3>5. r.got[n][1] = "reply" BY <3>4 DEF Replies
    <3> QED BY <3>1, <3>2, <3>3, <3>5 DEF Got
  <2> QED BY <2>1, <2>2
<1> QED BY <1>1, ToldInit, BalanceInit, BalanceNext, SessInit, SessNext, ToldNext, PTL DEF EngineSpec

-----------------------------------------------------------------------------
(* Notifications.  The descriptor of a session being attached is its own, and has no counter *)
(* unless one was inherited; later a counter that is not zero means that the eventfd can be  *)
(* read or that the server is about to signal it, and a client that sleeps over a response   *)
(* has such a counter or is about to be notified.                                            *)
Enters == {"touch", "count", "allocate", "publish"}
Watched == Enters \cup {"in", "asleep"}

OwnSlot(r) ==
  /\ r.slot \in 1..MaxSessions /\ slots[r.slot].id = r.id
  /\ r.inherited \/ slots[r.slot].pending = 0
Signalled(r, i) ==
  slots[i].pending # 0 =>
    slots[i].eventfd # 0 \/ (server.pc = "signal" /\ server.id = r.id /\ server.ref = i)
Notified(r, i) ==
  Queue(r.rings[2]) # << >> => slots[i].pending # 0 \/ (server.pc = "notify" /\ server.id = r.id)

Roused(r) ==
  /\ r.pc \in Enters => OwnSlot(r)
  /\ r.pc \in {"in", "asleep"} /\ ~r.inherited =>
       \A i \in 1..MaxSessions : slots[i].id = r.id => Signalled(r, i)
  /\ r.pc = "asleep" /\ ~r.inherited =>
       \A i \in 1..MaxSessions : slots[i].id = r.id => Notified(r, i)

Pending == \A i \in 1..MaxSessions : slots[i].pending \in Nat
Rouse == Pending /\ \A c \in Clients : Roused(client[c])

(* A step that leaves the descriptor and the ring of a session, and the server's part in it. *)
Spares(r) ==
  /\ \A i \in 1..MaxSessions : slots'[i].id = r.id =>
       /\ slots[i].id = r.id /\ slots'[i].pending = slots[i].pending
       /\ slots[i].eventfd # 0 => slots'[i].eventfd # 0
  /\ r.pc \in Enters => slots'[r.slot].id = r.id /\ slots'[r.slot].pending = slots[r.slot].pending
RingStays(r) == r.pc = "asleep" => Queue(r.rings[2])' = Queue(r.rings[2])
Undisturbed == server' = server \/ server.pc \notin {"notify", "signal"}

LEMMA RousedKept ==
  ASSUME NEW r, Roused(r), r.pc \in Watched => Spares(r) /\ RingStays(r), Undisturbed
  PROVE  Roused(r)'
<1>1. r.pc \in Enters => OwnSlot(r)' BY DEF Roused, Watched, Spares, OwnSlot
<1>2. ASSUME r.pc \in {"in", "asleep"}, ~r.inherited, NEW i \in 1..MaxSessions, slots'[i].id = r.id
      PROVE  Signalled(r, i)'
  <2>1. /\ slots[i].id = r.id /\ slots'[i].pending = slots[i].pending
        /\ slots[i].eventfd # 0 => slots'[i].eventfd # 0
    BY <1>2 DEF Watched, Spares
  <2>2. Signalled(r, i) BY <1>2, <2>1 DEF Roused
  <2> QED BY <2>1, <2>2 DEF Signalled, Undisturbed
<1>3. ASSUME r.pc = "asleep", ~r.inherited, NEW i \in 1..MaxSessions, slots'[i].id = r.id
      PROVE  Notified(r, i)'
  <2>1. slots[i].id = r.id /\ slots'[i].pending = slots[i].pending BY <1>3 DEF Watched, Spares
  <2>2. Notified(r, i) BY <1>3, <2>1 DEF Roused
  <2>3. Queue(r.rings[2])' = Queue(r.rings[2]) BY <1>3 DEF Watched, RingStays
  <2> QED BY <2>1, <2>2, <2>3 DEF Notified, Undisturbed
<1> QED BY <1>1, <1>2, <1>3 DEF Roused

LEMMA SameSpares == ASSUME UNCHANGED slots, NEW r, Roused(r) PROVE Spares(r)
BY DEF Spares, Roused, OwnSlot

LEMMA WatchedKnown == \A r : r.pc \in Watched => Known(r)
BY DEF Watched, Enters, Known

(* Client c changes descriptors with its own id only. *)
SlotsOf(c) ==
  /\ \A j \in 1..MaxSessions : slots[j].id # client[c].id => slots'[j] = slots[j]
  /\ \A j \in 1..MaxSessions : slots[j].id = client[c].id => slots'[j].id \in {client[c].id, 0}

LEMMA OtherSpares ==
  ASSUME Base, Sess, NEW c \in Clients, SlotsOf(c), Known(client[c]), NEW d \in Clients, d # c,
         NEW r, r = client[d], Roused(r), r.pc \in Watched
  PROVE  Spares(r)
<1>1. r.id # client[c].id /\ r.id # 0 BY WatchedKnown, KnownHasId DEF Sess
<1>2. \A i \in 1..MaxSessions : slots'[i].id = r.id => slots'[i] = slots[i]
  BY <1>1 DEF SlotsOf
<1>3. r.pc \in Enters => slots'[r.slot] = slots[r.slot]
  BY <1>1 DEF Roused, OwnSlot, SlotsOf
<1>4. r.pc \in Enters => slots[r.slot].id = r.id BY DEF Roused, OwnSlot
<1> QED BY <1>2, <1>3, <1>4 DEF Spares

(* The queue of a client that sleeps. *)
LEMMA QueueStays ==
  ASSUME NEW who, NEW at, Mem(who, at), NEW who1, NEW X, Frame(who, who1, X), NEW c \in Clients,
         NEW r, r = client[c], r.pc = "asleep" => r.rings[2] \notin X
  PROVE  RingStays(r)
<1> SUFFICES ASSUME r.pc = "asleep" PROVE memory'[r.rings[2]] = memory[r.rings[2]]
  BY DEF RingStays, Queue
<1>1. client[c].pc \in Talkers BY DEF Talkers, Attends
<1>2. Owns(who, r) BY <1>1, TalkerOwns
<1> QED BY <1>2, Owners DEF Owns, Frame

LEMMA QueueSame == ASSUME UNCHANGED memory, NEW r PROVE RingStays(r)
BY DEF RingStays, Queue

(* A step of client c that leaves the queues of the others. *)
LEMMA RouseMoves ==
  ASSUME Base, Sess, Rouse, Pending', NEW c \in Clients, Moves(c), UNCHANGED server,
         NEW who, NEW at, Mem(who, at), NEW who1, NEW X, Frame(who, who1, X),
         \A d \in Clients \ {c} : client[d].pc = "asleep" => client[d].rings[2] \notin X,
         \A d \in Clients \ {c} : client[d].pc \in Watched => Spares(client[d]),
         Roused(client[c])'
  PROVE  Rouse'
<1>1. ASSUME NEW d \in Clients, d # c PROVE Roused(client[d])'
  <2>1. PICK r : r = client[d] /\ client'[d] = r BY <1>1 DEF Moves
  <2>2. RingStays(r) BY <1>1, <2>1, QueueStays
  <2>3. Roused(r) BY <2>1 DEF Rouse
  <2>4. r.pc \in Watched => Spares(r) BY <1>1, <2>1 DEF Spares
  <2>5. Roused(r)' BY <2>2, <2>3, <2>4, RousedKept DEF Undisturbed
  <2> QED BY <2>1, <2>5
<1> QED BY <1>1 DEF Rouse

Spared(c) == \A d \in Clients \ {c} : client[d].pc \in Watched => Spares(client[d])

LEMMA NotWatched == ASSUME NEW c, client'[c].pc \notin Watched PROVE Roused(client[c])'
BY DEF Roused, Watched, Enters

LEMMA SameSpared ==
  ASSUME Rouse, NEW c \in Clients, UNCHANGED slots PROVE Spared(c) /\ Pending'
<1>1. ASSUME NEW d \in Clients PROVE Spares(client[d])
  <2>1. PICK r : r = client[d] OBVIOUS
  <2>2. Spares(r) BY <2>1, SameSpares DEF Rouse
  <2> QED BY <2>1, <2>2 DEF Spares
<1> QED BY <1>1 DEF Spared, Rouse, Pending

LEMMA OwnSpared ==
  ASSUME Base, Sess, Rouse, NEW c \in Clients, SlotsOf(c), Known(client[c]) PROVE Spared(c)
<1>1. ASSUME NEW d \in Clients, d # c, client[d].pc \in Watched PROVE Spares(client[d])
  <2>1. PICK r : r = client[d] OBVIOUS
  <2>2. Roused(r) BY <2>1 DEF Rouse
  <2>3. Spares(r) BY <1>1, <2>1, <2>2, OtherSpares
  <2> QED BY <2>1, <2>3 DEF Spares
<1> QED BY <1>1 DEF Spared

Roams(c) == Pending' /\ Roused(client[c])' /\ Spared(c)

LEMMA RoamWrite ==
  ASSUME Base, Sess, Rouse, NEW c \in Clients, WriteId(c), ~crossed' PROVE Roams(c)
<1>1. /\ client[c].pc = "write" /\ client'[c].pc = "touch" /\ client[c].slot \in 1..MaxSessions
      /\ client'[c].id = next_session_id /\ client'[c].slot = client[c].slot
      /\ client'[c].inherited = (slots[client[c].slot].pending # 0)
      /\ slots'[client[c].slot].id = next_session_id
      /\ slots'[client[c].slot].pending = slots[client[c].slot].pending
      /\ \A j \in 1..MaxSessions : j # client[c].slot => slots'[j] = slots[j]
  BY WriteIdShape
<1>2. slots[client[c].slot].id = 0 BY DEF WriteId
<1>3. Pending' BY <1>1 DEF Rouse, Pending
<1>4. PICK s : s = client'[c] OBVIOUS
<1>5. OwnSlot(s)' BY <1>1, <1>4 DEF OwnSlot
<1>6. Roused(s)' BY <1>1, <1>4, <1>5 DEF Roused
<1>7. Roused(client[c])' BY <1>4, <1>6
<1>8. ASSUME NEW d \in Clients, d # c, client[d].pc \in Watched PROVE Spares(client[d])
  <2>1. PICK r : r = client[d] OBVIOUS
  <2>2. Known(r) /\ r.id # 0 /\ r.id < next_session_id /\ r.id \in Nat /\ next_session_id \in Nat
    BY <1>8, <2>1, WatchedKnown, KnownHasId DEF Sess, Fit, Base, Registry
  <2>3. r.id # next_session_id BY <2>2
  <2>4. \A i \in 1..MaxSessions : slots'[i].id = r.id => slots'[i] = slots[i] BY <1>1, <2>3
  <2>5. r.pc \in Enters => r.slot \in 1..MaxSessions /\ slots[r.slot].id = r.id
    BY <2>1 DEF Rouse, Roused, OwnSlot
  <2>6. r.pc \in Enters => slots'[r.slot] = slots[r.slot] BY <1>1, <1>2, <2>2, <2>5
  <2>7. Spares(r) BY <2>4, <2>5, <2>6 DEF Spares
  <2> QED BY <2>1, <2>7 DEF Spares
<1> QED BY <1>3, <1>7, <1>8 DEF Roams, Spared

(* A call of an attachment that leaves its descriptor its own. *)
LEMMA StaysOwn ==
  ASSUME NEW c \in Clients, Rouse, client[c].pc \in Enters, client'[c].pc \in Enters,
         client'[c].id = client[c].id, client'[c].slot = client[c].slot,
         client'[c].inherited = client[c].inherited,
         \A i \in 1..MaxSessions : slots'[i].id = slots[i].id /\ slots'[i].pending = slots[i].pending
  PROVE  Roused(client[c])'
<1>1. PICK r : r = client[c] OBVIOUS
<1>2. PICK s : s = client'[c] OBVIOUS
<1>3. OwnSlot(r) BY <1>1 DEF Rouse, Roused
<1>4. OwnSlot(s)' BY <1>1, <1>2, <1>3 DEF OwnSlot
<1>5. s.pc \in Enters /\ s.pc \notin {"in", "asleep"} BY <1>2 DEF Enters
<1>6. Roused(s)' BY <1>4, <1>5 DEF Roused
<1> QED BY <1>2, <1>6

LEMMA RoamOpen ==
  ASSUME Base, Sess, Rouse, NEW c \in Clients, NEW fails \in BOOLEAN, OpenEventfd(c, fails)
  PROVE  Roams(c)
<1>1. /\ client[c].pc = "touch" /\ client'[c].pc = "count" /\ Same(client[c], client'[c]) /\ Fixed
      /\ \A i \in 1..MaxSessions : /\ slots'[i].pending = slots[i].pending
                                   /\ i # client[c].slot => slots'[i] = slots[i]
  BY OpenShape
<1>2. Pending' BY <1>1 DEF Rouse, Pending
<1>3. Roused(client[c])' BY <1>1, StaysOwn DEF Enters, Same, Fixed
<1>4. client[c].slot \in 1..MaxSessions /\ slots[client[c].slot].id = client[c].id
  BY <1>1 DEF Rouse, Roused, OwnSlot, Enters
<1>5. SlotsOf(c) BY <1>1, <1>4 DEF SlotsOf, Fixed
<1>6. Known(client[c]) BY <1>1 DEF Known
<1> QED BY <1>2, <1>3, <1>5, <1>6, OwnSpared DEF Roams

(* A session that is used: no descriptor of it has a counter without a signal. *)
LEMMA StartsIn ==
  ASSUME NEW c \in Clients, client'[c].pc = "in",
         ~client'[c].inherited => \A i \in 1..MaxSessions :
             slots'[i].id = client'[c].id => slots'[i].pending = 0
  PROVE  Roused(client[c])'
<1>1. PICK s : s = client'[c] OBVIOUS
<1>2. s.pc = "in" /\ s.pc \notin Enters BY <1>1 DEF Enters
<1>3. ~s.inherited => \A i \in 1..MaxSessions : slots'[i].id = s.id => Signalled(s, i)'
  BY <1>1 DEF Signalled
<1>4. Roused(s)' BY <1>2, <1>3 DEF Roused
<1> QED BY <1>1, <1>4

LEMMA RoamPublish ==
  ASSUME Base, Sess, Rouse, NEW c \in Clients, PublishRings(c) PROVE Roams(c)
<1>1. /\ client[c].pc = "publish" /\ client'[c].pc = "in" /\ Same(client[c], client'[c])
      /\ \A i \in 1..MaxSessions :
           /\ slots'[i].id = slots[i].id /\ slots'[i].pending = slots[i].pending
           /\ slots[i].id # client[c].id => slots'[i] = slots[i]
  BY PublishShape
<1>2. Pending' BY <1>1 DEF Rouse, Pending
<1>3. OwnSlot(client[c]) BY <1>1 DEF Rouse, Roused, Enters
<1>4. \A i \in 1..MaxSessions : slots[i].id = client[c].id => i = client[c].slot
  BY <1>1 DEF Sess, Fit, Entered
<1>5. ~client'[c].inherited =>
        \A i \in 1..MaxSessions : slots'[i].id = client'[c].id => slots'[i].pending = 0
  BY <1>1, <1>3, <1>4 DEF OwnSlot, Same
<1>6. Roused(client[c])' BY <1>1, <1>5, StartsIn
<1>7. SlotsOf(c) BY <1>1 DEF SlotsOf
<1>8. Known(client[c]) BY <1>1 DEF Known
<1> QED BY <1>2, <1>6, <1>7, <1>8, OwnSpared DEF Roams

LEMMA RoamRemove ==
  ASSUME Base, Sess, Rouse, NEW c \in Clients, remove_session(c), ~crossed' PROVE Roams(c)
<1>1. /\ client[c].pc = "drop" /\ client'[c].pc = "discount" /\ client[c].slot \in 1..MaxSessions
      /\ slots'[client[c].slot].id = 0
      /\ \A j \in 1..MaxSessions : j # client[c].slot => slots'[j] = slots[j]
  BY RemoveShape
<1>2. slots[client[c].slot].id = client[c].id BY DEF remove_session
<1>3. slots'[client[c].slot].pending = slots[client[c].slot].pending
  BY <1>1 DEF remove_session, dropped, Base, Registry, SlotFields
<1>4. Pending' BY <1>1, <1>3 DEF Rouse, Pending
<1>5. Roused(client[c])' BY <1>1, NotWatched DEF Watched, Enters
<1>6. SlotsOf(c) BY <1>1, <1>2 DEF SlotsOf
<1>7. Known(client[c]) BY <1>1 DEF Known
<1> QED BY <1>4, <1>5, <1>6, <1>7, OwnSpared DEF Roams

LEMMA RoamWake == ASSUME Base, Sess, Rouse, NEW c \in Clients, Wake(c) PROVE Roams(c)
<1>1. /\ client[c].pc = "asleep" /\ client'[c].pc = "awake" /\ Fixed
      /\ \A j \in 1..MaxSessions : /\ slots'[j].pending = slots[j].pending
                                   /\ slots[j].id # client[c].id => slots'[j] = slots[j]
  BY WakeShape
<1>2. Pending' BY <1>1 DEF Rouse, Pending
<1>3. Roused(client[c])' BY <1>1, NotWatched DEF Watched, Enters
<1>4. SlotsOf(c) BY <1>1 DEF SlotsOf, Fixed
<1>5. Known(client[c]) BY <1>1 DEF Known
<1> QED BY <1>2, <1>3, <1>4, <1>5, OwnSpared DEF Roams

LEMMA RoamAck == ASSUME Base, Sess, Rouse, NEW c \in Clients, ack_notifications(c) PROVE Roams(c)
<1>1. /\ client[c].pc = "awake" /\ client'[c].pc = "in" /\ Fixed
      /\ client'[c].id = client[c].id
      /\ \A i \in 1..MaxSessions : IF slots[i].id = client[c].id THEN slots'[i].pending = 0
                                   ELSE slots'[i] = slots[i]
  BY AckShape
<1>2. Pending' BY <1>1 DEF Rouse, Pending
<1>3. \A i \in 1..MaxSessions : slots'[i].id = client'[c].id => slots'[i].pending = 0
  BY <1>1 DEF Fixed
<1>4. Roused(client[c])' BY <1>1, <1>3, StartsIn
<1>5. SlotsOf(c) BY <1>1 DEF SlotsOf, Fixed
<1>6. Known(client[c]) BY <1>1 DEF Known
<1> QED BY <1>2, <1>4, <1>5, <1>6, OwnSpared DEF Roams

LEMMA RoamSleep ==
  ASSUME Base, Sess, Rouse, NEW c \in Clients, Sleep(c) PROVE Roams(c)
<1>1. client[c].pc = "in" /\ client'[c].pc = "asleep" /\ Same(client[c], client'[c]) BY SleepShape
<1>2. UNCHANGED <<slots, server, memory>> BY DEF Sleep, registry, kvVars, arenaVars
<1>3. Attached(c) /\ Queue(RespRing(c)) = << >> BY DEF Sleep
<1>4. RespRing(c) = client[c].rings[2] BY <1>1, <1>3, AttachedRings DEF Attends
<1>5. PICK r : r = client[c] OBVIOUS
<1>6. PICK s : s = client'[c] OBVIOUS
<1>7. s.pc = "asleep" /\ s.id = r.id /\ s.inherited = r.inherited /\ s.rings = r.rings /\ r.pc = "in"
  BY <1>1, <1>5, <1>6 DEF Same
<1>8. Queue(s.rings[2])' = << >> BY <1>2, <1>3, <1>4, <1>5, <1>7 DEF Queue
<1>9. \A i \in 1..MaxSessions : Notified(s, i)' BY <1>8 DEF Notified
<1>10. ASSUME ~r.inherited, NEW i \in 1..MaxSessions, slots[i].id = r.id PROVE Signalled(s, i)'
  <2>1. Signalled(r, i) BY <1>5, <1>7, <1>10 DEF Rouse, Roused
  <2> QED BY <1>2, <1>7, <2>1 DEF Signalled
<1>11. s.pc \notin Enters BY <1>7 DEF Enters
<1>12. Roused(s)' BY <1>2, <1>7, <1>9, <1>10, <1>11 DEF Roused
<1>13. Roused(client[c])' BY <1>6, <1>12
<1> QED BY <1>2, <1>13, SameSpared DEF Roams

LEMMA RoamElse ==
  ASSUME Base, Sess, Rouse, NEW c \in Clients,
         \/ create_session(c) \/ find_free_slot(c) \/ CountUp(c) \/ detach_session(c) \/ CountDown(c)
  PROVE  Roams(c)
<1>1. UNCHANGED slots
  BY DEF create_session, find_free_slot, CountUp, detach_session, CountDown, registry
<1>2. Spared(c) /\ Pending' BY <1>1, SameSpared
<1>3. Roused(client[c])'
  <2>1. CASE create_session(c)
    <3> DEFINE r == [Outside EXCEPT !.pc = "find"]
    <3>1. client' = [client EXCEPT ![c] = r] BY <2>1 DEF create_session
    <3>2. r.pc = "find" BY DEF Outside
    <3> HIDE DEF r
    <3>3. client'[c] = r BY <3>1 DEF Base, Callers
    <3> QED BY <3>2, <3>3, NotWatched DEF Watched, Enters
  <2>2. CASE find_free_slot(c)
    <3>1. client'[c].pc \in {"out", "write"} BY <2>2, FindShape
    <3> QED BY <3>1, NotWatched DEF Watched, Enters
  <2>3. CASE CountUp(c)
    <3>1. client[c].pc = "count" /\ client'[c].pc = "allocate" /\ Same(client[c], client'[c])
      BY <2>3, CountUpShape
    <3> QED BY <1>1, <3>1, StaysOwn DEF Enters, Same
  <2>4. CASE detach_session(c)
    <3>1. client'[c].pc \in {"out", "drop"} BY <2>4, DetachShape, OutsideCaller
    <3> QED BY <3>1, NotWatched DEF Watched, Enters
  <2>5. CASE CountDown(c)
    <3>1. client'[c].pc \in {"out", "free"} BY <2>5, CountDownShape, OutsideCaller
    <3> QED BY <3>1, NotWatched DEF Watched, Enters
  <2> QED BY <2>1, <2>2, <2>3, <2>4, <2>5
<1> QED BY <1>2, <1>3 DEF Roams

LEMMA NotInMoves ==
  ASSUME Base, NEW c \in Clients, NotIn(c) PROVE Moves(c) /\ UNCHANGED server
<1>1. UNCHANGED server
  BY DEF NotIn, create_session, find_free_slot, WriteId, CountUp, OpenEventfd, PublishRings,
     detach_session, remove_session, CountDown, Sleep, Wake, ack_notifications
<1>2. CASE create_session(c) BY <1>1, <1>2, CreateQuiet DEF QuietMove
<1>3. CASE find_free_slot(c) \/ WriteId(c) \/ CountUp(c) \/ PublishRings(c) \/ detach_session(c)
  BY <1>1, <1>3, FindShape, WriteIdShape, CountUpShape, PublishShape, DetachShape
<1>4. ASSUME NEW fails \in BOOLEAN, OpenEventfd(c, fails) PROVE Moves(c) BY <1>4, OpenShape
<1>5. CASE remove_session(c) \/ CountDown(c) \/ Sleep(c) \/ Wake(c) \/ ack_notifications(c)
  BY <1>1, <1>5, RemoveShape, CountDownShape, SleepShape, WakeShape, AckShape
<1> QED BY <1>1, <1>2, <1>3, <1>4, <1>5 DEF NotIn

LEMMA RouseNotIn ==
  ASSUME Base, Sess, NEW who, NEW at, Mem(who, at), Proper, Rouse, NEW c \in Clients, NotIn(c), ~crossed'
  PROVE  Rouse'
<1>1. Roams(c)
  BY RoamWrite, RoamOpen, RoamPublish, RoamRemove, RoamWake, RoamAck, RoamSleep, RoamElse DEF NotIn
<1>2. PICK who1, at1 : Mem(who1, at1)' /\ Frame(who, who1, {}) BY ProperNotIn DEF MemStep
<1>3. Moves(c) /\ UNCHANGED server BY NotInMoves
<1>4. \A d \in Clients \ {c} : client[d].pc \in Watched => Spares(client[d]) BY <1>1 DEF Roams, Spared
<1>5. \A d \in Clients \ {c} : client[d].pc = "asleep" => client[d].rings[2] \notin {} OBVIOUS
<1> QED BY <1>1, <1>2, <1>3, <1>4, <1>5, RouseMoves DEF Roams

(* Another client's ring of responses is not one of these. *)
LEMMA SleeperApart ==
  ASSUME Sess, NEW who, NEW at, Mem(who, at), NEW c \in Clients, Known(client[c]), Owns(who, client[c])
  PROVE  \A d \in Clients \ {c} : client[d].pc = "asleep" =>
           client[d].rings[2] # client[c].rings[1] /\ client[d].rings[2] # client[c].rings[2]
<1> SUFFICES ASSUME NEW d \in Clients, d # c, client[d].pc = "asleep"
             PROVE  client[d].rings[2] # client[c].rings[1] /\ client[d].rings[2] # client[c].rings[2]
  OBVIOUS
<1>1. client[d].pc \in Talkers BY DEF Talkers, Attends
<1>2. Owns(who, client[d]) /\ Known(client[d]) BY <1>1, TalkerOwns
<1>3. client[d].id # client[c].id BY <1>2 DEF Sess
<1> QED BY <1>2, <1>3, OtherRings

(* A client at its rings, between its calls. *)
LEMMA StaysIn ==
  ASSUME NEW c \in Clients, Rouse, client[c].pc = "in", client'[c].pc = "in", UNCHANGED <<slots, server>>,
         client'[c].id = client[c].id, client'[c].inherited = client[c].inherited
  PROVE  Roused(client[c])'
<1>1. PICK r : r = client[c] OBVIOUS
<1>2. PICK s : s = client'[c] OBVIOUS
<1>3. r.pc = "in" /\ s.pc = "in" /\ s.id = r.id /\ s.inherited = r.inherited BY <1>1, <1>2
<1>4. ASSUME ~r.inherited, NEW i \in 1..MaxSessions, slots[i].id = r.id PROVE Signalled(s, i)'
  <2>1. Signalled(r, i) BY <1>1, <1>3, <1>4 DEF Rouse, Roused
  <2> QED BY <1>3, <2>1 DEF Signalled
<1>5. s.pc \notin Enters BY <1>3 DEF Enters
<1>6. Roused(s)' BY <1>3, <1>4, <1>5 DEF Roused
<1> QED BY <1>2, <1>6

LEMMA RouseUse ==
  ASSUME Base, Sess, NEW who, NEW at, Mem(who, at), Proper, Rouse, NEW c \in Clients,
         (\E command \in Requests : PushCommand(c, command)) \/ PopResponse(c)
  PROVE  Rouse'
<1>1. client[c].pc = "in" /\ Attached(c) /\ UNCHANGED <<slots, server>>
  BY DEF PushCommand, PopResponse, At, registry
<1>2. /\ Moves(c) /\ client'[c].pc = "in" /\ client'[c].id = client[c].id
      /\ client'[c].inherited = client[c].inherited
  BY PushShape, PopShape
<1>3. CmdRing(c) = client[c].rings[1] /\ RespRing(c) = client[c].rings[2]
  BY <1>1, AttachedRings DEF Attends
<1>4. PICK o \in {client[c].rings[1], client[c].rings[2]} : MemStep(who, {o})
  BY <1>3, ProperPush, ProperPop
<1>5. PICK who1, at1 : Mem(who1, at1)' /\ Frame(who, who1, {o}) BY <1>4 DEF MemStep
<1>6. Known(client[c]) /\ Owns(who, client[c])
  BY <1>1, TalkerOwns DEF Talkers, Attends
<1>7. \A d \in Clients \ {c} : client[d].pc = "asleep" => client[d].rings[2] \notin {o}
  BY <1>6, SleeperApart
<1>8. Roused(client[c])' BY <1>1, <1>2, StaysIn
<1>9. Spared(c) /\ Pending' BY <1>1, SameSpared
<1>10. \A d \in Clients \ {c} : client[d].pc \in Watched => Spares(client[d]) BY <1>9 DEF Spared
<1> QED BY <1>1, <1>2, <1>5, <1>7, <1>8, <1>9, <1>10, RouseMoves

LEMMA RouseAllocate ==
  ASSUME Base, Sess, NEW who, NEW at, Mem(who, at), Proper, Rouse, NEW c \in Clients, AllocateRings(c)
  PROVE  Rouse'
<1>1. client[c].pc = "allocate" /\ UNCHANGED <<slots, server>> BY DEF AllocateRings, At, registry
<1>2. PICK got, rings : Allocates(c, got, rings) BY DEF AllocateRings, Allocates
<1>3. /\ Moves(c) /\ client'[c].pc \in {"publish", "remove"} /\ client'[c].id = client[c].id
      /\ client'[c].slot = client[c].slot /\ client'[c].inherited = client[c].inherited
  BY <1>1, <1>2, AllocateShape
<1>6. Roused(client[c])'
  <2>1. CASE client'[c].pc = "publish" BY <1>1, <1>3, <2>1, StaysOwn DEF Enters
  <2>2. CASE client'[c].pc = "remove" BY <2>2, NotWatched DEF Watched, Enters
  <2> QED BY <1>3, <2>1, <2>2
<1>7. PICK who1, at1 : Mem(who1, at1)' /\ Frame(who, who1, {}) BY ProperAllocate DEF MemStep
<1>8. Spared(c) /\ Pending' BY <1>1, SameSpared
<1>9. \A d \in Clients \ {c} : client[d].pc \in Watched => Spares(client[d]) BY <1>8 DEF Spared
<1>10. \A d \in Clients \ {c} : client[d].pc = "asleep" => client[d].rings[2] \notin {} OBVIOUS
<1> QED BY <1>1, <1>3, <1>6, <1>7, <1>8, <1>9, <1>10, RouseMoves

LEMMA RouseFree ==
  ASSUME Base, Sess, NEW who, NEW at, Mem(who, at), Proper, Rouse, NEW c \in Clients, FreeRings(c),
         ~smashed'
  PROVE  Rouse'
<1>1. client[c].pc = "free" /\ Moves(c) /\ client'[c] = Outside BY FreeShape
<1>2. UNCHANGED <<slots, server>> BY DEF FreeRings, registry
<1>3. MemStep(who, {client[c].rings[1], client[c].rings[2]}) /\ Owns(who, client[c]) BY MemFree
<1>4. PICK who1, at1 : Mem(who1, at1)' /\ Frame(who, who1, {client[c].rings[1], client[c].rings[2]})
  BY <1>3 DEF MemStep
<1>5. Known(client[c]) BY <1>1 DEF Known
<1>6. \A d \in Clients \ {c} : client[d].pc = "asleep" =>
        client[d].rings[2] \notin {client[c].rings[1], client[c].rings[2]}
  BY <1>3, <1>5, SleeperApart
<1>7. Roused(client[c])' BY <1>1, OutsideCaller, NotWatched DEF Watched, Enters
<1>8. Spared(c) /\ Pending' BY <1>2, SameSpared
<1>9. \A d \in Clients \ {c} : client[d].pc \in Watched => Spares(client[d]) BY <1>8 DEF Spared
<1> QED BY <1>1, <1>2, <1>4, <1>6, <1>7, <1>8, <1>9, RouseMoves

(* Steps of the server and of the sweep. *)
LEMMA RouseServes ==
  ASSUME Rouse, Pending', UNCHANGED client, Undisturbed, NEW who, NEW at, Mem(who, at),
         NEW who1, NEW X, Frame(who, who1, X),
         \A c \in Clients : client[c].pc = "asleep" => client[c].rings[2] \notin X,
         \A c \in Clients : client[c].pc \in Watched => Spares(client[c])
  PROVE  Rouse'
<1>1. ASSUME NEW c \in Clients PROVE Roused(client[c])'
  <2>1. PICK r : r = client[c] /\ client'[c] = r OBVIOUS
  <2>2. RingStays(r) BY <2>1, QueueStays
  <2>3. Roused(r) BY <2>1 DEF Rouse
  <2>4. r.pc \in Watched => Spares(r) BY <2>1 DEF Spares
  <2>5. Roused(r)' BY <2>2, <2>3, <2>4, RousedKept
  <2> QED BY <2>1, <2>5
<1> QED BY <1>1 DEF Rouse

LEMMA AllSpared ==
  ASSUME Rouse, UNCHANGED slots
  PROVE  Pending' /\ \A c \in Clients : client[c].pc \in Watched => Spares(client[c])
<1>1. ASSUME NEW c \in Clients PROVE Spares(client[c])
  <2>1. PICK r : r = client[c] OBVIOUS
  <2>2. Spares(r) BY <2>1, SameSpares DEF Rouse
  <2> QED BY <2>1, <2>2 DEF Spares
<1> QED BY <1>1 DEF Rouse, Pending

LEMMA RouseStill ==
  ASSUME Rouse, UNCHANGED <<client, slots>>, Undisturbed, NEW who, NEW at, Mem(who, at), MemStep(who, {})
  PROVE  Rouse'
<1>1. PICK who1, at1 : Mem(who1, at1)' /\ Frame(who, who1, {}) BY DEF MemStep
<1>2. Pending' /\ \A c \in Clients : client[c].pc \in Watched => Spares(client[c]) BY AllSpared
<1>3. \A c \in Clients : client[c].pc = "asleep" => client[c].rings[2] \notin {} OBVIOUS
<1> QED BY <1>1, <1>2, <1>3, RouseServes

LEMMA RouseClock ==
  ASSUME Base, Rouse, NEW who, NEW at, Mem(who, at), MemStep(who, {}), TimePasses PROVE Rouse'
<1>1. PICK who1, at1 : Mem(who1, at1)' /\ Frame(who, who1, {}) BY DEF MemStep
<1>2. /\ Fixed
      /\ \A j \in 1..MaxSessions : slots'[j].pending = slots[j].pending /\ slots'[j].eventfd = slots[j].eventfd
  BY ClockShape
<1>3. UNCHANGED <<client, server>> BY DEF TimePasses
<1>4. Pending' BY <1>2 DEF Rouse, Pending
<1>5. ASSUME NEW c \in Clients PROVE Spares(client[c])
  <2>1. PICK r : r = client[c] OBVIOUS
  <2>2. r.pc \in Enters => r.slot \in 1..MaxSessions /\ slots[r.slot].id = r.id
    BY <2>1 DEF Rouse, Roused, OwnSlot
  <2>3. Spares(r) BY <1>2, <2>2 DEF Spares, Fixed
  <2> QED BY <2>1, <2>3 DEF Spares
<1>6. \A c \in Clients : client[c].pc = "asleep" => client[c].rings[2] \notin {} OBVIOUS
<1> QED BY <1>1, <1>3, <1>4, <1>5, <1>6, RouseServes DEF Undisturbed

LEMMA RouseSweep ==
  ASSUME Base, Sess, Rouse, NEW who, NEW at, Mem(who, at), MemStep(who, {}), SweepDrop, ~crossed'
  PROVE  Rouse'
<1>1. PICK who1, at1 : Mem(who1, at1)' /\ Frame(who, who1, {}) BY DEF MemStep
<1>2. PICK a : a = sweeper.at OBVIOUS
<1>3. /\ a \in 1..MaxSessions /\ slots'[a].id = 0
      /\ \A j \in 1..MaxSessions : j # a => slots'[j] = slots[j]
  BY <1>2, SweepShape
<1>4. slots[a].id = sweeper.id /\ ~Attaching(sweeper.id) BY <1>2 DEF SweepDrop
<1>5. slots'[a].pending = slots[a].pending
  BY <1>2, <1>3 DEF SweepDrop, dropped, Base, Registry, SlotFields
<1>6. UNCHANGED <<client, server>> BY DEF SweepDrop
<1>7. Pending' BY <1>3, <1>5 DEF Rouse, Pending
<1>8. ASSUME NEW c \in Clients, client[c].pc \in Watched PROVE Spares(client[c])
  <2>1. PICK r : r = client[c] OBVIOUS
  <2>2. r.id # 0 BY <1>8, <2>1, WatchedKnown, KnownHasId
  <2>3. \A i \in 1..MaxSessions : slots'[i].id = r.id => slots'[i] = slots[i] BY <1>3, <2>2
  <2>4. r.pc \in Enters => r.slot \in 1..MaxSessions /\ slots[r.slot].id = r.id
    BY <2>1 DEF Rouse, Roused, OwnSlot
  <2>5. r.pc \in Enters => r.slot # a BY <1>4, <2>1, <2>4 DEF Attaching, Enters
  <2>6. r.pc \in Enters => slots'[r.slot] = slots[r.slot] BY <1>3, <2>4, <2>5
  <2>7. Spares(r) BY <2>3, <2>4, <2>6 DEF Spares
  <2> QED BY <2>1, <2>7 DEF Spares
<1>9. \A c \in Clients : client[c].pc = "asleep" => client[c].rings[2] \notin {} OBVIOUS
<1> QED BY <1>1, <1>6, <1>7, <1>8, <1>9, RouseServes DEF Undisturbed

LEMMA RouseOthers ==
  ASSUME Base, Sess, Rouse, NEW who, NEW at, Mem(who, at), Proper, Others, ~smashed', ~dangling', ~crossed'
  PROVE  Rouse'
<1>1. MemStep(who, {}) /\ UNCHANGED <<server, client>> BY ProperOthers
<1>2. CASE TimePasses BY <1>1, <1>2, RouseClock
<1>3. CASE SweepDrop BY <1>1, <1>3, RouseSweep
<1>4. CASE Direct \/ Stray \/ cleanup_stale_sessions \/ SweepLook \/ SweepEnds
  <2>1. UNCHANGED slots
    BY <1>4 DEF Direct, Stray, cleanup_stale_sessions, SweepLook, SweepEnds, registry
  <2> QED BY <1>1, <2>1, RouseStill DEF Undisturbed
<1> QED BY <1>2, <1>3, <1>4 DEF Others

LEMMA RouseFetch ==
  ASSUME Base, Rouse, NEW who, NEW at, Mem(who, at), Proper, Talk(who), try_get_command PROVE Rouse'
<1>1. server.pc = "pop" /\ UNCHANGED <<slots, client>> BY FetchShape DEF Proper
<1>2. PICK o : o = server.ref OBVIOUS
<1>3. who[o] = CmdOf(server.id) BY <1>1, <1>2 DEF Talk, Attentive, AtRing, RingOf
<1>4. MemStep(who, {o}) BY <1>2, ProperFetch
<1>5. PICK who1, at1 : Mem(who1, at1)' /\ Frame(who, who1, {o}) BY <1>4 DEF MemStep
<1>6. ASSUME NEW c \in Clients, client[c].pc = "asleep" PROVE client[c].rings[2] \notin {o}
  <2>1. Owns(who, client[c]) BY <1>6, TalkerOwns DEF Talkers, Attends
  <2> QED BY <1>3, <2>1, Owners DEF Owns
<1>7. Pending' /\ \A c \in Clients : client[c].pc \in Watched => Spares(client[c]) BY <1>1, AllSpared
<1>8. Undisturbed BY <1>1 DEF Undisturbed
<1> QED BY <1>1, <1>5, <1>6, <1>7, <1>8, RouseServes

LEMMA RouseReply ==
  ASSUME Base, Rouse, NEW who, NEW at, Mem(who, at), Proper, Talk(who), PushReply PROVE Rouse'
<1>1. /\ server.pc = "push" /\ UNCHANGED <<slots, client>>
      /\ (server' = Resting /\ UNCHANGED memory) \/ Moved(server, "notify")
  BY ReplyShape DEF Proper
<1>2. PICK o : o = server.ref OBVIOUS
<1>3. who[o] = RespOf(server.id) BY <1>1, <1>2 DEF Talk, Attentive, AtRing, RingOf
<1>4. MemStep(who, {o}) BY <1>2, ProperReply
<1>5. PICK who1, at1 : Mem(who1, at1)' /\ Frame(who, who1, {o}) BY <1>4 DEF MemStep
<1>6. Undisturbed BY <1>1 DEF Undisturbed
<1>7. ASSUME NEW c \in Clients PROVE Roused(client[c])'
  <2>1. PICK r : r = client[c] /\ client'[c] = r BY <1>1
  <2>2. Roused(r) BY <2>1 DEF Rouse
  <2>3. Spares(r) BY <1>1, <2>2, SameSpares
  <2>4. CASE UNCHANGED memory \/ r.id # server.id \/ r.pc # "asleep"
    <3>1. RingStays(r)
      <4>1. CASE UNCHANGED memory BY <4>1, QueueSame
      <4>2. CASE r.id # server.id
        <5>1. r.pc = "asleep" => Owns(who, r) BY <2>1, TalkerOwns DEF Talkers, Attends
        <5>2. r.pc = "asleep" => r.rings[2] \notin {o} BY <1>3, <4>2, <5>1, Owners DEF Owns
        <5> QED BY <1>5, <2>1, <5>2, QueueStays
      <4>3. CASE r.pc # "asleep" BY <4>3 DEF RingStays
      <4> QED BY <2>4, <4>1, <4>2, <4>3
    <3>2. Roused(r)' BY <1>6, <2>2, <2>3, <3>1, RousedKept
    <3> QED BY <2>1, <3>2
  <2>5. CASE ~(UNCHANGED memory) /\ r.id = server.id /\ r.pc = "asleep"
    <3>1. server'.pc = "notify" /\ server'.id = r.id BY <1>1, <2>5 DEF Moved
    <3>2. \A i \in 1..MaxSessions : Notified(r, i)' BY <3>1 DEF Notified
    <3>3. ASSUME ~r.inherited, NEW i \in 1..MaxSessions, slots[i].id = r.id PROVE Signalled(r, i)'
      <4>1. Signalled(r, i) BY <2>2, <2>5, <3>3 DEF Roused
      <4> QED BY <1>1, <4>1 DEF Signalled
    <3>4. r.pc \notin Enters BY <2>5 DEF Enters
    <3>5. Roused(r)' BY <1>1, <3>2, <3>3, <3>4 DEF Roused
    <3> QED BY <2>1, <3>5
  <2> QED BY <2>4, <2>5
<1> QED BY <1>1, <1>7 DEF Rouse, Pending

LEMMA RouseSignal ==
  ASSUME Base, Rouse, NEW who, NEW at, Mem(who, at), Proper, Signal PROVE Rouse'
<1>1. UNCHANGED <<kvVars, client>> BY ProperSignal
<1>2. UNCHANGED <<memory, client>> BY <1>1 DEF kvVars, arenaVars
<1>3. server.pc = "signal" BY DEF Signal, ServerAt
<1>4. PICK k : k = server.ref OBVIOUS
<1>5. /\ Fixed /\ \A j \in 1..MaxSessions : slots'[j].pending = slots[j].pending
      /\ \A j \in 1..MaxSessions : IF j = k THEN slots'[j].eventfd # 0
                                   ELSE slots'[j].eventfd = slots[j].eventfd
  BY <1>4, SignalShape
<1>6. ASSUME NEW c \in Clients PROVE Roused(client[c])'
  <2>1. PICK r : r = client[c] /\ client'[c] = r BY <1>2
  <2>2. Roused(r) BY <2>1 DEF Rouse
  <2>3. r.pc \in Enters => OwnSlot(r)' BY <1>5, <2>2 DEF Roused, OwnSlot, Fixed
  <2>4. ASSUME r.pc \in {"in", "asleep"}, ~r.inherited, NEW i \in 1..MaxSessions, slots'[i].id = r.id
        PROVE  Signalled(r, i)'
    <3>1. slots[i].id = r.id BY <1>5, <2>4 DEF Fixed
    <3>2. Signalled(r, i) BY <2>2, <2>4, <3>1 DEF Roused
    <3> QED BY <1>4, <1>5, <3>2 DEF Signalled
  <2>5. ASSUME r.pc = "asleep", ~r.inherited, NEW i \in 1..MaxSessions, slots'[i].id = r.id
        PROVE  Notified(r, i)'
    <3>1. slots[i].id = r.id BY <1>5, <2>5 DEF Fixed
    <3>2. Notified(r, i) BY <2>2, <2>5, <3>1 DEF Roused
    <3>3. Queue(r.rings[2])' = Queue(r.rings[2]) BY <1>2 DEF Queue
    <3> QED BY <1>3, <1>5, <3>2, <3>3 DEF Notified
  <2>6. Roused(r)' BY <2>3, <2>4, <2>5 DEF Roused
  <2> QED BY <2>1, <2>6
<1> QED BY <1>5, <1>6 DEF Rouse, Pending

(* The step after it: a counter that was zero is about to be signalled, one that was not had  *)
(* its signal.                                                                               *)
LEMMA NotifyOne ==
  ASSUME Sess, Pending, server.pc = "notify", NEW c \in Clients, NEW r, r = client[c], Roused(r),
         NEW i \in 1..MaxSessions, slots[i].id = server.id, slots'[i].pending = slots[i].pending + 1,
         slots'[i].eventfd = slots[i].eventfd, Fixed,
         \A j \in 1..MaxSessions : j # i => slots'[j] = slots[j], UNCHANGED memory,
         slots[i].pending = 0 => server'.pc = "signal" /\ server'.id = server.id /\ server'.ref = i,
         r.pc \in Enters => r.id # server.id
  PROVE  Roused(r)'
<1>1. slots[i].pending \in Nat /\ slots'[i].pending # 0 BY DEF Pending
<1>2. r.pc \in Enters => r.slot # i /\ OwnSlot(r) BY DEF Roused, OwnSlot
<1>3. r.pc \in Enters => OwnSlot(r)' BY <1>2 DEF OwnSlot
<1>4. ASSUME r.pc \in {"in", "asleep"}, ~r.inherited, NEW j \in 1..MaxSessions, slots'[j].id = r.id
      PROVE  Signalled(r, j)'
  <2>1. slots[j].id = r.id BY <1>4 DEF Fixed
  <2>2. Signalled(r, j) BY <1>4, <2>1 DEF Roused
  <2>3. CASE j = i BY <2>1, <2>2, <2>3 DEF Signalled
  <2>4. CASE j # i BY <2>2, <2>4 DEF Signalled
  <2> QED BY <2>3, <2>4
<1>5. ASSUME r.pc = "asleep", ~r.inherited, NEW j \in 1..MaxSessions, slots'[j].id = r.id
      PROVE  Notified(r, j)'
  <2>1. slots[j].id = r.id BY <1>5 DEF Fixed
  <2>2. Notified(r, j) BY <1>5, <2>1 DEF Roused
  <2>3. CASE j = i BY <1>1, <2>3 DEF Notified
  <2>4. CASE j # i
    <3>1. r.id # server.id
      <4>1. r.pc \in Entered BY <1>5 DEF Entered, Attends
      <4>2. \A l \in 1..MaxSessions : slots[l].id = r.id => l = r.slot BY <4>1 DEF Sess, Fit
      <4> QED BY <2>1, <2>4, <4>2
    <3>2. Queue(r.rings[2])' = Queue(r.rings[2]) BY DEF Queue
    <3> QED BY <2>2, <2>4, <3>1, <3>2 DEF Notified
  <2> QED BY <2>3, <2>4
<1> QED BY <1>3, <1>4, <1>5 DEF Roused

LEMMA NotifyNone ==
  ASSUME server.pc = "notify", NEW r, Roused(r), \A i \in 1..MaxSessions : slots[i].id # server.id,
         UNCHANGED <<slots, memory>>
  PROVE  Roused(r)'
<1>1. r.pc \in Enters => OwnSlot(r)' BY DEF Roused, OwnSlot
<1>2. ASSUME r.pc \in {"in", "asleep"}, ~r.inherited, NEW j \in 1..MaxSessions, slots[j].id = r.id
      PROVE  Signalled(r, j)'
  <2>1. Signalled(r, j) BY <1>2 DEF Roused
  <2> QED BY <2>1 DEF Signalled
<1>3. ASSUME r.pc = "asleep", ~r.inherited, NEW j \in 1..MaxSessions, slots[j].id = r.id
      PROVE  Notified(r, j)'
  <2>1. Notified(r, j) BY <1>3 DEF Roused
  <2>2. Queue(r.rings[2])' = Queue(r.rings[2]) BY DEF Queue
  <2>3. r.id # server.id BY <1>3
  <2> QED BY <2>1, <2>2, <2>3 DEF Notified
<1> QED BY <1>1, <1>2, <1>3 DEF Roused

LEMMA RouseNotify ==
  ASSUME Base, Sess, Rouse, NEW who, NEW at, Mem(who, at), Proper, Talk(who), Notify PROVE Rouse'
<1>1. server.pc = "notify" /\ UNCHANGED <<kvVars, client>> BY ProperNotify
<1>2. UNCHANGED <<memory, client>> BY <1>1 DEF kvVars, arenaVars
<1>3. CASE \A i \in 1..MaxSessions : slots[i].id # server.id
  <2>1. UNCHANGED slots BY <1>3, NotifyShape
  <2>2. ASSUME NEW c \in Clients PROVE Roused(client[c])'
    <3>1. PICK r : r = client[c] /\ client'[c] = r BY <1>2
    <3>2. Roused(r)' BY <1>1, <1>2, <1>3, <2>1, <3>1, NotifyNone DEF Rouse
    <3> QED BY <3>1, <3>2
  <2> QED BY <2>1, <2>2 DEF Rouse, Pending
<1>4. CASE ~\A i \in 1..MaxSessions : slots[i].id # server.id
  <2>1. Fixed BY NotifyShape
  <2>2. PICK i \in 1..MaxSessions :
          /\ slots[i].id = server.id /\ slots'[i].pending = slots[i].pending + 1
          /\ slots'[i].eventfd = slots[i].eventfd
          /\ \A j \in 1..MaxSessions : j # i => slots'[j] = slots[j]
          /\ server' = IF first_pending(slots[i].pending)
                       THEN [server EXCEPT !.pc = "signal", !.ref = i] ELSE Resting
    BY <1>4, NotifyShape
  <2>3. slots[i].pending = 0 => server'.pc = "signal" /\ server'.id = server.id /\ server'.ref = i
    BY <2>2 DEF first_pending, Proper, Serving, ServerFields
  <2>4. ~Attaching(server.id) BY <1>1 DEF Talk, Attentive, Busy
  <2>5. ASSUME NEW c \in Clients PROVE Roused(client[c])'
    <3>1. PICK r : r = client[c] /\ client'[c] = r BY <1>2
    <3>2. r.pc \in Enters => r.id # server.id BY <2>4, <3>1 DEF Attaching, Enters
    <3>3. Roused(r) /\ Pending BY <3>1 DEF Rouse
    <3>4. Roused(r)' BY <1>1, <1>2, <2>1, <2>2, <2>3, <3>1, <3>2, <3>3, NotifyOne
    <3> QED BY <3>1, <3>4
  <2>6. Pending' BY <2>2 DEF Rouse, Pending
  <2> QED BY <2>5, <2>6 DEF Rouse
<1> QED BY <1>3, <1>4

LEMMA RouseServer ==
  ASSUME Base, Sess, Rouse, NEW who, NEW at, Mem(who, at), Proper, Talk(who), ServerStep,
         ~smashed', ~dangling'
  PROVE  Rouse'
<1>1. ASSUME NEW i \in DOMAIN slots, get_cmd_ring(i) PROVE Rouse'
  <2>1. MemStep(who, {}) BY <1>1, ProperTake
  <2>2. server.pc = "idle" /\ UNCHANGED <<client, slots>> BY <1>1, TakeShape
  <2> QED BY <2>1, <2>2, RouseStill DEF Undisturbed
<1>2. CASE try_get_command BY <1>2, RouseFetch
<1>3. CASE process_command
  <2>1. MemStep(who, {}) BY <1>3, ProperProcess
  <2>2. server.pc = "process" /\ UNCHANGED <<client, slots>> BY <1>3, ProcessShape DEF Proper
  <2> QED BY <2>1, <2>2, RouseStill DEF Undisturbed
<1>4. CASE AllocateReply
  <2>1. MemStep(who, {}) BY <1>4, ProperAnswer
  <2>2. server.pc = "reply" /\ UNCHANGED <<client, slots>> BY <1>4, AnswerShape DEF Proper
  <2> QED BY <2>1, <2>2, RouseStill DEF Undisturbed
<1>5. CASE get_resp_ring
  <2>1. MemStep(who, {}) BY <1>5, ProperFind
  <2>2. server.pc = "find" /\ UNCHANGED <<client, slots>> BY <1>5, FindRingShape DEF Proper
  <2> QED BY <2>1, <2>2, RouseStill DEF Undisturbed
<1>6. CASE PushReply BY <1>6, RouseReply
<1>7. CASE Notify BY <1>7, RouseNotify
<1>8. CASE Signal BY <1>8, RouseSignal
<1> QED BY <1>1, <1>2, <1>3, <1>4, <1>5, <1>6, <1>7, <1>8 DEF ServerStep

(* Unless two calls changed one descriptor at once as well. *)
Wakes == smashed \/ dangling \/ met \/ crossed \/ Rouse

LEMMA CrossedStays == EngineNext /\ crossed => crossed'
<1> SUFFICES ASSUME EngineNext, crossed PROVE crossed' OBVIOUS
<1>1. ASSUME NEW c \in Clients, ClientStep(c) PROVE crossed'
  BY <1>1 DEF ClientStep, create_session, find_free_slot, WriteId, CountUp, OpenEventfd, AllocateRings,
     PublishRings, detach_session, remove_session, CountDown, FreeRings, PushCommand, PopResponse,
     Sleep, Wake, ack_notifications, history
<1>2. CASE ServerStep
  BY <1>2 DEF ServerStep, get_cmd_ring, try_get_command, process_command, AllocateReply,
     get_resp_ring, PushReply, Notify, Signal, history
<1>3. CASE Others
  BY <1>3 DEF Others, Direct, Stray, TimePasses, cleanup_stale_sessions, SweepLook, SweepDrop,
     SweepEnds, history
<1> QED BY <1>1, <1>2, <1>3 DEF EngineNext, Others

LEMMA WakesNext == Base /\ Sess /\ Told /\ Wakes /\ [EngineNext]_<<kvVars, engineVars>> => Wakes'
<1> SUFFICES ASSUME Base, Sess, Told, Wakes, [EngineNext]_<<kvVars, engineVars>>,
                    ~smashed', ~dangling', ~met', ~crossed'
             PROVE  Rouse'
  BY DEF Wakes
<1>1. ~smashed /\ ~dangling /\ ~met /\ ~crossed
  <2>1. CASE UNCHANGED <<kvVars, engineVars>> BY <2>1 DEF kvVars, arenaVars, engineVars, history
  <2>2. CASE EngineNext BY <2>2, AllDefined, DanglingStays, MetStays, CrossedStays DEF Defined, Called
  <2> QED BY <2>1, <2>2
<1>2. Rouse BY <1>1 DEF Wakes
<1>3. PICK who, at : Mem(who, at) /\ Proper /\ Talk(who) BY <1>1 DEF Told
<1>4. CASE UNCHANGED <<kvVars, engineVars>>
  <2>1. UNCHANGED <<kvVars, client, server, slots>> BY <1>4 DEF engineVars, registry
  <2>2. UNCHANGED <<entries, stored, arenaVars, client>> BY <2>1 DEF kvVars, tableVars
  <2>3. MemStep(who, {}) BY <1>3, <2>2, MemStill
  <2> QED BY <1>2, <1>3, <2>1, <2>3, RouseStill DEF Undisturbed
<1>5. CASE Others BY <1>2, <1>3, <1>5, RouseOthers
<1>6. CASE ServerStep BY <1>2, <1>3, <1>6, RouseServer
<1>7. ASSUME NEW c \in Clients, ClientStep(c) PROVE Rouse'
  <2>1. CASE NotIn(c) BY <1>2, <1>3, <2>1, RouseNotIn
  <2>2. CASE (\E command \in Requests : PushCommand(c, command)) \/ PopResponse(c)
    BY <1>2, <1>3, <2>2, RouseUse
  <2>3. CASE AllocateRings(c) BY <1>2, <1>3, <2>3, RouseAllocate
  <2>4. CASE FreeRings(c) BY <1>2, <1>3, <2>4, RouseFree
  <2> QED BY <1>7, <2>1, <2>2, <2>3, <2>4 DEF ClientStep, NotIn
<1> QED BY <1>4, <1>5, <1>6, <1>7 DEF EngineNext, Others

LEMMA WakesInit == EngineInit => Wakes
<1> SUFFICES ASSUME EngineInit PROVE Rouse BY DEF Wakes
<1>1. \A i \in 1..MaxSessions : slots[i] = SessionDesc BY DEF EngineInit
<1>2. Pending BY <1>1 DEF Pending, SessionDesc
<1>3. ASSUME NEW c \in Clients PROVE Roused(client[c])
  <2>1. PICK r : r = client[c] OBVIOUS
  <2>2. r.pc = "out" BY <2>1 DEF EngineInit, Outside
  <2>3. Roused(r) BY <2>2 DEF Roused, Enters
  <2> QED BY <2>1, <2>3
<1> QED BY <1>2, <1>3 DEF Rouse

(* For any clients, sessions, rings and commands: a client that sleeps while there is a      *)
(* response in its ring has an eventfd that can be read, or none, once send_response is      *)
(* through, although only the first of several responses signals it and ack_notifications    *)
(* may reset the counter at any moment between.  The exceptions are those of the property: a *)
(* counter inherited from an earlier session, a session served while it was attached or      *)
(* detached, and two calls that changed one descriptor at once (session.rs:406-451).         *)
THEOREM SleepersAreWoken == EngineSpec => []WokenWhenWaiting
<1>1. Base /\ Sess /\ Wakes => WokenWhenWaiting
  <2> SUFFICES ASSUME Base, Sess, Wakes, NEW c \in Clients, client[c].pc = "asleep",
                      ~client[c].inherited, Attached(c), ~met, ~crossed, ~dangling, ~smashed,
                      ~(server.id = client[c].id /\ server.pc \in {"notify", "signal"}),
                      Queue(RespRing(c)) # << >>
               PROVE  slots[Min(get_session(client[c].id))].eventfd # 0
    BY DEF WokenWhenWaiting
  <2>1. PICK i : i = Min(get_session(client[c].id)) OBVIOUS
  <2>2. i \in 1..MaxSessions /\ slots[i].id = client[c].id
    <3>1. get_session(client[c].id) \subseteq Nat /\ get_session(client[c].id) # {}
      BY DEF get_session, Attached, Base, Registry
    <3>2. i \in get_session(client[c].id) BY <2>1, <3>1, MinElement
    <3> QED BY <3>2 DEF get_session, Base, Registry
  <2>3. Queue(client[c].rings[2]) # << >> BY AttachedRings DEF Attends
  <2>4. Roused(client[c]) BY DEF Wakes, Rouse
  <2>5. Signalled(client[c], i) /\ Notified(client[c], i) BY <2>2, <2>4 DEF Roused
  <2>6. slots[i].eventfd # 0 BY <2>3, <2>5 DEF Signalled, Notified
  <2> QED BY <2>1, <2>6
<1> QED BY <1>1, ToldInit, WakesInit, BalanceInit, BalanceNext, SessInit, SessNext, ToldNext, WakesNext,
           PTL DEF EngineSpec
=============================================================================
