---------------------------- MODULE PubSubProofs ----------------------------
(***************************************************************************)
(* What the pub/sub system of pubsub/mod.rs promises for every number of   *)
(* tasks, subscribers, channels and patterns and every size of the queues: *)
(* a channel's counter settles, one publisher's messages stay in order,    *)
(* and a publish reaches every subscriber whose subscription stands.       *)
(***************************************************************************)
EXTENDS PubSub, FiniteSetTheorems, TLAPS

Kinds == Changing \cup {"idle", "publish"}
Labels == {"idle", "get", "join", "count", "return", "leave", "uncount", "push", "retain", "sweep",
           "next", "forget", "open", "fan", "lock", "match"}
Ops == [kind : Kinds, id : Ids \cup {0}, channel : Channels \cup {"none"},
        pattern : Patterns \cup {{}}, pc : Labels, obj : Nat, left : SUBSET (Ids \cup Channels),
        call : Nat, msg : Nat, k : Nat, steady : SUBSET Ids]
Messages == [id : Nat, from : Tasks, call : Nat]

Types ==
  /\ channels \subseteq Channels /\ objects \in Nat
  /\ members \in [Channels -> [Ids -> 0..objects]] /\ subscribers \in [Ids -> 0..objects]
  /\ subscriber_count \in [Channels -> 0..Modulus - 1]
  /\ queue \in [Objects -> Seq(Messages)] /\ heard \in [Objects -> SUBSET Nat]
  /\ taken \in [Objects -> [Tasks -> Nat]]
  /\ next_id \in Nat /\ ops \in 0..MaxOps /\ op \in [Tasks -> Ops]
  /\ subscribed \in [Channels -> SUBSET Ids] /\ clashed \subseteq Ids

(* Where an operation can be, and which of its fields are set there. *)
Placed(r) ==
  /\ r.kind = "idle" <=> r.pc = "idle"
  /\ r.kind = "subscribe" => r.pc \in {"get", "join", "count", "return"}
  /\ r.kind = "unsubscribe" => r.pc \in {"leave", "uncount", "return"}
  /\ r.kind = "psubscribe" => r.pc \in {"get", "push", "return"}
  /\ r.kind = "punsubscribe" => r.pc \in {"retain", "return"}
  /\ r.kind = "remove" => r.pc \in {"sweep", "next", "uncount", "retain", "forget", "return"}
  /\ r.kind = "publish" => r.pc \in {"open", "fan", "lock", "match", "return"}
  /\ r.kind \in Changing => r.id \in Ids
  /\ r.kind \in {"subscribe", "unsubscribe", "publish"} \/ r.pc = "uncount" => r.channel \in Channels

Places == \A t \in Tasks : Placed(op[t]) /\ (At(t, "join") => op[t].obj \in 1..objects)

(* An operation makes one object at most. *)
Makers == {t \in Tasks : At(t, "get")}
Room == objects + Cardinality(Makers) <= ops

Base == Types /\ Places /\ Room

(* What a step of an operation leaves alone, of its own task and of the others. *)
Moves(t) ==
  /\ op' \in [Tasks -> Ops] /\ \A u \in Tasks \ {t} : op'[u] = op[u]
  /\ op'[t].kind = op[t].kind /\ op'[t].id = op[t].id /\ op'[t].call = op[t].call
  /\ op'[t].steady = op[t].steady

-----------------------------------------------------------------------------
(* A step that changes the label only. *)
LEMMA GotoShape ==
  ASSUME Types, NEW t \in Tasks, NEW label \in Labels, Goto(t, label)
  PROVE  /\ Moves(t) /\ op'[t].pc = label /\ op'[t].channel = op[t].channel
         /\ op'[t].obj = op[t].obj /\ op'[t].left = op[t].left
<1> DEFINE r == [op[t] EXCEPT !.pc = label]
<1>1. op[t] \in Ops /\ op \in [Tasks -> Ops] BY DEF Types
<1>2. /\ r \in Ops /\ r.pc = label /\ r.kind = op[t].kind /\ r.id = op[t].id /\ r.call = op[t].call
      /\ r.steady = op[t].steady /\ r.channel = op[t].channel /\ r.obj = op[t].obj
      /\ r.left = op[t].left
  BY <1>1 DEF Ops
<1>3. op' = [op EXCEPT ![t] = r] BY DEF Goto
<1> HIDE DEF r
<1> QED BY <1>1, <1>2, <1>3 DEF Moves

(* subscribe and psubscribe find the subscriber or make one. *)
LEMMA GetShape ==
  ASSUME Types, Places, NEW t \in Tasks, get_or_create_subscriber(t)
  PROVE  /\ Moves(t) /\ op[t].pc = "get" /\ op[t].id \in Ids
         /\ op[t].kind \in {"subscribe", "psubscribe"}
         /\ op'[t].pc = IF op[t].kind = "subscribe" THEN "join" ELSE "push"
         /\ op'[t].channel = op[t].channel
         /\ objects' = IF subscribers[op[t].id] = 0 THEN objects + 1 ELSE objects
         /\ subscribers' = [subscribers EXCEPT ![op[t].id] = op'[t].obj]
         /\ op'[t].obj = IF subscribers[op[t].id] = 0 THEN objects + 1 ELSE subscribers[op[t].id]
         /\ op'[t].obj \in 1..objects'
         /\ UNCHANGED <<channels, members, subscriber_count, queueVars, next_id, histVars, ops>>
<1> DEFINE i == op[t].id
           o == IF subscribers[i] = 0 THEN objects + 1 ELSE subscribers[i]
           l == IF op[t].kind = "subscribe" THEN "join" ELSE "push"
           r == [op[t] EXCEPT !.obj = o, !.pc = l]
<1>1. op[t] \in Ops /\ op \in [Tasks -> Ops] BY DEF Types
<1>2. op[t].pc = "get" BY DEF get_or_create_subscriber, At
<1>3. op[t].kind \in {"subscribe", "psubscribe"} /\ i \in Ids
  <2>1. op[t].kind \in Kinds BY <1>1 DEF Ops
  <2> QED BY <1>2, <2>1 DEF Places, Placed, Kinds, Changing
<1>4. subscribers[i] \in 0..objects /\ objects \in Nat BY <1>3 DEF Types
<1>5. o \in Nat /\ o \in 1..objects' /\ objects' = IF subscribers[i] = 0 THEN objects + 1 ELSE objects
  BY <1>4 DEF get_or_create_subscriber
<1>6. l \in Labels BY DEF Labels
<1>7. /\ r \in Ops /\ r.pc = l /\ r.kind = op[t].kind /\ r.id = op[t].id /\ r.call = op[t].call
      /\ r.steady = op[t].steady /\ r.channel = op[t].channel /\ r.obj = o
  <2> HIDE DEF o, l
  <2> QED BY <1>1, <1>5, <1>6 DEF Ops
<1>8. /\ op' = [op EXCEPT ![t] = r] /\ subscribers' = [subscribers EXCEPT ![i] = o]
      /\ UNCHANGED <<channels, members, subscriber_count, queueVars, next_id, histVars, ops>>
  BY <1>1 DEF get_or_create_subscriber
<1> HIDE DEF r
<1>9. Moves(t) /\ op'[t] = r BY <1>1, <1>7, <1>8 DEF Moves
<1> QED BY <1>2, <1>3, <1>5, <1>7, <1>8, <1>9

(* Channel::add_subscriber replaces the entry of the id. *)
LEMMA AddShape ==
  ASSUME Types, Places, NEW t \in Tasks, add_subscriber(t)
  PROVE  /\ Moves(t) /\ op[t].pc = "join" /\ op[t].kind = "subscribe" /\ op[t].id \in Ids
         /\ op[t].channel \in Channels /\ op'[t].channel = op[t].channel
         /\ op'[t].pc = IF members[op[t].channel][op[t].id] = 0 THEN "count" ELSE "return"
         /\ channels' = channels \cup {op[t].channel}
         /\ members' = [members EXCEPT ![op[t].channel][op[t].id] = op[t].obj]
         /\ UNCHANGED <<subscriber_count, subscribers, objects, queueVars, next_id, histVars, ops>>
<1> DEFINE l == IF counted(members[op[t].channel][op[t].id]) THEN "count" ELSE "return"
<1>1. op[t].pc = "join" /\ op[t].kind \in Kinds BY DEF add_subscriber, At, Types, Ops
<1>2. op[t].kind = "subscribe" BY <1>1 DEF Places, Placed, Kinds, Changing
<1>3. op[t].id \in Ids /\ op[t].channel \in Channels BY <1>2 DEF Places, Placed, Changing
<1>4. l \in Labels /\ Goto(t, l) BY DEF add_subscriber, Labels
<1>5. Moves(t) /\ op'[t].pc = l /\ op'[t].channel = op[t].channel BY <1>4, GotoShape
<1> QED BY <1>1, <1>2, <1>3, <1>5 DEF add_subscriber, counted

(* The two ends of the operations that count. *)
LEMMA CountUpShape ==
  ASSUME Types, Places, NEW t \in Tasks, CountUp(t)
  PROVE  /\ Moves(t) /\ op[t].pc = "count" /\ op[t].kind = "subscribe"
         /\ op[t].channel \in Channels /\ op'[t].channel = op[t].channel /\ op'[t].pc = "return"
         /\ Counts(t, 1)
         /\ UNCHANGED <<channels, members, subscribers, objects, queueVars, next_id, histVars, ops>>
<1>1. op[t].pc = "count" /\ op[t].kind \in Kinds BY DEF CountUp, At, Types, Ops
<1>2. op[t].kind = "subscribe" BY <1>1 DEF Places, Placed, Kinds, Changing
<1>3. op[t].channel \in Channels BY <1>2 DEF Places, Placed
<1>4. Goto(t, "return") /\ "return" \in Labels BY DEF CountUp, Labels
<1>5. Moves(t) /\ op'[t].pc = "return" /\ op'[t].channel = op[t].channel BY <1>4, GotoShape
<1> QED BY <1>1, <1>2, <1>3, <1>5 DEF CountUp

(* CountDown serves unsubscribe and remove_subscriber. *)
LEMMA CountDownShape ==
  ASSUME Types, Places, NEW t \in Tasks, CountDown(t)
  PROVE  /\ Moves(t) /\ op[t].pc = "uncount" /\ op[t].kind \in {"unsubscribe", "remove"}
         /\ op[t].channel \in Channels /\ op'[t].channel = op[t].channel
         /\ op'[t].pc = IF op[t].kind = "remove" THEN "next" ELSE "return"
         /\ Counts(t, -1)
         /\ UNCHANGED <<channels, members, subscribers, objects, queueVars, next_id, histVars, ops>>
<1> DEFINE l == IF op[t].kind = "remove" THEN "next" ELSE "return"
<1>1. op[t].pc = "uncount" /\ op[t].kind \in Kinds BY DEF CountDown, At, Types, Ops
<1>2. op[t].kind \in {"unsubscribe", "remove"} BY <1>1 DEF Places, Placed, Kinds, Changing
<1>3. op[t].channel \in Channels BY <1>1 DEF Places, Placed
<1>4. Goto(t, l) /\ l \in Labels BY DEF CountDown, Labels
<1>5. Moves(t) /\ op'[t].pc = l /\ op'[t].channel = op[t].channel BY <1>4, GotoShape
<1> QED BY <1>1, <1>2, <1>3, <1>5 DEF CountDown

(* Channel::remove_subscriber, called by unsubscribe. *)
LEMMA LeaveShape ==
  ASSUME Types, Places, NEW t \in Tasks, remove_from_channel(t)
  PROVE  /\ Moves(t) /\ op[t].pc = "leave" /\ op[t].kind = "unsubscribe" /\ op[t].id \in Ids
         /\ op[t].channel \in Channels /\ op'[t].channel = op[t].channel
         /\ op'[t].pc = IF members[op[t].channel][op[t].id] # 0 THEN "uncount" ELSE "return"
         /\ members' = [members EXCEPT ![op[t].channel][op[t].id] = 0]
         /\ UNCHANGED <<channels, subscriber_count, subscribers, objects, queueVars, next_id,
                        histVars, ops>>
<1> DEFINE l == IF members[op[t].channel][op[t].id] # 0 THEN "uncount" ELSE "return"
<1>1. op[t].pc = "leave" /\ op[t].kind \in Kinds BY DEF remove_from_channel, At, Types, Ops
<1>2. op[t].kind = "unsubscribe" BY <1>1 DEF Places, Placed, Kinds, Changing
<1>3. op[t].id \in Ids /\ op[t].channel \in Channels BY <1>2 DEF Places, Placed, Changing
<1>4. l \in Labels /\ Goto(t, l) BY DEF remove_from_channel, Labels
<1>5. Moves(t) /\ op'[t].pc = l /\ op'[t].channel = op[t].channel BY <1>4, GotoShape
<1> QED BY <1>1, <1>2, <1>3, <1>5 DEF remove_from_channel

(* The steps that only move on: the patterns, the ends of the loops. *)
LEMMA PassShape ==
  ASSUME Types, Places, NEW t \in Tasks,
         psubscribe_push(t) \/ InvalidPattern(t) \/ retain(t) \/ SweepEnds(t)
  PROVE  /\ Moves(t) /\ op[t].pc \in {"push", "retain", "next"}
         /\ op[t].kind \in {"psubscribe", "punsubscribe", "remove"}
         /\ op'[t].pc \in {"return", "forget", "retain"}
         /\ op'[t].pc # "return" => op[t].kind = "remove"
         /\ op'[t].channel = op[t].channel
         /\ UNCHANGED <<channels, members, subscriber_count, subscribers, objects, queueVars, next_id,
                        histVars, ops>>
<1>1. op[t].kind \in Kinds BY DEF Types, Ops
<1>2. op[t].pc \in {"push", "retain", "next"}
  BY DEF psubscribe_push, InvalidPattern, retain, SweepEnds, At
<1>3. op[t].kind \in {"psubscribe", "punsubscribe", "remove"}
  BY <1>1, <1>2 DEF Places, Placed, Kinds, Changing
<1>4. PICK l \in {"return", "forget", "retain"} :
        Goto(t, l) /\ (l # "return" => op[t].kind = "remove")
  <2>1. CASE psubscribe_push(t) \/ InvalidPattern(t) BY <2>1 DEF psubscribe_push, InvalidPattern
  <2>2. CASE retain(t) BY <2>2 DEF retain
  <2>3. CASE SweepEnds(t)
    <3>1. op[t].kind = "remove"
      BY <1>1, <2>3 DEF SweepEnds, At, Places, Placed, Kinds, Changing
    <3> QED BY <2>3, <3>1 DEF SweepEnds
  <2> QED BY <2>1, <2>2, <2>3
<1>5. l \in Labels BY DEF Labels
<1>6. Moves(t) /\ op'[t].pc = l /\ op'[t].channel = op[t].channel BY <1>4, <1>5, GotoShape
<1>7. UNCHANGED <<channels, members, subscriber_count, subscribers, objects, queueVars, next_id,
                  histVars, ops>>
  BY DEF psubscribe_push, InvalidPattern, retain, SweepEnds, mapVars
<1> QED BY <1>2, <1>3, <1>4, <1>6, <1>7

(* remove_subscriber starts on the channels. *)
LEMMA SweepShape ==
  ASSUME Types, Places, NEW t \in Tasks, Sweep(t)
  PROVE  /\ Moves(t) /\ op[t].pc = "sweep" /\ op[t].kind = "remove" /\ op'[t].pc = "next"
         /\ UNCHANGED <<mapVars, queueVars, next_id, histVars, ops>>
<1> DEFINE r == [op[t] EXCEPT !.pc = "next", !.left = swept]
<1>1. op[t] \in Ops /\ op \in [Tasks -> Ops] BY DEF Types
<1>2. op[t].pc = "sweep" /\ op[t].kind \in Kinds BY <1>1 DEF Sweep, At, Ops
<1>3. op[t].kind = "remove" BY <1>2 DEF Places, Placed, Kinds, Changing
<1>4. /\ r \in Ops /\ r.pc = "next" /\ r.kind = op[t].kind /\ r.id = op[t].id
      /\ r.call = op[t].call /\ r.steady = op[t].steady
  BY <1>1 DEF Ops, Labels, swept
<1>5. op' = [op EXCEPT ![t] = r] BY <1>1 DEF Sweep
<1> HIDE DEF r
<1>6. Moves(t) /\ op'[t] = r BY <1>1, <1>4, <1>5 DEF Moves
<1> QED BY <1>2, <1>3, <1>4, <1>6 DEF Sweep

(* remove_subscriber takes the id from one channel. *)
LEMMA SweepChannelShape ==
  ASSUME Types, Places, NEW t \in Tasks, NEW c \in Channels, SweepChannel(t, c)
  PROVE  /\ Moves(t) /\ op[t].pc = "next" /\ op[t].kind = "remove" /\ op[t].id \in Ids
         /\ op'[t].channel = c /\ op'[t].pc = IF members[c][op[t].id] # 0 THEN "uncount" ELSE "next"
         /\ members' = [members EXCEPT ![c][op[t].id] = 0]
         /\ UNCHANGED <<channels, subscriber_count, subscribers, objects, queueVars, next_id,
                        histVars, ops>>
<1> DEFINE l == IF members[c][op[t].id] # 0 THEN "uncount" ELSE "next"
           r == [op[t] EXCEPT !.left = @ \ {c}, !.channel = c, !.pc = l]
<1>1. op[t] \in Ops /\ op \in [Tasks -> Ops] BY DEF Types
<1>2. op[t].pc = "next" /\ op[t].kind \in Kinds BY <1>1 DEF SweepChannel, At, Ops
<1>3. op[t].kind = "remove" /\ op[t].id \in Ids BY <1>2 DEF Places, Placed, Kinds, Changing
<1>4. l \in Labels BY DEF Labels
<1>5. /\ r \in Ops /\ r.pc = l /\ r.kind = op[t].kind /\ r.id = op[t].id /\ r.channel = c
      /\ r.call = op[t].call /\ r.steady = op[t].steady
  <2> HIDE DEF l
  <2> QED BY <1>1, <1>4 DEF Ops
<1>6. op' = [op EXCEPT ![t] = r] BY <1>1 DEF SweepChannel
<1> HIDE DEF r
<1>7. Moves(t) /\ op'[t] = r BY <1>1, <1>5, <1>6 DEF Moves
<1> QED BY <1>2, <1>3, <1>5, <1>7 DEF SweepChannel

(* remove_subscriber's last step. *)
LEMMA ForgetShape ==
  ASSUME Types, Places, NEW t \in Tasks, Forget(t)
  PROVE  /\ Moves(t) /\ op[t].pc = "forget" /\ op[t].kind = "remove" /\ op[t].id \in Ids
         /\ op'[t].pc = "return" /\ subscribers' = [subscribers EXCEPT ![op[t].id] = 0]
         /\ UNCHANGED <<channels, members, subscriber_count, objects, queueVars, next_id, histVars, ops>>
<1>1. op[t].pc = "forget" /\ op[t].kind \in Kinds BY DEF Forget, At, Types, Ops
<1>2. op[t].kind = "remove" /\ op[t].id \in Ids BY <1>1 DEF Places, Placed, Kinds, Changing
<1>3. Goto(t, "return") /\ "return" \in Labels BY DEF Forget, Labels
<1>4. Moves(t) /\ op'[t].pc = "return" BY <1>3, GotoShape
<1> QED BY <1>1, <1>2, <1>4 DEF Forget

(* publish looks the channel up. *)
LEMMA OpenShape ==
  ASSUME Types, Places, NEW t \in Tasks, Open(t)
  PROVE  /\ Moves(t) /\ op[t].pc = "open" /\ op[t].kind = "publish" /\ op[t].channel \in Channels
         /\ op'[t].channel = op[t].channel /\ op'[t].left = Ids
         /\ op'[t].pc = IF op[t].channel \in channels THEN "fan" ELSE "lock"
         /\ next_id' \in Nat /\ UNCHANGED <<mapVars, queueVars, histVars, ops>>
<1> DEFINE l == IF op[t].channel \in channels THEN "fan" ELSE "lock"
           r == [op[t] EXCEPT !.pc = l, !.msg = next_id, !.left = Ids]
<1>1. op[t] \in Ops /\ op \in [Tasks -> Ops] /\ next_id \in Nat BY DEF Types
<1>2. op[t].pc = "open" /\ op[t].kind \in Kinds BY <1>1 DEF Open, At, Ops
<1>3. op[t].kind = "publish" BY <1>2 DEF Places, Placed, Kinds, Changing
<1>4. op[t].channel \in Channels BY <1>3 DEF Places, Placed
<1>5. l \in Labels BY DEF Labels
<1>6. /\ r \in Ops /\ r.pc = l /\ r.kind = op[t].kind /\ r.id = op[t].id
      /\ r.call = op[t].call /\ r.steady = op[t].steady /\ r.channel = op[t].channel /\ r.left = Ids
  <2> HIDE DEF l
  <2> QED BY <1>1, <1>5 DEF Ops
<1>7. op' = [op EXCEPT ![t] = r] BY <1>1 DEF Open
<1>8. next_id' \in Nat BY <1>1 DEF Open
<1> HIDE DEF r
<1>9. Moves(t) /\ op'[t] = r BY <1>1, <1>6, <1>7 DEF Moves
<1> QED BY <1>2, <1>3, <1>4, <1>6, <1>8, <1>9 DEF Open

(* publish comes by one place of the channel's map. *)
LEMMA FanOutShape ==
  ASSUME Types, Places, NEW t \in Tasks, NEW i \in Ids, FanOut(t, i)
  PROVE  /\ Moves(t) /\ op[t].pc = "fan" /\ op[t].kind = "publish" /\ op[t].channel \in Channels
         /\ op'[t].channel = op[t].channel /\ op'[t].left = op[t].left \ {i} /\ op'[t].pc = "fan"
         /\ IF members[op[t].channel][i] = 0 THEN UNCHANGED queueVars
            ELSE deliver_message(t, members[op[t].channel][i])
         /\ UNCHANGED <<mapVars, next_id, histVars, ops>>
<1> DEFINE r == [op[t] EXCEPT !.left = @ \ {i}]
<1>1. op[t] \in Ops /\ op \in [Tasks -> Ops] BY DEF Types
<1>2. op[t].pc = "fan" /\ op[t].kind \in Kinds BY <1>1 DEF FanOut, At, Ops
<1>3. op[t].kind = "publish" BY <1>2 DEF Places, Placed, Kinds, Changing
<1>4. op[t].channel \in Channels BY <1>3 DEF Places, Placed
<1>5. /\ r \in Ops /\ r.pc = op[t].pc /\ r.kind = op[t].kind /\ r.id = op[t].id
      /\ r.call = op[t].call /\ r.steady = op[t].steady /\ r.channel = op[t].channel
      /\ r.left = op[t].left \ {i}
  BY <1>1 DEF Ops
<1>6. op' = [op EXCEPT ![t] = r] BY <1>1 DEF FanOut
<1> HIDE DEF r
<1>7. Moves(t) /\ op'[t] = r BY <1>1, <1>5, <1>6 DEF Moves
<1> QED BY <1>2, <1>3, <1>4, <1>5, <1>7 DEF FanOut

(* publish turns to the patterns. *)
LEMMA LockShape ==
  ASSUME Types, Places, NEW t \in Tasks, LockPatterns(t)
  PROVE  /\ op[t].pc = "lock" \/ (op[t].pc = "fan" /\ op[t].left = {})
         /\ Moves(t) /\ op[t].kind = "publish" /\ op'[t].pc = "match" /\ op'[t].channel = op[t].channel
         /\ next_id' \in Nat /\ UNCHANGED <<mapVars, queueVars, histVars, ops>>
<1> DEFINE r == [op[t] EXCEPT !.pc = "match", !.msg = next_id, !.k = 1]
<1>1. op[t] \in Ops /\ op \in [Tasks -> Ops] /\ next_id \in Nat BY DEF Types
<1>2. /\ op[t].pc = "lock" \/ (op[t].pc = "fan" /\ op[t].left = {})
      /\ op[t].kind \in Kinds
  BY <1>1 DEF LockPatterns, visited, At, Ops
<1>3. op[t].kind = "publish" BY <1>2 DEF Places, Placed, Kinds, Changing
<1>4. /\ r \in Ops /\ r.pc = "match" /\ r.kind = op[t].kind /\ r.id = op[t].id
      /\ r.call = op[t].call /\ r.steady = op[t].steady /\ r.channel = op[t].channel
  BY <1>1 DEF Ops, Labels
<1>5. op' = [op EXCEPT ![t] = r] BY <1>1 DEF LockPatterns
<1>6. next_id' \in Nat BY <1>1 DEF LockPatterns
<1> HIDE DEF r
<1>7. Moves(t) /\ op'[t] = r BY <1>1, <1>4, <1>5 DEF Moves
<1> QED BY <1>2, <1>3, <1>4, <1>6, <1>7 DEF LockPatterns

(* publish takes the next pattern subscription; its id may be any. *)
LEMMA MatchShape ==
  ASSUME Types, Places, NEW t \in Tasks, Match(t)
  PROVE  /\ Moves(t) /\ op[t].pc = "match" /\ op[t].kind = "publish" /\ op'[t].pc = "match"
         /\ op'[t].channel = op[t].channel
         /\ UNCHANGED queueVars \/ \E o : deliver_message(t, o)
         /\ UNCHANGED <<mapVars, next_id, histVars, ops>>
<1> DEFINE r == [op[t] EXCEPT !.k = @ + 1]
<1>1. op[t] \in Ops /\ op \in [Tasks -> Ops] BY DEF Types
<1>2. op[t].pc = "match" /\ op[t].kind \in Kinds BY <1>1 DEF Match, At, Ops
<1>3. op[t].kind = "publish" BY <1>2 DEF Places, Placed, Kinds, Changing
<1>4. /\ r \in Ops /\ r.pc = op[t].pc /\ r.kind = op[t].kind /\ r.id = op[t].id
      /\ r.call = op[t].call /\ r.steady = op[t].steady /\ r.channel = op[t].channel
  BY <1>1 DEF Ops
<1>5. op' = [op EXCEPT ![t] = r] BY <1>1 DEF Match
<1> HIDE DEF r
<1>6. Moves(t) /\ op'[t] = r BY <1>1, <1>4, <1>5 DEF Moves
<1>7. UNCHANGED queueVars \/ \E o : deliver_message(t, o) BY DEF Match
<1>8. UNCHANGED <<mapVars, next_id, histVars, ops>> BY DEF Match
<1> QED BY <1>2, <1>3, <1>4, <1>6, <1>7, <1>8

(* publish has seen every pattern. *)
LEMMA MatchEndsShape ==
  ASSUME Types, Places, NEW t \in Tasks, MatchEnds(t)
  PROVE  /\ Moves(t) /\ op[t].pc = "match" /\ op[t].kind = "publish" /\ op'[t].pc = "return"
         /\ op'[t].channel = op[t].channel
         /\ UNCHANGED <<mapVars, queueVars, next_id, histVars, ops>>
<1>1. op[t].pc = "match" /\ op[t].kind \in Kinds BY DEF MatchEnds, At, Types, Ops
<1>2. op[t].kind = "publish" BY <1>1 DEF Places, Placed, Kinds, Changing
<1>3. Goto(t, "return") /\ "return" \in Labels BY DEF MatchEnds, Labels
<1>4. Moves(t) /\ op'[t].pc = "return" /\ op'[t].channel = op[t].channel BY <1>3, GotoShape
<1> QED BY <1>1, <1>2, <1>4 DEF MatchEnds

(* Returning ends the operation, and records a subscription that nothing crossed. *)
LEMMA ReturnShape ==
  ASSUME Types, NEW t \in Tasks, Return(t)
  PROVE  /\ op' \in [Tasks -> Ops] /\ (\A u \in Tasks \ {t} : op'[u] = op[u]) /\ op'[t] = Idle
         /\ op[t].pc = "return"
         /\ subscribed' = IF op[t].kind = "subscribe" /\ op[t].id \notin clashed
                          THEN [subscribed EXCEPT ![op[t].channel] = @ \cup {op[t].id}]
                          ELSE subscribed
         /\ UNCHANGED <<mapVars, queueVars, next_id, clashed, ops>>
<1>1. op \in [Tasks -> Ops] BY DEF Types
<1>2. Idle \in Ops BY DEF Ops, Idle, Labels, Kinds, Changing
<1>3. op' = [op EXCEPT ![t] = Idle] BY DEF Return
<1>4. op' \in [Tasks -> Ops] /\ (\A u \in Tasks \ {t} : op'[u] = op[u]) /\ op'[t] = Idle
  BY <1>1, <1>2, <1>3
<1> QED BY <1>4 DEF Return, At

(* The fields of no operation. *)
LEMMA IdleFields ==
  /\ Idle.kind = "idle" /\ Idle.pc = "idle" /\ Idle.call = 0 /\ Idle.steady = {} /\ Idle.id = 0
  /\ Placed(Idle)
BY DEF Idle, Placed, Changing

(* A call with arguments of its kind. *)
Starts(t, kind, i, c, p) ==
  /\ kind \in Kinds \ {"idle"} /\ i \in Ids \cup {0} /\ c \in Channels \cup {"none"}
  /\ p \in Patterns \cup {{}} /\ Call(t, kind, i, c, p)
  /\ kind \in Changing => i \in Ids
  /\ kind \in {"subscribe", "unsubscribe", "publish"} => c \in Channels

(* The calls there are. *)
LEMMA CallsAre ==
  ASSUME NEW t \in Tasks, Calls(t)
  PROVE  \E kind, i, c, p : Starts(t, kind, i, c, p)
<1> USE DEF Kinds, Changing
<1>1. ASSUME NEW i \in Ids, NEW c \in Channels, NEW kind \in {"subscribe", "unsubscribe"},
             Call(t, kind, i, c, {})
      PROVE  Starts(t, kind, i, c, {})
  BY <1>1 DEF Starts
<1>2. ASSUME NEW i \in Ids, NEW p \in Patterns \cup {{}},
             NEW kind \in {"psubscribe", "punsubscribe", "remove"}, Call(t, kind, i, "none", p)
      PROVE  Starts(t, kind, i, "none", p)
  BY <1>2 DEF Starts
<1>3. ASSUME NEW c \in Channels, Call(t, "publish", 0, c, {})
      PROVE  Starts(t, "publish", 0, c, {})
  BY <1>3 DEF Starts
<1> QED BY <1>1, <1>2, <1>3 DEF Calls

(* The first step is one of the operation's own. *)
LEMMA FirstSteps ==
  ASSUME NEW kind \in Kinds \ {"idle"}
  PROVE  /\ FirstStep[kind] \in {"get", "leave", "retain", "sweep", "open"}
         /\ FirstStep[kind] \in Labels
         /\ kind \in {"subscribe", "psubscribe"} => FirstStep[kind] = "get"
         /\ kind = "unsubscribe" => FirstStep[kind] = "leave"
         /\ kind = "punsubscribe" => FirstStep[kind] = "retain"
         /\ kind = "remove" => FirstStep[kind] = "sweep"
         /\ kind = "publish" => FirstStep[kind] = "open"
BY DEF Kinds, Changing, FirstStep, Labels

(* What a call leaves behind. *)
Started(t, kind, i, c) ==
  /\ op[t].kind = "idle" /\ op' \in [Tasks -> Ops] /\ ops' = ops + 1 /\ ops' \in 0..MaxOps
  /\ op'[t].kind = kind /\ op'[t].id = i /\ op'[t].channel = c /\ op'[t].pc = FirstStep[kind]
  /\ op'[t].call = ops + 1
  /\ op'[t].steady = IF kind = "publish" THEN {j \in subscribed[c] : ~Busy(j)} ELSE {}
  /\ \A u \in Tasks \ {t} :
       /\ op'[u].kind = op[u].kind /\ op'[u].id = op[u].id /\ op'[u].channel = op[u].channel
       /\ op'[u].pc = op[u].pc /\ op'[u].obj = op[u].obj /\ op'[u].call = op[u].call
       /\ op'[u].left = op[u].left
       /\ op'[u].steady = IF kind \in Changing THEN op[u].steady \ {i} ELSE op[u].steady
  /\ clashed' = IF kind \in Changing /\ Busy(i) THEN clashed \cup {i} ELSE clashed
  /\ subscribed' = [d \in Channels |->
       IF (kind = "unsubscribe" /\ c = d) \/ kind = "remove"
       THEN subscribed[d] \ {i} ELSE subscribed[d]]
  /\ UNCHANGED <<mapVars, queueVars, next_id>>

(* A call starts an operation at its first step and ends what others held steady about the id. *)
LEMMA CallShape ==
  ASSUME Types, NEW t \in Tasks, NEW kind, NEW i, NEW c, NEW p, Starts(t, kind, i, c, p)
  PROVE  Started(t, kind, i, c)
<1> DEFINE steady == IF kind = "publish" THEN {j \in subscribed[c] : ~Busy(j)} ELSE {}
           first == FirstStep[kind]
           r == [Idle EXCEPT !.kind = kind, !.id = i, !.channel = c, !.pattern = p,
                             !.pc = first, !.call = ops + 1, !.steady = steady]
           S(u) == IF kind \in Changing THEN [op[u] EXCEPT !.steady = @ \ {i}] ELSE op[u]
<1>0. /\ kind \in Kinds \ {"idle"} /\ i \in Ids \cup {0} /\ c \in Channels \cup {"none"}
      /\ p \in Patterns \cup {{}} /\ Call(t, kind, i, c, p) /\ (kind = "publish" => c \in Channels)
  BY DEF Starts
<1>1. op \in [Tasks -> Ops] /\ ops \in Nat /\ ops \in 0..MaxOps BY PubSubAssumption DEF Types
<1>2. steady \in SUBSET Ids BY <1>0 DEF Types
<1>3. ops + 1 \in Nat BY <1>1
<1>4. /\ r \in Ops /\ r.kind = kind /\ r.id = i /\ r.channel = c /\ r.pc = first
      /\ r.call = ops + 1 /\ r.steady = steady
  <2> HIDE DEF steady, first
  <2>1. first \in Labels BY <1>0, FirstSteps DEF first
  <2> QED BY <1>0, <1>2, <1>3, <2>1 DEF Ops, Idle, Kinds
<1>5. ASSUME NEW u \in Tasks
      PROVE  /\ S(u) \in Ops /\ S(u).kind = op[u].kind /\ S(u).id = op[u].id
             /\ S(u).channel = op[u].channel /\ S(u).pc = op[u].pc /\ S(u).obj = op[u].obj
             /\ S(u).call = op[u].call /\ S(u).left = op[u].left
             /\ S(u).steady = IF kind \in Changing THEN op[u].steady \ {i} ELSE op[u].steady
  <2>1. op[u] \in Ops BY <1>1
  <2> QED BY <2>1 DEF Ops
<1>6. op' = [u \in Tasks |-> IF u = t THEN r ELSE S(u)] BY <1>0 DEF Call
<1> HIDE DEF r, S
<1>7. op' \in [Tasks -> Ops] /\ op'[t] = r /\ \A u \in Tasks \ {t} : op'[u] = S(u)
  BY <1>4, <1>5, <1>6
<1>8. op[t].kind = "idle" /\ ops' = ops + 1 /\ ops' \in 0..MaxOps
  <2>1. op[t].kind = "idle" /\ ops < MaxOps /\ ops' = ops + 1 BY <1>0 DEF Call
  <2> QED BY <1>1, <2>1, PubSubAssumption
<1>9. /\ clashed' = IF kind \in Changing /\ Busy(i) THEN clashed \cup {i} ELSE clashed
      /\ subscribed' = [d \in Channels |->
              IF (kind = "unsubscribe" /\ c = d) \/ kind = "remove"
              THEN subscribed[d] \ {i} ELSE subscribed[d]]
      /\ UNCHANGED <<mapVars, queueVars, next_id>>
  BY <1>0 DEF Call
<1>10. /\ op'[t].kind = kind /\ op'[t].id = i /\ op'[t].channel = c /\ op'[t].pc = FirstStep[kind]
       /\ op'[t].call = ops + 1
       /\ op'[t].steady = IF kind = "publish" THEN {j \in subscribed[c] : ~Busy(j)} ELSE {}
  BY <1>4, <1>7
<1>11. \A u \in Tasks \ {t} :
         /\ op'[u].kind = op[u].kind /\ op'[u].id = op[u].id /\ op'[u].channel = op[u].channel
         /\ op'[u].pc = op[u].pc /\ op'[u].obj = op[u].obj /\ op'[u].call = op[u].call
         /\ op'[u].left = op[u].left
         /\ op'[u].steady = IF kind \in Changing THEN op[u].steady \ {i} ELSE op[u].steady
  BY <1>5, <1>7
<1>12. op' \in [Tasks -> Ops] BY <1>7
<1> QED BY <1>8, <1>9, <1>10, <1>11, <1>12 DEF Started

(* Delivery appends to one queue, after dropping its oldest message when it is full. *)
LEMMA DeliverShape ==
  ASSUME Types, NEW t \in Tasks, NEW o, deliver_message(t, o)
  PROVE  /\ queue' \in [Objects -> Seq(Messages)] /\ heard' \in [Objects -> SUBSET Nat]
         /\ UNCHANGED <<polled, taken>>
         /\ \A x \in Objects : heard[x] \subseteq heard'[x]
         /\ o \in Objects => op[t].call \in heard'[o]
         /\ \A x \in Objects \ {o} : queue'[x] = queue[x]
         /\ o \in Objects => \E d \in {0, 1} :
              LET n == Len(queue[o]) - d
              IN  /\ n \in Nat /\ Len(queue'[o]) = n + 1
                  /\ \A j \in 1..n : queue'[o][j] = queue[o][j + d]
                  /\ queue'[o][n + 1].from = t /\ queue'[o][n + 1].call = op[t].call
<1> DEFINE m == [id |-> op[t].msg, from |-> t, call |-> op[t].call]
           q == IF full(o) THEN Tail(queue[o]) ELSE queue[o]
<1>1. op[t] \in Ops BY DEF Types
<1>2. op[t].msg \in Nat /\ op[t].call \in Nat BY <1>1 DEF Ops
<1>3. m \in Messages /\ m.from = t /\ m.call = op[t].call BY <1>2 DEF Messages
<1>4. /\ queue' = [queue EXCEPT ![o] = Append(q, m)]
      /\ heard' = [heard EXCEPT ![o] = @ \cup {op[t].call}] /\ UNCHANGED <<polled, taken>>
  BY DEF deliver_message, enqueue
<1>5. queue \in [Objects -> Seq(Messages)] /\ heard \in [Objects -> SUBSET Nat] BY DEF Types
<1>6. ASSUME o \in Objects
      PROVE  \E d \in {0, 1} :
               LET n == Len(queue[o]) - d
               IN  n \in Nat /\ q \in Seq(Messages) /\ Len(q) = n /\ \A j \in 1..n : q[j] = queue[o][j + d]
  <2>1. queue[o] \in Seq(Messages) /\ Len(queue[o]) \in Nat BY <1>5, <1>6
  <2>2. CASE full(o)
    <3>1. Len(queue[o]) >= 1 BY <2>1, <2>2, PubSubAssumption DEF full
    <3>2. queue[o] # << >> BY <2>1, <3>1
    <3>3. /\ Tail(queue[o]) \in Seq(Messages) /\ Len(Tail(queue[o])) = Len(queue[o]) - 1
          /\ \A j \in 1..Len(queue[o]) - 1 : Tail(queue[o])[j] = queue[o][j + 1]
      BY <2>1, <3>2
    <3> QED BY <2>1, <2>2, <3>1, <3>3
  <2>3. CASE ~full(o) BY <2>1, <2>3
  <2> QED BY <2>2, <2>3
<1> HIDE DEF m, q
<1>7. ASSUME o \in Objects
      PROVE  /\ Append(q, m) \in Seq(Messages)
             /\ \E d \in {0, 1} :
                  LET n == Len(queue[o]) - d
                  IN  /\ n \in Nat /\ Len(Append(q, m)) = n + 1
                      /\ \A j \in 1..n : Append(q, m)[j] = queue[o][j + d]
                      /\ Append(q, m)[n + 1] = m
  <2>1. PICK d \in {0, 1} :
               LET n == Len(queue[o]) - d
               IN  n \in Nat /\ q \in Seq(Messages) /\ Len(q) = n /\ \A j \in 1..n : q[j] = queue[o][j + d]
    BY <1>6, <1>7
  <2> DEFINE n == Len(queue[o]) - d
  <2>2. n \in Nat /\ q \in Seq(Messages) /\ Len(q) = n /\ \A j \in 1..n : q[j] = queue[o][j + d]
    BY <2>1
  <2>3. /\ Append(q, m) \in Seq(Messages) /\ Len(Append(q, m)) = n + 1 /\ Append(q, m)[n + 1] = m
        /\ \A j \in 1..n : Append(q, m)[j] = q[j]
    <3> HIDE DEF n
    <3> QED BY <1>3, <2>2
  <2> QED BY <2>2, <2>3
<1>8. queue' \in [Objects -> Seq(Messages)] /\ \A x \in Objects \ {o} : queue'[x] = queue[x]
  BY <1>4, <1>5, <1>7
<1>9. o \in Objects => queue'[o] = Append(q, m) BY <1>4, <1>5
<1>10. /\ heard' \in [Objects -> SUBSET Nat] /\ \A x \in Objects : heard[x] \subseteq heard'[x]
       /\ o \in Objects => op[t].call \in heard'[o]
  BY <1>2, <1>4, <1>5
<1> QED BY <1>3, <1>4, <1>7, <1>8, <1>9, <1>10

(* An operation that moves on stays placed, and so do the others. *)
LEMMA PlacesKept ==
  ASSUME Types, Places, NEW t \in Tasks, Moves(t), Placed(op'[t]), objects' \in Nat, objects <= objects',
         op'[t].pc = "join" => op'[t].obj \in 1..objects'
  PROVE  Places'
<1>1. 1..objects \subseteq 1..objects' BY DEF Types
<1> QED BY <1>1 DEF Places, Moves, At

(* A step that neither makes an object nor takes one up leaves room. *)
LEMMA RoomKept ==
  ASSUME Room, NEW t \in Tasks, \A u \in Tasks \ {t} : op'[u] = op[u], op[t].pc # "get",
         op'[t].pc # "get", UNCHANGED <<objects, ops>>
  PROVE  Room'
<1>1. Makers' = Makers BY DEF Makers, At
<1> QED BY <1>1 DEF Room

(* The system starts typed. *)
LEMMA BaseInit == Init => Base
<1> SUFFICES ASSUME Init PROVE Base
  OBVIOUS
<1>1. Idle \in Ops BY DEF Ops, Idle, Labels, Kinds, Changing
<1>2. \A t \in Tasks : op[t] = Idle BY DEF Init
<1>3. queue \in [Objects -> Seq(Messages)] BY DEF Init
<1>4. subscriber_count \in [Channels -> 0..Modulus - 1] BY PubSubAssumption DEF Init
<1>5. Types BY <1>1, <1>3, <1>4, PubSubAssumption DEF Types, Init
<1>6. Places BY <1>2, IdleFields DEF Places, At
<1>7. Makers = {} BY <1>2, IdleFields DEF Makers, At
<1>8. Room BY <1>7, FS_EmptySet DEF Room, Init
<1> QED BY <1>5, <1>6, <1>8 DEF Base

(* The makers are finitely many. *)
LEMMA MakersFinite == IsFiniteSet(Makers) /\ Cardinality(Makers) \in Nat
<1>1. Makers \in SUBSET Tasks BY DEF Makers
<1> QED BY <1>1, FS_Subset, FS_CardinalityType, PubSubAssumption

(* A call keeps the types. *)
LEMMA BaseCall == ASSUME Base, NEW t \in Tasks, Calls(t) PROVE Base'
<1>b. Types /\ Places /\ Room BY DEF Base
<1>0. PICK kind, i, c, p : Starts(t, kind, i, c, p) BY CallsAre
<1>f. /\ kind \in Kinds \ {"idle"} /\ i \in Ids \cup {0} /\ c \in Channels \cup {"none"}
      /\ p \in Patterns \cup {{}} /\ Call(t, kind, i, c, p) /\ (kind \in Changing => i \in Ids)
      /\ (kind \in {"subscribe", "unsubscribe", "publish"} => c \in Channels)
  BY <1>0 DEF Starts
<1>g. Started(t, kind, i, c) BY <1>b, <1>0, CallShape
<1>1. /\ op' \in [Tasks -> Ops] /\ ops' = ops + 1 /\ ops' \in 0..MaxOps
      /\ op'[t].kind = kind /\ op'[t].id = i /\ op'[t].channel = c /\ op'[t].pc = FirstStep[kind]
      /\ \A u \in Tasks \ {t} :
           /\ op'[u].kind = op[u].kind /\ op'[u].id = op[u].id /\ op'[u].channel = op[u].channel
           /\ op'[u].pc = op[u].pc /\ op'[u].obj = op[u].obj
  BY <1>g DEF Started
<1>2. /\ clashed' = IF kind \in Changing /\ Busy(i) THEN clashed \cup {i} ELSE clashed
      /\ subscribed' = [d \in Channels |->
              IF (kind = "unsubscribe" /\ c = d) \/ kind = "remove"
              THEN subscribed[d] \ {i} ELSE subscribed[d]]
      /\ UNCHANGED <<mapVars, queueVars, next_id>>
  BY <1>g DEF Started
<1>3. clashed' \subseteq Ids /\ subscribed' \in [Channels -> SUBSET Ids] BY <1>b, <1>f, <1>2 DEF Types
<1>4. Types' BY <1>b, <1>1, <1>2, <1>3 DEF Types, mapVars, queueVars
<1>5. Placed(op'[t]) BY <1>1, <1>f, FirstSteps DEF Placed, Kinds, Changing
<1>6. op'[t].pc # "join" BY <1>1, <1>f, FirstSteps
<1>7. Places' BY <1>b, <1>1, <1>2, <1>5, <1>6 DEF Places, Placed, At, mapVars
<1>8. Makers' \in SUBSET (Makers \cup {t}) BY <1>1 DEF Makers, At
<1>9. Cardinality(Makers') <= Cardinality(Makers) + 1 /\ Cardinality(Makers') \in Nat
  <2>1. IsFiniteSet(Makers \cup {t}) /\ Cardinality(Makers \cup {t}) <= Cardinality(Makers) + 1
    <3>1. /\ IsFiniteSet(Makers \cup {t})
          /\ Cardinality(Makers \cup {t}) =
               IF t \in Makers THEN Cardinality(Makers) ELSE Cardinality(Makers) + 1
      BY MakersFinite, FS_AddElement
    <3> QED BY <3>1, MakersFinite
  <2>2. IsFiniteSet(Makers') /\ Cardinality(Makers') <= Cardinality(Makers \cup {t})
    BY <1>8, <2>1, FS_Subset
  <2> QED BY <2>1, <2>2, MakersFinite, FS_CardinalityType
<1>10. Room' BY <1>b, <1>1, <1>2, <1>9, MakersFinite, PubSubAssumption DEF Room, Types, mapVars
<1> QED BY <1>4, <1>7, <1>10 DEF Base

(* Every step of an operation keeps the types: one case per action. *)
LEMMA BaseStep == ASSUME Base, NEW t \in Tasks, Step(t) PROVE Base'
<1>b. Types /\ Places /\ Room /\ Placed(op[t]) BY DEF Base, Places
<1>o. objects \in Nat /\ objects <= objects BY <1>b DEF Types
<1>q. ASSUME Moves(t), Placed(op'[t]), op[t].pc # "get", op'[t].pc \notin {"get", "join"},
             UNCHANGED <<objects, ops>>, Types'
      PROVE  Base'
  BY <1>b, <1>o, <1>q, PlacesKept, RoomKept DEF Base, Moves
<1>1. CASE get_or_create_subscriber(t)
  <2>1. /\ Moves(t) /\ op[t].pc = "get" /\ op[t].id \in Ids
        /\ op[t].kind \in {"subscribe", "psubscribe"}
        /\ op'[t].pc = IF op[t].kind = "subscribe" THEN "join" ELSE "push"
        /\ op'[t].channel = op[t].channel
        /\ objects' = IF subscribers[op[t].id] = 0 THEN objects + 1 ELSE objects
        /\ subscribers' = [subscribers EXCEPT ![op[t].id] = op'[t].obj]
        /\ op'[t].obj \in 1..objects'
        /\ UNCHANGED <<channels, members, subscriber_count, queueVars, next_id, histVars, ops>>
    BY <1>b, <1>1, GetShape
  <2>2. objects' \in Nat /\ objects <= objects' /\ objects' <= objects + 1 BY <1>o, <2>1
  <2>3. 0..objects \subseteq 0..objects' /\ op'[t].obj \in 0..objects' BY <1>o, <2>1, <2>2
  <2>4. subscribers' \in [Ids -> 0..objects'] BY <1>b, <2>1, <2>3 DEF Types
  <2>5. members' \in [Channels -> [Ids -> 0..objects']]
    <3>1. members \in [Channels -> [Ids -> 0..objects]] BY <1>b DEF Types
    <3>2. \A d \in Channels : members[d] \in [Ids -> 0..objects'] BY <3>1, <2>3
    <3> QED BY <2>1, <3>1, <3>2
  <2>6. Types' BY <1>b, <2>1, <2>2, <2>4, <2>5 DEF Types, queueVars, histVars, Moves
  <2>7. Placed(op'[t]) BY <1>b, <2>1 DEF Placed, Moves
  <2>8. Places' BY <1>b, <2>1, <2>2, <2>7, PlacesKept
  <2>9. Makers' = Makers \ {t} /\ t \in Makers BY <2>1 DEF Makers, At, Moves
  <2>10. Cardinality(Makers') = Cardinality(Makers) - 1 BY <2>9, MakersFinite, FS_RemoveElement
  <2>11. Room'
    BY <1>b, <1>o, <2>1, <2>2, <2>10, MakersFinite, PubSubAssumption DEF Room, Types
  <2> QED BY <2>6, <2>8, <2>11 DEF Base
<1>2. CASE add_subscriber(t)
  <2>1. /\ Moves(t) /\ op[t].pc = "join" /\ op[t].kind = "subscribe" /\ op[t].id \in Ids
        /\ op[t].channel \in Channels /\ op'[t].channel = op[t].channel
        /\ op'[t].pc \in {"count", "return"}
        /\ channels' = channels \cup {op[t].channel}
        /\ members' = [members EXCEPT ![op[t].channel][op[t].id] = op[t].obj]
        /\ UNCHANGED <<subscriber_count, subscribers, objects, queueVars, next_id, histVars, ops>>
    BY <1>b, <1>2, AddShape
  <2>2. op[t].obj \in 0..objects BY <1>b, <1>o, <2>1 DEF Places, At
  <2>3. members' \in [Channels -> [Ids -> 0..objects']] BY <1>b, <2>1, <2>2 DEF Types
  <2>4. Types' BY <1>b, <2>1, <2>3 DEF Types, queueVars, histVars, Moves
  <2>5. Placed(op'[t]) BY <1>b, <2>1 DEF Placed, Moves
  <2> QED BY <1>q, <2>1, <2>4, <2>5
<1>3. CASE CountUp(t) \/ CountDown(t)
  <2>1. PICK n \in {1, -1} :
        /\ Moves(t) /\ op[t].pc \in {"count", "uncount"} /\ op[t].channel \in Channels
        /\ op'[t].channel = op[t].channel /\ Counts(t, n)
        /\ UNCHANGED <<channels, members, subscribers, objects, queueVars, next_id, histVars, ops>>
    BY <1>b, <1>3, CountUpShape, CountDownShape
  <2>2. /\ op[t].kind \in {"subscribe", "unsubscribe", "remove"}
        /\ op'[t].pc = IF op[t].kind = "remove" THEN "next" ELSE "return"
    BY <1>b, <1>3, CountUpShape, CountDownShape
  <2>3. subscriber_count' \in [Channels -> 0..Modulus - 1]
    <3>1. subscriber_count[op[t].channel] \in Int BY <1>b, <2>1, PubSubAssumption DEF Types
    <3>2. (subscriber_count[op[t].channel] + n) % Modulus \in 0..Modulus - 1
      BY <3>1, PubSubAssumption
    <3> QED BY <1>b, <2>1, <3>2 DEF Types, Counts
  <2>4. Types' BY <1>b, <2>1, <2>3 DEF Types, queueVars, histVars, Moves
  <2>5. Placed(op'[t]) BY <1>b, <2>1, <2>2 DEF Placed, Moves
  <2> QED BY <1>q, <2>1, <2>2, <2>4, <2>5
<1>4. CASE remove_from_channel(t)
  <2>1. /\ Moves(t) /\ op[t].pc = "leave" /\ op[t].kind = "unsubscribe" /\ op[t].id \in Ids
        /\ op[t].channel \in Channels /\ op'[t].channel = op[t].channel
        /\ op'[t].pc \in {"uncount", "return"}
        /\ members' = [members EXCEPT ![op[t].channel][op[t].id] = 0]
        /\ UNCHANGED <<channels, subscriber_count, subscribers, objects, queueVars, next_id,
                       histVars, ops>>
    BY <1>b, <1>4, LeaveShape
  <2>2. members' \in [Channels -> [Ids -> 0..objects']] BY <1>b, <1>o, <2>1 DEF Types
  <2>3. Types' BY <1>b, <2>1, <2>2 DEF Types, queueVars, histVars, Moves
  <2>4. Placed(op'[t]) BY <1>b, <2>1 DEF Placed, Moves
  <2> QED BY <1>q, <2>1, <2>3, <2>4
<1>5. CASE psubscribe_push(t) \/ InvalidPattern(t) \/ retain(t) \/ SweepEnds(t)
  <2>1. /\ Moves(t) /\ op[t].pc \in {"push", "retain", "next"}
        /\ op[t].kind \in {"psubscribe", "punsubscribe", "remove"}
        /\ op'[t].pc \in {"return", "forget", "retain"}
        /\ op'[t].pc # "return" => op[t].kind = "remove"
        /\ op'[t].channel = op[t].channel
        /\ UNCHANGED <<channels, members, subscriber_count, subscribers, objects, queueVars,
                       next_id, histVars, ops>>
    BY <1>b, <1>5, PassShape
  <2>2. Types' BY <1>b, <2>1 DEF Types, queueVars, histVars, Moves
  <2>3. Placed(op'[t]) BY <1>b, <2>1 DEF Placed, Moves
  <2> QED BY <1>q, <2>1, <2>2, <2>3
<1>6. CASE Sweep(t)
  <2>1. /\ Moves(t) /\ op[t].pc = "sweep" /\ op[t].kind = "remove" /\ op'[t].pc = "next"
        /\ UNCHANGED <<mapVars, queueVars, next_id, histVars, ops>>
    BY <1>b, <1>6, SweepShape
  <2>2. Types' BY <1>b, <2>1 DEF Types, mapVars, queueVars, histVars, Moves
  <2>3. Placed(op'[t]) BY <1>b, <2>1 DEF Placed, Moves
  <2> QED BY <1>q, <2>1, <2>2, <2>3 DEF mapVars
<1>7. ASSUME NEW c \in Channels, SweepChannel(t, c) PROVE Base'
  <2>1. /\ Moves(t) /\ op[t].pc = "next" /\ op[t].kind = "remove" /\ op[t].id \in Ids
        /\ op'[t].channel = c /\ op'[t].pc \in {"uncount", "next"}
        /\ members' = [members EXCEPT ![c][op[t].id] = 0]
        /\ UNCHANGED <<channels, subscriber_count, subscribers, objects, queueVars, next_id,
                       histVars, ops>>
    BY <1>b, <1>7, SweepChannelShape
  <2>2. members' \in [Channels -> [Ids -> 0..objects']] BY <1>b, <1>o, <2>1 DEF Types
  <2>3. Types' BY <1>b, <2>1, <2>2 DEF Types, queueVars, histVars, Moves
  <2>4. Placed(op'[t]) BY <1>b, <2>1 DEF Placed, Moves
  <2> QED BY <1>q, <2>1, <2>3, <2>4
<1>8. CASE Forget(t)
  <2>1. /\ Moves(t) /\ op[t].pc = "forget" /\ op[t].kind = "remove" /\ op[t].id \in Ids
        /\ op'[t].pc = "return" /\ subscribers' = [subscribers EXCEPT ![op[t].id] = 0]
        /\ UNCHANGED <<channels, members, subscriber_count, objects, queueVars, next_id, histVars, ops>>
    BY <1>b, <1>8, ForgetShape
  <2>2. subscribers' \in [Ids -> 0..objects'] BY <1>b, <1>o, <2>1 DEF Types
  <2>3. Types' BY <1>b, <2>1, <2>2 DEF Types, queueVars, histVars, Moves
  <2>4. Placed(op'[t]) BY <1>b, <2>1 DEF Placed, Moves
  <2> QED BY <1>q, <2>1, <2>3, <2>4
<1>9. CASE Open(t) \/ LockPatterns(t) \/ MatchEnds(t)
  <2>1. /\ Moves(t) /\ op[t].pc \in {"open", "lock", "fan", "match"} /\ op[t].kind = "publish"
        /\ op'[t].channel = op[t].channel /\ op'[t].pc \in {"fan", "lock", "match", "return"}
        /\ next_id' \in Nat /\ UNCHANGED <<mapVars, queueVars, histVars, ops>>
    <3>1. CASE Open(t) BY <1>b, <3>1, OpenShape
    <3>2. CASE LockPatterns(t) BY <1>b, <3>2, LockShape
    <3>3. CASE MatchEnds(t)
      <4>1. next_id \in Nat BY <1>b DEF Types
      <4> QED BY <1>b, <3>3, <4>1, MatchEndsShape
    <3> QED BY <1>9, <3>1, <3>2, <3>3
  <2>2. Types' BY <1>b, <2>1 DEF Types, mapVars, queueVars, histVars, Moves
  <2>3. Placed(op'[t]) BY <1>b, <2>1 DEF Placed, Moves
  <2> QED BY <1>q, <2>1, <2>2, <2>3 DEF mapVars
<1>10. CASE Match(t) \/ \E i \in Ids : FanOut(t, i)
  <2>1. /\ Moves(t) /\ op[t].pc \in {"fan", "match"} /\ op[t].kind = "publish"
        /\ op'[t].channel = op[t].channel /\ op'[t].pc = op[t].pc
        /\ UNCHANGED queueVars \/ (\E o : deliver_message(t, o))
        /\ UNCHANGED <<mapVars, next_id, histVars, ops>>
    <3>1. CASE Match(t) BY <1>b, <3>1, MatchShape
    <3>2. ASSUME NEW i \in Ids, FanOut(t, i)
          PROVE  /\ Moves(t) /\ op[t].pc \in {"fan", "match"} /\ op[t].kind = "publish"
                 /\ op'[t].channel = op[t].channel /\ op'[t].pc = op[t].pc
                 /\ UNCHANGED queueVars \/ (\E o : deliver_message(t, o))
                 /\ UNCHANGED <<mapVars, next_id, histVars, ops>>
      BY <1>b, <3>2, FanOutShape
    <3> QED BY <1>10, <3>1, <3>2
  <2>2. /\ queue' \in [Objects -> Seq(Messages)] /\ heard' \in [Objects -> SUBSET Nat]
        /\ taken' = taken
    <3>1. CASE UNCHANGED queueVars BY <1>b, <3>1 DEF queueVars, Types
    <3>2. CASE \E o : deliver_message(t, o) BY <1>b, <3>2, DeliverShape
    <3> QED BY <2>1, <3>1, <3>2
  <2>3. Types' BY <1>b, <2>1, <2>2 DEF Types, mapVars, histVars, Moves
  <2>4. Placed(op'[t]) BY <1>b, <2>1 DEF Placed, Moves
  <2> QED BY <1>q, <2>1, <2>3, <2>4 DEF mapVars
<1>11. CASE Return(t)
  <2>1. /\ op' \in [Tasks -> Ops] /\ (\A u \in Tasks \ {t} : op'[u] = op[u]) /\ op'[t] = Idle
        /\ op[t].pc = "return"
        /\ subscribed' = IF op[t].kind = "subscribe" /\ op[t].id \notin clashed
                         THEN [subscribed EXCEPT ![op[t].channel] = @ \cup {op[t].id}]
                         ELSE subscribed
        /\ UNCHANGED <<mapVars, queueVars, next_id, clashed, ops>>
    BY <1>b, <1>11, ReturnShape
  <2>2. op[t].kind = "subscribe" => op[t].id \in Ids /\ op[t].channel \in Channels
    BY <1>b DEF Placed, Changing
  <2>3. subscribed' \in [Channels -> SUBSET Ids] BY <1>b, <2>1, <2>2 DEF Types
  <2>4. Types' BY <1>b, <2>1, <2>3 DEF Types, mapVars, queueVars
  <2>5. Places' BY <1>b, <2>1, IdleFields DEF Places, At, mapVars
  <2>6. Room' BY <1>b, <2>1, IdleFields, RoomKept DEF mapVars
  <2> QED BY <2>4, <2>5, <2>6 DEF Base
<1> QED
  BY <1>1, <1>2, <1>3, <1>4, <1>5, <1>6, <1>7, <1>8, <1>9, <1>10, <1>11 DEF Step

(* Polling takes the oldest message of one queue. *)
LEMMA PollShape ==
  ASSUME Base, NEW i \in Ids, get_next_message(i)
  PROVE  \E o \in Objects :
           /\ \A x \in Objects \ {o} : queue'[x] = queue[x] /\ taken'[x] = taken[x]
           /\ Len(queue[o]) \in Nat \ {0} /\ Len(queue'[o]) = Len(queue[o]) - 1
           /\ \A j \in 1..Len(queue[o]) - 1 : queue'[o][j] = queue[o][j + 1]
           /\ queue[o][1] \in Messages
           /\ taken'[o] = [taken[o] EXCEPT ![queue[o][1].from] = queue[o][1].call]
           /\ queue' \in [Objects -> Seq(Messages)] /\ taken' \in [Objects -> [Tasks -> Nat]]
           /\ UNCHANGED <<mapVars, heard, next_id, op, histVars, ops>>
<1> DEFINE o == subscribers[i]
<1>b. Types /\ Room BY DEF Base
<1>1. o \in 0..objects /\ objects \in Nat /\ ops \in 0..MaxOps BY <1>b DEF Types
<1>2. o # 0 /\ queue[o] # << >> BY DEF get_next_message
<1>3. o \in Objects BY <1>b, <1>1, <1>2, MakersFinite, PubSubAssumption DEF Room, Objects
<1>4. /\ queue' = [queue EXCEPT ![o] = Tail(queue[o])]
      /\ taken' = [taken EXCEPT ![o] = [taken[o] EXCEPT ![Head(queue[o]).from] = Head(queue[o]).call]]
      /\ UNCHANGED <<mapVars, heard, next_id, op, histVars, ops>>
  BY DEF get_next_message
<1>5. queue \in [Objects -> Seq(Messages)] /\ taken \in [Objects -> [Tasks -> Nat]] BY <1>b DEF Types
<1> HIDE DEF o
<1>6. queue[o] \in Seq(Messages) BY <1>3, <1>5
<1>7. /\ Len(queue[o]) \in Nat \ {0} /\ Len(Tail(queue[o])) = Len(queue[o]) - 1
      /\ \A j \in 1..Len(queue[o]) - 1 : Tail(queue[o])[j] = queue[o][j + 1]
      /\ Tail(queue[o]) \in Seq(Messages) /\ Head(queue[o]) = queue[o][1] /\ queue[o][1] \in Messages
  BY <1>2, <1>6
<1>8. queue[o][1].from \in Tasks /\ queue[o][1].call \in Nat BY <1>7 DEF Messages
<1>9. queue'[o] = Tail(queue[o]) /\ queue' \in [Objects -> Seq(Messages)] BY <1>3, <1>4, <1>5, <1>7
<1>10. /\ taken'[o] = [taken[o] EXCEPT ![queue[o][1].from] = queue[o][1].call]
       /\ taken' \in [Objects -> [Tasks -> Nat]]
  BY <1>3, <1>4, <1>5, <1>7, <1>8
<1>11. \A x \in Objects \ {o} : queue'[x] = queue[x] /\ taken'[x] = taken[x] BY <1>4, <1>5
<1> QED BY <1>3, <1>4, <1>7, <1>9, <1>10, <1>11

(* Every step keeps the types. *)
LEMMA BaseNext == Base /\ [Next]_vars => Base'
<1> SUFFICES ASSUME Base, [Next]_vars PROVE Base'
  OBVIOUS
<1>1. ASSUME NEW t \in Tasks, Calls(t) PROVE Base' BY <1>1, BaseCall
<1>2. ASSUME NEW t \in Tasks, Step(t) PROVE Base' BY <1>2, BaseStep
<1>3. ASSUME NEW i \in Ids, get_next_message(i) PROVE Base'
  <2>1. /\ queue' \in [Objects -> Seq(Messages)] /\ taken' \in [Objects -> [Tasks -> Nat]]
        /\ UNCHANGED <<mapVars, heard, next_id, op, histVars, ops>>
    BY <1>3, PollShape
  <2>2. Types' BY <2>1 DEF Base, Types, mapVars, histVars
  <2>3. Places' /\ Room' BY <2>1 DEF Base, Places, Room, Makers, At, mapVars
  <2> QED BY <2>2, <2>3 DEF Base
<1>4. ASSUME UNCHANGED vars PROVE Base'
  BY <1>4 DEF vars, mapVars, queueVars, histVars, Base, Types, Places, Room, Makers, At
<1> QED BY <1>1, <1>2, <1>3, <1>4 DEF Next

-----------------------------------------------------------------------------
(* No message and no poll is newer than the publisher's call in progress. *)
Ordered ==
  /\ PublisherOrder
  /\ \A t \in Tasks : op[t].call <= ops
  /\ \A o \in Objects, t \in Tasks :
       taken[o][t] <= ops /\ (op[t].kind # "idle" => taken[o][t] <= op[t].call)
  /\ \A o \in Objects : \A j \in 1..Len(queue[o]) :
       LET m == queue[o][j]
       IN  m.call <= ops /\ (op[m.from].kind # "idle" => m.call <= op[m.from].call)

(* What the proof needs of the types. *)
LEMMA OrderTypes ==
  ASSUME Types
  PROVE  /\ ops \in Nat /\ \A t \in Tasks : op[t].call \in Nat
         /\ \A o \in Objects : /\ Len(queue[o]) \in Nat /\ \A t \in Tasks : taken[o][t] \in Nat
                               /\ \A j \in 1..Len(queue[o]) :
                                    queue[o][j].from \in Tasks /\ queue[o][j].call \in Nat
<1>1. ops \in Nat BY PubSubAssumption DEF Types
<1>2. \A t \in Tasks : op[t].call \in Nat BY DEF Types, Ops
<1>3. ASSUME NEW o \in Objects, NEW j \in 1..Len(queue[o])
      PROVE  queue[o][j].from \in Tasks /\ queue[o][j].call \in Nat
  <2>1. queue[o] \in Seq(Messages) BY DEF Types
  <2>2. queue[o][j] \in Messages BY <2>1
  <2> QED BY <2>2 DEF Messages
<1>4. \A o \in Objects : Len(queue[o]) \in Nat BY DEF Types
<1>5. \A o \in Objects : \A t \in Tasks : taken[o][t] \in Nat BY DEF Types
<1> QED BY <1>1, <1>2, <1>3, <1>4, <1>5

(* A step that leaves the queues alone and starts no call keeps the order. *)
LEMMA OrderedQuiet ==
  ASSUME Types, Ordered, UNCHANGED <<queue, taken, ops>>,
         \A u \in Tasks : \/ op'[u].call = op[u].call /\ op'[u].kind = op[u].kind
                          \/ op'[u].kind = "idle" /\ op'[u].call = 0
  PROVE  Ordered'
<1>1. PublisherOrder' BY DEF Ordered, PublisherOrder
<1>2. \A t \in Tasks : op'[t].call <= ops' BY OrderTypes DEF Ordered
<1>3. \A o \in Objects, t \in Tasks :
        taken'[o][t] <= ops' /\ (op'[t].kind # "idle" => taken'[o][t] <= op'[t].call)
  BY DEF Ordered
<1>4. \A o \in Objects : \A j \in 1..Len(queue'[o]) :
        LET m == queue'[o][j]
        IN  m.call <= ops' /\ (op'[m.from].kind # "idle" => m.call <= op'[m.from].call)
  BY OrderTypes DEF Ordered
<1> QED BY <1>1, <1>2, <1>3, <1>4 DEF Ordered

(* A call is newer than every message. *)
LEMMA OrderedCall ==
  ASSUME Types, Ordered, NEW t \in Tasks, UNCHANGED <<queue, taken>>, ops' = ops + 1,
         op'[t].call = ops + 1,
         \A u \in Tasks \ {t} : op'[u].call = op[u].call /\ op'[u].kind = op[u].kind
  PROVE  Ordered'
<1>1. PublisherOrder' BY DEF Ordered, PublisherOrder
<1>2. \A u \in Tasks : op'[u].call <= ops' BY OrderTypes DEF Ordered
<1>3. \A o \in Objects, u \in Tasks :
        taken'[o][u] <= ops' /\ (op'[u].kind # "idle" => taken'[o][u] <= op'[u].call)
  BY OrderTypes DEF Ordered
<1>4. ASSUME NEW o \in Objects, NEW j \in 1..Len(queue[o])
      PROVE  LET m == queue[o][j]
             IN  m.call <= ops' /\ (op'[m.from].kind # "idle" => m.call <= op'[m.from].call)
  <2> DEFINE m == queue[o][j]
  <2>1. m.from \in Tasks /\ m.call \in Nat /\ ops \in Nat BY OrderTypes
  <2>2. m.call <= ops /\ (op[m.from].kind # "idle" => m.call <= op[m.from].call) BY DEF Ordered
  <2> HIDE DEF m
  <2>3. m.call <= ops' BY <2>1, <2>2
  <2>4. op'[m.from].kind # "idle" => m.call <= op'[m.from].call
    <3>1. CASE m.from = t BY <2>1, <2>3, <3>1
    <3>2. CASE m.from # t BY <2>1, <2>2, <3>2
    <3> QED BY <3>1, <3>2
  <2> QED BY <2>3, <2>4 DEF m
<1> QED BY <1>1, <1>2, <1>3, <1>4 DEF Ordered

(* A delivered message is its publisher's newest. *)
LEMMA OrderedDeliver ==
  ASSUME Types, Types', Ordered, NEW t \in Tasks, op[t].kind # "idle", NEW o, deliver_message(t, o),
         ops' = ops, \A u \in Tasks : op'[u].call = op[u].call /\ op'[u].kind = op[u].kind
  PROVE  Ordered'
<1>1. /\ UNCHANGED taken /\ \A x \in Objects \ {o} : queue'[x] = queue[x]
      /\ o \in Objects => \E d \in {0, 1} :
              LET n == Len(queue[o]) - d
              IN  /\ n \in Nat /\ Len(queue'[o]) = n + 1
                  /\ \A j \in 1..n : queue'[o][j] = queue[o][j + d]
                  /\ queue'[o][n + 1].from = t /\ queue'[o][n + 1].call = op[t].call
  BY DeliverShape
<1>2. ASSUME NEW x \in Objects, NEW j \in 1..Len(queue'[x])
      PROVE  \/ \E k \in 1..Len(queue[x]) : queue'[x][j] = queue[x][k]
             \/ queue'[x][j].from = t /\ queue'[x][j].call = op[t].call
  <2>1. CASE x # o BY <1>1, <1>2, <2>1
  <2>2. CASE x = o
    <3>1. PICK d \in {0, 1} :
              LET n == Len(queue[o]) - d
              IN  /\ n \in Nat /\ Len(queue'[o]) = n + 1
                  /\ \A k \in 1..n : queue'[o][k] = queue[o][k + d]
                  /\ queue'[o][n + 1].from = t /\ queue'[o][n + 1].call = op[t].call
      BY <1>1, <2>2
    <3> DEFINE n == Len(queue[o]) - d
    <3>2. Len(queue[o]) \in Nat BY <2>2, OrderTypes
    <3>3. n \in Nat /\ Len(queue'[o]) = n + 1 BY <3>1
    <3>4. CASE j = n + 1 BY <3>1, <3>4, <2>2
    <3>5. CASE j # n + 1
      <4>1. j \in 1..n BY <2>2, <3>3, <3>5
      <4>2. j + d \in 1..Len(queue[o]) BY <3>2, <3>3, <4>1
      <4> QED BY <2>2, <3>1, <4>1, <4>2
    <3> QED BY <3>4, <3>5
  <2> QED BY <2>1, <2>2
<1>3. ASSUME NEW x \in Objects, NEW j \in 1..Len(queue'[x])
      PROVE  LET m == queue'[x][j]
             IN  /\ m.call <= ops' /\ (op'[m.from].kind # "idle" => m.call <= op'[m.from].call)
                 /\ taken'[x][m.from] <= m.call
  <2>1. CASE queue'[x][j].from = t /\ queue'[x][j].call = op[t].call
    BY <1>1, <2>1, OrderTypes DEF Ordered
  <2>2. ASSUME NEW k \in 1..Len(queue[x]), queue'[x][j] = queue[x][k]
        PROVE  LET m == queue'[x][j]
               IN  /\ m.call <= ops' /\ (op'[m.from].kind # "idle" => m.call <= op'[m.from].call)
                   /\ taken'[x][m.from] <= m.call
    <3>1. queue[x][k].from \in Tasks BY OrderTypes
    <3>2. /\ queue[x][k].call <= ops
          /\ op[queue[x][k].from].kind # "idle" => queue[x][k].call <= op[queue[x][k].from].call
          /\ taken[x][queue[x][k].from] <= queue[x][k].call
      BY DEF Ordered, PublisherOrder
    <3> QED BY <1>1, <2>2, <3>1, <3>2
  <2> QED BY <1>2, <2>1, <2>2
<1>4. ASSUME NEW x \in Objects, NEW j \in 1..Len(queue'[x]), NEW k \in 1..j,
             queue'[x][k].from = queue'[x][j].from
      PROVE  queue'[x][k].call <= queue'[x][j].call
  <2>1. CASE x # o BY <1>1, <1>4, <2>1 DEF Ordered, PublisherOrder
  <2>2. CASE x = o
    <3>1. PICK d \in {0, 1} :
              LET n == Len(queue[o]) - d
              IN  /\ n \in Nat /\ Len(queue'[o]) = n + 1
                  /\ \A h \in 1..n : queue'[o][h] = queue[o][h + d]
                  /\ queue'[o][n + 1].from = t /\ queue'[o][n + 1].call = op[t].call
      BY <1>1, <2>2
    <3> DEFINE n == Len(queue[o]) - d
    <3>2. Len(queue[o]) \in Nat BY <2>2, OrderTypes
    <3>3. n \in Nat /\ Len(queue'[o]) = n + 1 BY <3>1
    <3>4. CASE j # n + 1
      <4>1. j \in 1..n /\ k \in 1..n BY <2>2, <3>3, <3>4
      <4>2. j + d \in 1..Len(queue[o]) /\ k + d \in 1..j + d BY <3>2, <3>3, <4>1
      <4>3. queue'[x][j] = queue[o][j + d] /\ queue'[x][k] = queue[o][k + d] BY <2>2, <3>1, <4>1
      <4> QED BY <1>4, <2>2, <4>2, <4>3 DEF Ordered, PublisherOrder
    <3>5. CASE j = n + 1
      <4>1. queue'[x][j].from = t /\ queue'[x][j].call = op[t].call BY <2>2, <3>1, <3>5
      <4>2. k \in 1..Len(queue'[x]) BY <2>2, <3>3, <3>5
      <4>3. queue'[x][k].call <= op'[t].call BY <1>3, <1>4, <4>1, <4>2
      <4> QED BY <4>1, <4>3
    <3> QED BY <3>4, <3>5
  <2> QED BY <2>1, <2>2
<1>5. PublisherOrder' BY <1>3, <1>4 DEF PublisherOrder
<1>6. \A u \in Tasks : op'[u].call <= ops' BY DEF Ordered
<1>7. \A x \in Objects, u \in Tasks :
        taken'[x][u] <= ops' /\ (op'[u].kind # "idle" => taken'[x][u] <= op'[u].call)
  BY <1>1 DEF Ordered
<1> QED BY <1>3, <1>5, <1>6, <1>7 DEF Ordered

(* A polled message is the oldest of its publisher. *)
LEMMA OrderedPoll ==
  ASSUME Base, Ordered, NEW i \in Ids, get_next_message(i)
  PROVE  Ordered'
<1>t. Types BY DEF Base
<1>1. PICK o \in Objects :
           /\ \A x \in Objects \ {o} : queue'[x] = queue[x] /\ taken'[x] = taken[x]
           /\ Len(queue[o]) \in Nat \ {0} /\ Len(queue'[o]) = Len(queue[o]) - 1
           /\ \A j \in 1..Len(queue[o]) - 1 : queue'[o][j] = queue[o][j + 1]
           /\ queue[o][1] \in Messages
           /\ taken'[o] = [taken[o] EXCEPT ![queue[o][1].from] = queue[o][1].call]
           /\ UNCHANGED <<mapVars, heard, next_id, op, histVars, ops>>
  BY PollShape
<1> DEFINE h == queue[o][1]
<1>2. h.from \in Tasks /\ h.call \in Nat BY <1>1 DEF Messages
<1>3. 1 \in 1..Len(queue[o]) BY <1>1
<1>4. \A u \in Tasks : taken'[o][u] = IF u = h.from THEN h.call ELSE taken[o][u]
  BY <1>1, <1>2, <1>t DEF Types
<1>5. \A j \in 1..Len(queue'[o]) : /\ j + 1 \in 1..Len(queue[o]) /\ queue'[o][j] = queue[o][j + 1]
                                   /\ \A k \in 1..j : k + 1 \in 1..j + 1 /\ k \in 1..Len(queue'[o])
  BY <1>1
<1>6. \A j \in 1..Len(queue[o]) : 1 \in 1..j BY <1>1
<1>7. PublisherOrder'
  <2>1. ASSUME NEW x \in Objects \ {o}, NEW j \in 1..Len(queue'[x])
        PROVE  /\ taken'[x][queue'[x][j].from] <= queue'[x][j].call
               /\ \A k \in 1..j : queue'[x][k].from = queue'[x][j].from
                                    => queue'[x][k].call <= queue'[x][j].call
    BY <1>1, <2>1 DEF Ordered, PublisherOrder
  <2>2. ASSUME NEW j \in 1..Len(queue'[o])
        PROVE  taken'[o][queue'[o][j].from] <= queue'[o][j].call
    <3>1. queue'[o][j] = queue[o][j + 1] /\ j + 1 \in 1..Len(queue[o]) BY <1>5
    <3>2. taken[o][queue[o][j + 1].from] <= queue[o][j + 1].call BY <3>1 DEF Ordered, PublisherOrder
    <3>3. queue[o][j + 1].from = h.from => h.call <= queue[o][j + 1].call
      BY <1>6, <3>1 DEF Ordered, PublisherOrder
    <3>4. queue[o][j + 1].from \in Tasks BY <1>t, <3>1, OrderTypes
    <3> QED BY <1>4, <3>1, <3>2, <3>3, <3>4
  <2>3. ASSUME NEW j \in 1..Len(queue'[o]), NEW k \in 1..j, queue'[o][k].from = queue'[o][j].from
        PROVE  queue'[o][k].call <= queue'[o][j].call
    <3>1. /\ queue'[o][j] = queue[o][j + 1] /\ j + 1 \in 1..Len(queue[o])
          /\ queue'[o][k] = queue[o][k + 1] /\ k + 1 \in 1..j + 1
      BY <1>5
    <3> QED BY <2>3, <3>1 DEF Ordered, PublisherOrder
  <2> QED BY <2>1, <2>2, <2>3 DEF PublisherOrder
<1>8. \A u \in Tasks : op'[u].call <= ops' BY <1>1 DEF Ordered
<1>9. \A x \in Objects, u \in Tasks :
        taken'[x][u] <= ops' /\ (op'[u].kind # "idle" => taken'[x][u] <= op'[u].call)
  <2>1. h.call <= ops /\ (op[h.from].kind # "idle" => h.call <= op[h.from].call)
    BY <1>3 DEF Ordered
  <2>2. UNCHANGED <<op, ops>> BY <1>1
  <2>3. \A x \in Objects, u \in Tasks :
          taken[x][u] <= ops /\ (op[u].kind # "idle" => taken[x][u] <= op[u].call)
    BY DEF Ordered
  <2>4. \A x \in Objects \ {o} : taken'[x] = taken[x] BY <1>1
  <2> HIDE DEF h
  <2> QED BY <1>4, <2>1, <2>2, <2>3, <2>4
<1>10. \A x \in Objects : \A j \in 1..Len(queue'[x]) :
        LET m == queue'[x][j]
        IN  m.call <= ops' /\ (op'[m.from].kind # "idle" => m.call <= op'[m.from].call)
  <2>1. \A x \in Objects : \A j \in 1..Len(queue'[x]) :
          \E k \in 1..Len(queue[x]) : queue'[x][j] = queue[x][k]
    BY <1>1, <1>5
  <2>2. UNCHANGED <<op, ops>> BY <1>1
  <2>3. \A x \in Objects : \A k \in 1..Len(queue[x]) :
          /\ queue[x][k].call <= ops
          /\ op[queue[x][k].from].kind # "idle" => queue[x][k].call <= op[queue[x][k].from].call
    BY DEF Ordered
  <2> SUFFICES ASSUME NEW x \in Objects, NEW j \in 1..Len(queue'[x])
               PROVE  /\ queue'[x][j].call <= ops
                      /\ op[queue'[x][j].from].kind # "idle" =>
                           queue'[x][j].call <= op[queue'[x][j].from].call
    BY <2>2
  <2>4. PICK k \in 1..Len(queue[x]) : queue'[x][j] = queue[x][k] BY <2>1
  <2> QED BY <2>3, <2>4
<1> QED BY <1>7, <1>8, <1>9, <1>10 DEF Ordered

(* Every step of an operation but the last one moves it on, and delivers one message at most. *)
LEMMA StepMoves ==
  ASSUME Base, NEW t \in Tasks, Step(t), ~Return(t)
  PROVE  /\ Moves(t) /\ op[t].kind # "idle" /\ UNCHANGED <<ops, subscribed, clashed>>
         /\ UNCHANGED queueVars \/ (op[t].kind = "publish" /\ \E o : deliver_message(t, o))
<1>b. Types /\ Places BY DEF Base
<1> USE DEF mapVars, histVars
<1>1. CASE get_or_create_subscriber(t) BY <1>b, <1>1, GetShape
<1>2. CASE add_subscriber(t) BY <1>b, <1>2, AddShape
<1>3. CASE CountUp(t) BY <1>b, <1>3, CountUpShape
<1>4. CASE CountDown(t) BY <1>b, <1>4, CountDownShape
<1>5. CASE remove_from_channel(t) BY <1>b, <1>5, LeaveShape
<1>6. CASE psubscribe_push(t) \/ InvalidPattern(t) \/ retain(t) \/ SweepEnds(t)
  BY <1>b, <1>6, PassShape
<1>7. CASE Sweep(t) BY <1>b, <1>7, SweepShape
<1>8. CASE \E c \in Channels : SweepChannel(t, c) BY <1>b, <1>8, SweepChannelShape
<1>9. CASE Forget(t) BY <1>b, <1>9, ForgetShape
<1>10. CASE Open(t) BY <1>b, <1>10, OpenShape
<1>11. ASSUME NEW i \in Ids, FanOut(t, i)
       PROVE  /\ Moves(t) /\ op[t].kind # "idle" /\ UNCHANGED <<ops, subscribed, clashed>>
              /\ UNCHANGED queueVars \/ (op[t].kind = "publish" /\ \E o : deliver_message(t, o))
  BY <1>b, <1>11, FanOutShape
<1>12. CASE LockPatterns(t) BY <1>b, <1>12, LockShape
<1>13. CASE Match(t) BY <1>b, <1>13, MatchShape
<1>14. CASE MatchEnds(t) BY <1>b, <1>14, MatchEndsShape
<1> QED
  BY <1>1, <1>2, <1>3, <1>4, <1>5, <1>6, <1>7, <1>8, <1>9, <1>10, <1>11, <1>12, <1>13, <1>14 DEF Step

(* Nothing is ordered before the first call. *)
LEMMA OrderedInit == Init => Ordered
<1> SUFFICES ASSUME Init PROVE Ordered
  OBVIOUS
<1>1. \A t \in Tasks : op[t] = Idle BY DEF Init
<1>2. ops = 0 /\ \A o \in Objects : queue[o] = << >> /\ \A t \in Tasks : taken[o][t] = 0 BY DEF Init
<1>3. \A o \in Objects : 1..Len(queue[o]) = {} BY <1>2
<1> QED BY <1>1, <1>2, <1>3, IdleFields DEF Ordered, PublisherOrder

(* Every step keeps the order. *)
LEMMA OrderedNext == Base /\ Ordered /\ [Next]_vars => Ordered'
<1> SUFFICES ASSUME Base, Ordered, [Next]_vars PROVE Ordered'
  OBVIOUS
<1>b. Types BY DEF Base
<1>c. Types' BY BaseNext DEF Base
<1>1. ASSUME NEW t \in Tasks, Calls(t) PROVE Ordered'
  <2>1. PICK kind, i, c, p : Starts(t, kind, i, c, p) BY <1>1, CallsAre
  <2>2. Started(t, kind, i, c) BY <1>b, <2>1, CallShape
  <2> QED BY <1>b, <2>2, OrderedCall DEF Started, queueVars
<1>2. ASSUME NEW t \in Tasks, Step(t), ~Return(t) PROVE Ordered'
  <2>1. /\ op[t].kind # "idle" /\ UNCHANGED ops
        /\ \A u \in Tasks : op'[u].call = op[u].call /\ op'[u].kind = op[u].kind
    BY <1>2, StepMoves DEF Moves
  <2>2. CASE UNCHANGED queueVars BY <1>b, <2>1, <2>2, OrderedQuiet DEF queueVars
  <2>3. ASSUME NEW o, deliver_message(t, o) PROVE Ordered'
    BY <1>b, <1>c, <2>1, <2>3, OrderedDeliver
  <2> QED BY <1>2, <2>2, <2>3, StepMoves
<1>3. ASSUME NEW t \in Tasks, Return(t) PROVE Ordered'
  <2>1. /\ \A u \in Tasks \ {t} : op'[u] = op[u]
        /\ op'[t] = Idle /\ UNCHANGED <<queue, taken, ops>>
    BY <1>b, <1>3, ReturnShape DEF queueVars
  <2> QED BY <1>b, <2>1, IdleFields, OrderedQuiet
<1>4. ASSUME NEW i \in Ids, get_next_message(i) PROVE Ordered'
  BY <1>4, OrderedPoll
<1>5. ASSUME UNCHANGED vars PROVE Ordered'
  BY <1>b, <1>5, OrderedQuiet DEF vars, queueVars
<1> QED BY <1>1, <1>2, <1>3, <1>4, <1>5 DEF Next

-----------------------------------------------------------------------------
(* An id that never clashed is changed by one operation at a time. *)
OneAtATime ==
  \A t, u \in Tasks :
    /\ op[t].kind \in Changing /\ op[u].kind \in Changing
    /\ op[t].id = op[u].id /\ op[t].id \notin clashed
    => t = u

(* The channel's map has the subscriber that the id is polled through. *)
In(c, i) == c \in channels /\ subscribers[i] # 0 /\ members[c][i] = subscribers[i]

Standing ==
  /\ \A c \in Channels : \A i \in subscribed[c] \ clashed : In(c, i)
  /\ \A t \in Tasks : op[t].kind = "subscribe" /\ op[t].id \notin clashed =>
       /\ op[t].pc = "join" => op[t].obj = subscribers[op[t].id]
       /\ op[t].pc \in {"count", "return"} => In(op[t].channel, op[t].id)
  /\ \A t \in Tasks : op[t].id \notin clashed =>
       /\ op[t].kind = "remove" => \A c \in Channels : op[t].id \notin subscribed[c]
       /\ op[t].kind = "unsubscribe" => op[t].id \notin subscribed[op[t].channel]

(* Whom a publisher has to reach stands still meanwhile, and is reached once it is passed by. *)
Steady ==
  \A t \in Tasks : \A i \in op[t].steady \ clashed :
    /\ op[t].kind = "publish" /\ ~Busy(i) /\ i \in subscribed[op[t].channel]
    /\ op[t].pc # "lock"
    /\ (op[t].pc = "fan" /\ i \notin op[t].left) \/ op[t].pc \in {"match", "return"}
         => op[t].call \in heard[subscribers[i]]

Reach == OneAtATime /\ Standing /\ Steady

(* Who is busy depends on the kinds and the ids alone. *)
LEMMA BusyKept ==
  ASSUME \A u \in Tasks : op'[u].kind = op[u].kind /\ op'[u].id = op[u].id, NEW i
  PROVE  Busy(i)' <=> Busy(i)
BY DEF Busy

(* Nothing is subscribed before the first call. *)
LEMMA ReachInit == Init => Reach
<1> SUFFICES ASSUME Init PROVE Reach
  OBVIOUS
<1>1. \A t \in Tasks : op[t] = Idle BY DEF Init
<1>2. \A c \in Channels : subscribed[c] = {} BY DEF Init
<1> QED BY <1>1, <1>2, IdleFields DEF Reach, OneAtATime, Standing, Steady, Changing

(* A call on an id that is busy clashes; any other one finds nobody in its way. *)
LEMMA ReachCall == ASSUME Base, Reach, NEW t \in Tasks, Calls(t) PROVE Reach'
<1>b. Types /\ Places BY DEF Base
<1>1. PICK kind, i, c, p : Starts(t, kind, i, c, p) BY CallsAre
<1>2. Started(t, kind, i, c) BY <1>b, <1>1, CallShape
<1>3. /\ kind \in Kinds \ {"idle"} /\ (kind \in Changing => i \in Ids)
      /\ (kind \in {"subscribe", "unsubscribe", "publish"} => c \in Channels)
  BY <1>1 DEF Starts
<1>4. /\ op[t].kind = "idle" /\ op'[t].kind = kind /\ op'[t].id = i /\ op'[t].channel = c
      /\ op'[t].pc = FirstStep[kind]
      /\ op'[t].steady = IF kind = "publish" THEN {j \in subscribed[c] : ~Busy(j)} ELSE {}
  BY <1>2 DEF Started
<1>5. \A u \in Tasks \ {t} :
         /\ op'[u].kind = op[u].kind /\ op'[u].id = op[u].id /\ op'[u].channel = op[u].channel
         /\ op'[u].pc = op[u].pc /\ op'[u].obj = op[u].obj /\ op'[u].call = op[u].call
         /\ op'[u].left = op[u].left
         /\ op'[u].steady = IF kind \in Changing THEN op[u].steady \ {i} ELSE op[u].steady
  BY <1>2 DEF Started
<1>6. /\ clashed' = IF kind \in Changing /\ Busy(i) THEN clashed \cup {i} ELSE clashed
      /\ clashed \subseteq clashed' /\ UNCHANGED <<channels, members, subscribers, heard>>
  BY <1>2 DEF Started, mapVars, queueVars
<1>7. \A d \in Channels : subscribed'[d] =
        IF (kind = "unsubscribe" /\ c = d) \/ kind = "remove" THEN subscribed[d] \ {i} ELSE subscribed[d]
  BY <1>2 DEF Started
<1>8. op'[t].pc \in {"get", "leave", "retain", "sweep", "open"} BY <1>3, <1>4, FirstSteps
<1>9. "idle" \notin Changing /\ "publish" \notin Changing BY DEF Changing
<1>10. OneAtATime'
  <2>1. ASSUME NEW u \in Tasks \ {t}, op'[u].kind \in Changing, op'[t].kind \in Changing,
               op'[u].id = op'[t].id, op'[t].id \notin clashed'
        PROVE  FALSE
    <3>1. op[u].kind \in Changing /\ op[u].id = i BY <1>4, <1>5, <2>1
    <3>2. Busy(i) BY <3>1 DEF Busy
    <3> QED BY <1>4, <1>6, <2>1, <3>2
  <2>2. ASSUME NEW u \in Tasks \ {t}, NEW v \in Tasks \ {t}, op'[u].kind \in Changing,
               op'[v].kind \in Changing, op'[u].id = op'[v].id, op'[u].id \notin clashed'
        PROVE  u = v
    <3>1. op[u].kind \in Changing /\ op[v].kind \in Changing /\ op[u].id = op[v].id BY <1>5, <2>2
    <3>2. op[u].id \notin clashed BY <1>5, <1>6, <2>2
    <3> QED BY <3>1, <3>2 DEF Reach, OneAtATime
  <2> QED BY <2>1, <2>2 DEF OneAtATime
<1>11. Standing'
  <2>0. \A d \in Channels : subscribed'[d] \subseteq subscribed[d] BY <1>7
  <2>1. \A d \in Channels : \A j \in subscribed'[d] \ clashed' : In(d, j)'
    <3>1. \A d \in Channels : \A j \in subscribed[d] \ clashed : In(d, j) BY DEF Reach, Standing
    <3>2. \A d, j : In(d, j)' <=> In(d, j) BY <1>6 DEF In
    <3> QED BY <1>6, <2>0, <3>1, <3>2
  <2>2. \A u \in Tasks : op'[u].kind = "subscribe" /\ op'[u].id \notin clashed' =>
           /\ op'[u].pc = "join" => op'[u].obj = subscribers'[op'[u].id]
           /\ op'[u].pc \in {"count", "return"} => In(op[u].channel, op[u].id)'
    <3> TAKE u \in Tasks
    <3> HAVE op'[u].kind = "subscribe" /\ op'[u].id \notin clashed'
    <3>1. CASE u = t BY <1>8, <3>1
    <3>2. CASE u # t
      <4>1. op[u].kind = "subscribe" /\ op[u].id \notin clashed BY <1>5, <1>6, <3>2
      <4>2. /\ op[u].pc = "join" => op[u].obj = subscribers[op[u].id]
            /\ op[u].pc \in {"count", "return"} => In(op[u].channel, op[u].id)
        BY <4>1 DEF Reach, Standing
      <4>3. In(op[u].channel, op[u].id)' <=> In(op[u].channel, op[u].id) BY <1>5, <1>6, <3>2 DEF In
      <4> QED BY <1>5, <1>6, <3>2, <4>2, <4>3
    <3> QED BY <3>1, <3>2
  <2>3. ASSUME NEW u \in Tasks, op'[u].id \notin clashed'
        PROVE  /\ op'[u].kind = "remove" => \A d \in Channels : op'[u].id \notin subscribed'[d]
               /\ op'[u].kind = "unsubscribe" => op'[u].id \notin subscribed'[op'[u].channel]
    <3>1. CASE u = t BY <1>3, <1>4, <1>7, <3>1
    <3>2. CASE u # t
      <4>1. op[u].kind = "unsubscribe" => op[u].channel \in Channels BY <1>b DEF Places, Placed
      <4>2. op[u].id \notin clashed BY <1>5, <1>6, <2>3, <3>2
      <4>3. /\ op[u].kind = "remove" => \A d \in Channels : op[u].id \notin subscribed[d]
            /\ op[u].kind = "unsubscribe" => op[u].id \notin subscribed[op[u].channel]
        BY <4>2 DEF Reach, Standing
      <4> QED BY <1>5, <2>0, <3>2, <4>1, <4>3
    <3> QED BY <3>1, <3>2
  <2> QED BY <2>1, <2>2, <2>3 DEF Standing
<1>12. Steady'
  <2>1. \A j : Busy(j)' => Busy(j) \/ (kind \in Changing /\ j = i)
    BY <1>4, <1>5, <1>9 DEF Busy
  <2>2. ASSUME NEW j \in op'[t].steady \ clashed'
        PROVE  /\ op'[t].kind = "publish" /\ ~Busy(j)' /\ j \in subscribed'[op'[t].channel]
               /\ op'[t].pc \notin {"lock", "fan", "match", "return"}
    <3>1. kind = "publish" /\ c \in Channels /\ j \in subscribed[c] /\ ~Busy(j) BY <1>3, <1>4, <2>2
    <3> QED BY <1>4, <1>7, <1>8, <1>9, <2>1, <3>1
  <2>3. ASSUME NEW u \in Tasks \ {t}, NEW j \in op'[u].steady \ clashed'
        PROVE  /\ op'[u].kind = "publish" /\ ~Busy(j)' /\ j \in subscribed'[op'[u].channel]
               /\ op'[u].pc # "lock"
               /\ (op'[u].pc = "fan" /\ j \notin op'[u].left) \/ op'[u].pc \in {"match", "return"}
                    => op'[u].call \in heard'[subscribers'[j]]
    <3>1. j \in op[u].steady \ clashed /\ (kind \in Changing => j # i) BY <1>5, <1>6, <2>3
    <3>2. /\ op[u].kind = "publish" /\ ~Busy(j) /\ j \in subscribed[op[u].channel]
          /\ op[u].pc # "lock"
          /\ (op[u].pc = "fan" /\ j \notin op[u].left) \/ op[u].pc \in {"match", "return"}
               => op[u].call \in heard[subscribers[j]]
      BY <3>1 DEF Reach, Steady
    <3>3. op[u].channel \in Channels BY <1>b, <3>2 DEF Places, Placed
    <3>4. kind \in {"unsubscribe", "remove"} => kind \in Changing BY DEF Changing
    <3>5. j \in subscribed'[op[u].channel] BY <1>7, <3>1, <3>2, <3>3, <3>4
    <3> QED BY <1>5, <1>6, <2>1, <3>1, <3>2, <3>5
  <2> QED BY <2>2, <2>3 DEF Steady
<1> QED BY <1>10, <1>11, <1>12 DEF Reach

(* A subscriber whose subscription stands has an object. *)
LEMMA SubscriberObject ==
  ASSUME Base, Standing, NEW c \in Channels, NEW i \in subscribed[c] \ clashed
  PROVE  /\ subscribers[i] \in Objects /\ i \in Ids
         /\ c \in channels /\ members[c][i] = subscribers[i] /\ subscribers[i] # 0
<1>1. i \in Ids BY DEF Base, Types
<1>2. In(c, i) BY DEF Standing
<1>3. subscribers[i] \in 0..objects /\ objects \in Nat /\ ops \in 0..MaxOps BY <1>1 DEF Base, Types
<1>4. objects <= MaxOps
  <2>1. objects + Cardinality(Makers) <= ops BY DEF Base, Room
  <2> QED BY <1>3, <2>1, MakersFinite, PubSubAssumption
<1>5. subscribers[i] # 0 /\ c \in channels /\ members[c][i] = subscribers[i] BY <1>2 DEF In
<1> QED BY <1>1, <1>3, <1>4, <1>5, PubSubAssumption DEF Objects

(* A step of an operation on one id disturbs nobody else, if what it says of that id is true. *)
LEMMA ReachChange ==
  ASSUME Base, Reach, NEW t \in Tasks, Moves(t), op[t].kind \in Changing,
         UNCHANGED <<subscribed, clashed, heard>>, channels \subseteq channels',
         op'[t].channel = op[t].channel \/ op[t].kind = "remove",
         \A j \in Ids \ {op[t].id} : /\ subscribers'[j] = subscribers[j]
                                     /\ \A c \in Channels : members'[c][j] = members[c][j],
         op[t].id \notin clashed =>
           /\ \A c \in Channels : op[t].id \in subscribed[c] => In(c, op[t].id)'
           /\ op[t].kind = "subscribe" =>
                /\ op'[t].pc = "join" => op'[t].obj = subscribers'[op[t].id]
                /\ op'[t].pc \in {"count", "return"} => In(op[t].channel, op[t].id)'
  PROVE  Reach'
<1> DEFINE i == op[t].id
<1>b. Types /\ Places BY DEF Base
<1>1. /\ \A u \in Tasks : op'[u].kind = op[u].kind /\ op'[u].id = op[u].id
      /\ \A u \in Tasks : op'[u].call = op[u].call /\ op'[u].steady = op[u].steady
      /\ \A u \in Tasks \ {t} : op'[u] = op[u]
  BY DEF Moves
<1>2. \A j : Busy(j)' <=> Busy(j) BY <1>1, BusyKept
<1>3. i \in Ids BY <1>b DEF Places, Placed
<1>4. \A j \in Ids \ {i} : \A c \in Channels : In(c, j) => In(c, j)' BY DEF In
<1>5. \A u \in Tasks \ {t} : op[u].kind \in Changing /\ op[u].id \notin clashed => op[u].id # i
  BY DEF Reach, OneAtATime
<1>6. OneAtATime' BY <1>1 DEF Reach, OneAtATime
<1>7. Standing'
  <2>1. ASSUME NEW c \in Channels, NEW j \in subscribed'[c] \ clashed' PROVE In(c, j)'
    <3>1. j \in subscribed[c] \ clashed /\ j \in Ids BY <1>b, <2>1 DEF Types
    <3>2. CASE j = i BY <1>1, <3>1, <3>2 DEF In
    <3>3. CASE j # i
      <4>1. In(c, j) BY <3>1 DEF Reach, Standing
      <4> QED BY <1>4, <3>1, <3>3, <4>1
    <3> QED BY <3>2, <3>3
  <2>2. ASSUME NEW u \in Tasks, op'[u].kind = "subscribe", op'[u].id \notin clashed'
        PROVE  /\ op'[u].pc = "join" => op'[u].obj = subscribers'[op'[u].id]
               /\ op'[u].pc \in {"count", "return"} => In(op[u].channel, op[u].id)'
    <3>1. CASE u = t
      <4>1. op[t].kind = "subscribe" /\ op[t].id \notin clashed BY <1>1, <2>2, <3>1
      <4>2. op'[t].channel = op[t].channel BY <4>1
      <4>3. /\ op'[t].pc = "join" => op'[t].obj = subscribers'[op[t].id]
            /\ op'[t].pc \in {"count", "return"} =>
                 /\ op[t].channel \in channels' /\ subscribers'[op[t].id] # 0
                 /\ members'[op[t].channel][op[t].id] = subscribers'[op[t].id]
        BY <1>1, <4>1, <4>2 DEF In
      <4> QED BY <1>1, <3>1, <4>2, <4>3 DEF In
    <3>2. CASE u # t
      <4>1. op[u].kind = "subscribe" /\ op[u].id \notin clashed /\ op'[u] = op[u] BY <1>1, <2>2, <3>2
      <4>2. op[u].kind \in Changing /\ op[u].id \in Ids /\ op[u].channel \in Channels
        BY <1>b, <4>1 DEF Changing, Places, Placed
      <4>3. op[u].id # i BY <1>5, <3>2, <4>1, <4>2
      <4>4. /\ op[u].pc = "join" => op[u].obj = subscribers[op[u].id]
            /\ op[u].pc \in {"count", "return"} => In(op[u].channel, op[u].id)
        BY <4>1 DEF Reach, Standing
      <4>5. subscribers'[op[u].id] = subscribers[op[u].id] BY <4>2, <4>3
      <4>6. In(op[u].channel, op[u].id) =>
              /\ op[u].channel \in channels' /\ subscribers'[op[u].id] # 0
              /\ members'[op[u].channel][op[u].id] = subscribers'[op[u].id]
        BY <4>2, <4>3 DEF In
      <4> QED BY <4>1, <4>4, <4>5, <4>6 DEF In
    <3> QED BY <3>1, <3>2
  <2>3. ASSUME NEW u \in Tasks, op'[u].id \notin clashed'
        PROVE  /\ op'[u].kind = "remove" => \A c \in Channels : op'[u].id \notin subscribed'[c]
               /\ op'[u].kind = "unsubscribe" => op'[u].id \notin subscribed'[op'[u].channel]
    <3>1. op[u].id \notin clashed BY <1>1, <2>3
    <3>2. /\ op[u].kind = "remove" => \A c \in Channels : op[u].id \notin subscribed[c]
          /\ op[u].kind = "unsubscribe" => op[u].id \notin subscribed[op[u].channel]
      BY <3>1 DEF Reach, Standing
    <3>3. op[u].kind = "unsubscribe" => op'[u].channel = op[u].channel BY <1>1
    <3> QED BY <1>1, <3>2, <3>3
  <2> QED BY <2>1, <2>2, <2>3 DEF Standing
<1>8. Steady'
  <2>1. ASSUME NEW u \in Tasks, NEW j \in op'[u].steady \ clashed'
        PROVE  /\ op'[u].kind = "publish" /\ ~Busy(j)' /\ j \in subscribed'[op'[u].channel]
               /\ op'[u].pc # "lock"
               /\ (op'[u].pc = "fan" /\ j \notin op'[u].left) \/ op'[u].pc \in {"match", "return"}
                    => op'[u].call \in heard'[subscribers'[j]]
    <3>1. j \in op[u].steady \ clashed BY <1>1, <2>1
    <3>2. /\ op[u].kind = "publish" /\ ~Busy(j) /\ j \in subscribed[op[u].channel]
          /\ op[u].pc # "lock"
          /\ (op[u].pc = "fan" /\ j \notin op[u].left) \/ op[u].pc \in {"match", "return"}
               => op[u].call \in heard[subscribers[j]]
      BY <3>1 DEF Reach, Steady
    <3>3. u # t /\ op'[u] = op[u] BY <1>1, <3>2 DEF Changing
    <3>4. j # i BY <3>2 DEF Busy
    <3>5. j \in Ids BY <1>b, <3>2 DEF Types, Places, Placed
    <3>6. subscribers'[j] = subscribers[j] BY <3>4, <3>5
    <3> QED BY <1>2, <3>2, <3>3, <3>6
  <2> QED BY <2>1 DEF Steady
<1> QED BY <1>6, <1>7, <1>8 DEF Reach

(* A step of a publisher, if what it says of whom it has passed is true. *)
LEMMA ReachPublish ==
  ASSUME Base, Reach, NEW t \in Tasks, Moves(t), op[t].kind = "publish",
         UNCHANGED <<mapVars, subscribed, clashed>>, op'[t].channel = op[t].channel,
         \A x \in Objects : heard[x] \subseteq heard'[x],
         \A i \in op[t].steady \ clashed :
           /\ op'[t].pc # "lock"
           /\ (op'[t].pc = "fan" /\ i \notin op'[t].left) \/ op'[t].pc \in {"match", "return"}
                => op[t].call \in heard'[subscribers[i]]
  PROVE  Reach'
<1>b. Types /\ Places /\ Room BY DEF Base
<1>1. /\ \A u \in Tasks : op'[u].kind = op[u].kind /\ op'[u].id = op[u].id
      /\ \A u \in Tasks : op'[u].call = op[u].call /\ op'[u].steady = op[u].steady
      /\ \A u \in Tasks \ {t} : op'[u] = op[u]
      /\ \A u \in Tasks : op'[u].channel = op[u].channel
  BY DEF Moves
<1>2. \A j : Busy(j)' <=> Busy(j) BY <1>1, BusyKept
<1>3. UNCHANGED <<channels, members, subscribers>> BY DEF mapVars
<1>4. \A c, j : In(c, j)' <=> In(c, j) BY <1>3 DEF In
<1>5. OneAtATime' BY <1>1 DEF Reach, OneAtATime
<1>6. Standing'
  <2>1. \A c \in Channels : \A j \in subscribed'[c] \ clashed' : In(c, j)'
    <3>1. \A c \in Channels : \A j \in subscribed[c] \ clashed : In(c, j) BY DEF Reach, Standing
    <3> QED BY <1>4, <3>1
  <2>2. ASSUME NEW u \in Tasks, op'[u].kind = "subscribe", op'[u].id \notin clashed'
        PROVE  /\ op'[u].pc = "join" => op'[u].obj = subscribers'[op'[u].id]
               /\ op'[u].pc \in {"count", "return"} => In(op[u].channel, op[u].id)'
    <3>1. u # t /\ op'[u] = op[u] /\ op[u].kind = "subscribe" /\ op[u].id \notin clashed
      BY <1>1, <2>2
    <3>2. /\ op[u].pc = "join" => op[u].obj = subscribers[op[u].id]
          /\ op[u].pc \in {"count", "return"} => In(op[u].channel, op[u].id)
      BY <3>1 DEF Reach, Standing
    <3>3. In(op[u].channel, op[u].id)' <=> In(op[u].channel, op[u].id) BY <1>3, <3>1 DEF In
    <3> QED BY <1>3, <3>1, <3>2, <3>3
  <2>3. \A u \in Tasks : op'[u].id \notin clashed' =>
          /\ op'[u].kind = "remove" => \A c \in Channels : op'[u].id \notin subscribed'[c]
          /\ op'[u].kind = "unsubscribe" => op'[u].id \notin subscribed'[op'[u].channel]
    <3>1. \A u \in Tasks : op[u].id \notin clashed =>
            /\ op[u].kind = "remove" => \A c \in Channels : op[u].id \notin subscribed[c]
            /\ op[u].kind = "unsubscribe" => op[u].id \notin subscribed[op[u].channel]
      BY DEF Reach, Standing
    <3> QED BY <1>1, <3>1
  <2> QED BY <2>1, <2>2, <2>3 DEF Standing
<1>7. Steady'
  <2>1. ASSUME NEW u \in Tasks, NEW j \in op'[u].steady \ clashed'
        PROVE  /\ op'[u].kind = "publish" /\ ~Busy(j)' /\ j \in subscribed'[op'[u].channel]
               /\ op'[u].pc # "lock"
               /\ (op'[u].pc = "fan" /\ j \notin op'[u].left) \/ op'[u].pc \in {"match", "return"}
                    => op'[u].call \in heard'[subscribers'[j]]
    <3>1. j \in op[u].steady \ clashed BY <1>1, <2>1
    <3>2. /\ op[u].kind = "publish" /\ ~Busy(j) /\ j \in subscribed[op[u].channel]
          /\ op[u].pc # "lock"
          /\ (op[u].pc = "fan" /\ j \notin op[u].left) \/ op[u].pc \in {"match", "return"}
               => op[u].call \in heard[subscribers[j]]
      BY <3>1 DEF Reach, Steady
    <3>3. CASE u = t BY <1>1, <1>2, <1>3, <3>1, <3>2, <3>3
    <3>4. CASE u # t
      <4>1. op'[u] = op[u] BY <1>1, <3>4
      <4>2. op[u].channel \in Channels BY <1>b, <3>2 DEF Places, Placed
      <4>3. subscribers[j] \in Objects BY <3>1, <3>2, <4>2, SubscriberObject DEF Reach
      <4> QED BY <1>2, <1>3, <3>2, <4>1, <4>3
    <3> QED BY <3>3, <3>4
  <2> QED BY <2>1 DEF Steady
<1> QED BY <1>5, <1>6, <1>7 DEF Reach

(* A subscription that nothing crossed stands when its call returns. *)
LEMMA ReachReturn == ASSUME Base, Reach, NEW t \in Tasks, Return(t) PROVE Reach'
<1>b. Types /\ Places BY DEF Base
<1>1. /\ (\A u \in Tasks \ {t} : op'[u] = op[u]) /\ op'[t] = Idle /\ op[t].pc = "return"
      /\ subscribed' = IF op[t].kind = "subscribe" /\ op[t].id \notin clashed
                       THEN [subscribed EXCEPT ![op[t].channel] = @ \cup {op[t].id}] ELSE subscribed
      /\ UNCHANGED <<channels, members, subscribers, heard, clashed>>
  BY <1>b, ReturnShape DEF mapVars, queueVars
<1>2. op'[t].kind = "idle" /\ op'[t].steady = {} BY <1>1, IdleFields
<1>3. \A j : Busy(j)' => Busy(j) BY <1>1, <1>2 DEF Busy, Changing
<1>4. \A c, j : In(c, j)' <=> In(c, j) BY <1>1 DEF In
<1>5. \A c \in Channels : \A j \in subscribed'[c] :
         \/ j \in subscribed[c]
         \/ op[t].kind = "subscribe" /\ j = op[t].id /\ j \notin clashed /\ c = op[t].channel
  BY <1>b, <1>1 DEF Types
<1>6. \A c \in Channels : subscribed[c] \subseteq subscribed'[c] BY <1>b, <1>1 DEF Types
<1>7. OneAtATime' BY <1>1, <1>2 DEF Reach, OneAtATime, Changing
<1>8. Standing'
  <2>1. ASSUME NEW c \in Channels, NEW j \in subscribed'[c] \ clashed' PROVE In(c, j)'
    <3>1. CASE j \in subscribed[c] BY <1>1, <1>4, <2>1, <3>1 DEF Reach, Standing
    <3>2. CASE op[t].kind = "subscribe" /\ j = op[t].id /\ j \notin clashed /\ c = op[t].channel
      <4>1. In(op[t].channel, op[t].id) BY <1>1, <3>2 DEF Reach, Standing
      <4> QED BY <1>4, <3>2, <4>1
    <3> QED BY <1>5, <2>1, <3>1, <3>2
  <2>2. ASSUME NEW u \in Tasks, op'[u].kind = "subscribe", op'[u].id \notin clashed'
        PROVE  /\ op'[u].pc = "join" => op'[u].obj = subscribers'[op'[u].id]
               /\ op'[u].pc \in {"count", "return"} => In(op[u].channel, op[u].id)'
    <3>1. u # t /\ op'[u] = op[u] /\ op[u].kind = "subscribe" /\ op[u].id \notin clashed
      BY <1>1, <1>2, <2>2
    <3>2. /\ op[u].pc = "join" => op[u].obj = subscribers[op[u].id]
          /\ op[u].pc \in {"count", "return"} => In(op[u].channel, op[u].id)
      BY <3>1 DEF Reach, Standing
    <3>3. In(op[u].channel, op[u].id)' <=> In(op[u].channel, op[u].id) BY <1>1, <3>1 DEF In
    <3> QED BY <1>1, <3>1, <3>2, <3>3
  <2>3. ASSUME NEW u \in Tasks, op'[u].id \notin clashed'
        PROVE  /\ op'[u].kind = "remove" => \A c \in Channels : op'[u].id \notin subscribed'[c]
               /\ op'[u].kind = "unsubscribe" => op'[u].id \notin subscribed'[op'[u].channel]
    <3>1. CASE u = t BY <1>2, <3>1
    <3>2. CASE u # t /\ op[u].kind \in {"remove", "unsubscribe"}
      <4>1. op'[u] = op[u] /\ op[u].id \notin clashed BY <1>1, <2>3, <3>2
      <4>2. /\ op[u].kind = "remove" => \A c \in Channels : op[u].id \notin subscribed[c]
            /\ op[u].kind = "unsubscribe" => op[u].id \notin subscribed[op[u].channel]
        BY <4>1 DEF Reach, Standing
      <4>3. op[t].kind = "subscribe" => op[u].id # op[t].id
        BY <3>2, <4>1 DEF Reach, OneAtATime, Changing
      <4>4. op[u].kind = "unsubscribe" => op[u].channel \in Channels BY <1>b DEF Places, Placed
      <4> QED BY <1>5, <4>1, <4>2, <4>3, <4>4
    <3>3. CASE u # t /\ op[u].kind \notin {"remove", "unsubscribe"} BY <1>1, <3>3
    <3> QED BY <3>1, <3>2, <3>3
  <2> QED BY <2>1, <2>2, <2>3 DEF Standing
<1>9. Steady'
  <2>1. ASSUME NEW u \in Tasks, NEW j \in op'[u].steady \ clashed'
        PROVE  /\ op'[u].kind = "publish" /\ ~Busy(j)' /\ j \in subscribed'[op'[u].channel]
               /\ op'[u].pc # "lock"
               /\ (op'[u].pc = "fan" /\ j \notin op'[u].left) \/ op'[u].pc \in {"match", "return"}
                    => op'[u].call \in heard'[subscribers'[j]]
    <3>1. u # t /\ op'[u] = op[u] /\ j \in op[u].steady \ clashed BY <1>1, <1>2, <2>1
    <3>2. /\ op[u].kind = "publish" /\ ~Busy(j) /\ j \in subscribed[op[u].channel]
          /\ op[u].pc # "lock"
          /\ (op[u].pc = "fan" /\ j \notin op[u].left) \/ op[u].pc \in {"match", "return"}
               => op[u].call \in heard[subscribers[j]]
      BY <3>1 DEF Reach, Steady
    <3>3. op[u].channel \in Channels BY <1>b, <3>2 DEF Places, Placed
    <3> QED BY <1>1, <1>3, <1>6, <3>1, <3>2, <3>3
  <2> QED BY <2>1 DEF Steady
<1> QED BY <1>7, <1>8, <1>9 DEF Reach

(* Every step of an operation keeps what publishers rely on: one case per action. *)
LEMMA ReachStep == ASSUME Base, Reach, NEW t \in Tasks, Step(t) PROVE Reach'
<1>b. Types /\ Places /\ Placed(op[t]) BY DEF Base, Places
<1>c. /\ OneAtATime /\ Standing /\ Steady
      /\ \A c \in Channels : \A i \in subscribed[c] \ clashed : In(c, i)
  BY DEF Reach, Standing
<1>p. op[t].kind = "publish" => op[t].channel \in Channels BY <1>b DEF Placed
<1>s. \A i \in op[t].steady \ clashed :
        /\ op[t].kind = "publish" /\ i \in subscribed[op[t].channel] /\ op[t].pc # "lock"
        /\ (op[t].pc = "fan" /\ i \notin op[t].left) \/ op[t].pc \in {"match", "return"}
             => op[t].call \in heard[subscribers[i]]
  BY <1>c DEF Steady
<1>1. CASE get_or_create_subscriber(t)
  <2>1. /\ Moves(t) /\ op[t].id \in Ids /\ op[t].kind \in Changing
        /\ op'[t].pc \in {"join", "push"} /\ op'[t].channel = op[t].channel
        /\ subscribers' = [subscribers EXCEPT ![op[t].id] = op'[t].obj]
        /\ op'[t].obj = IF subscribers[op[t].id] = 0 THEN objects + 1 ELSE subscribers[op[t].id]
        /\ UNCHANGED <<channels, members, subscribed, clashed, heard>>
    BY <1>b, <1>1, GetShape DEF Changing, queueVars, histVars
  <2>2. /\ subscribers'[op[t].id] = op'[t].obj /\ op'[t].id = op[t].id
        /\ \A j \in Ids \ {op[t].id} : subscribers'[j] = subscribers[j]
    BY <1>b, <2>1 DEF Types, Moves
  <2>3. ASSUME op[t].id \notin clashed, NEW c \in Channels, op[t].id \in subscribed[c]
        PROVE  In(c, op[t].id)'
    <3>1. In(c, op[t].id) BY <1>c, <2>3
    <3> QED BY <2>1, <2>2, <3>1 DEF In
  <2> QED BY <2>1, <2>2, <2>3, ReachChange
<1>2. CASE add_subscriber(t)
  <2>1. /\ Moves(t) /\ op[t].pc = "join" /\ op[t].kind = "subscribe" /\ op[t].id \in Ids
        /\ op[t].channel \in Channels /\ op'[t].channel = op[t].channel
        /\ channels' = channels \cup {op[t].channel}
        /\ members' = [members EXCEPT ![op[t].channel][op[t].id] = op[t].obj]
        /\ op'[t].pc # "join" /\ UNCHANGED <<subscribers, subscribed, clashed, heard>>
    BY <1>b, <1>2, AddShape DEF queueVars, histVars
  <2>2. op[t].kind \in Changing /\ op'[t].id = op[t].id BY <2>1 DEF Changing, Moves
  <2>3. /\ members'[op[t].channel][op[t].id] = op[t].obj
        /\ \A c \in Channels, j \in Ids : c # op[t].channel \/ j # op[t].id => members'[c][j] = members[c][j]
    BY <1>b, <2>1 DEF Types
  <2>4. op[t].id \notin clashed => op[t].obj = subscribers[op[t].id] /\ op[t].obj # 0
    <3>1. op[t].obj # 0 BY <1>b, <2>1 DEF Types, Places, At
    <3> QED BY <1>c, <2>1, <3>1 DEF Standing
  <2>5. op[t].id \notin clashed => In(op[t].channel, op[t].id)' BY <2>1, <2>2, <2>3, <2>4 DEF In
  <2>6. ASSUME op[t].id \notin clashed, NEW c \in Channels, op[t].id \in subscribed[c]
        PROVE  In(c, op[t].id)'
    <3>1. In(c, op[t].id) BY <1>c, <2>6
    <3> QED BY <2>1, <2>2, <2>3, <2>4, <2>6, <3>1 DEF In
  <2> QED BY <2>1, <2>2, <2>3, <2>5, <2>6, ReachChange
<1>3. CASE CountUp(t) \/ CountDown(t) \/ Sweep(t) \/ psubscribe_push(t) \/ InvalidPattern(t)
             \/ retain(t) \/ SweepEnds(t)
  <2>1. /\ op'[t].channel = op[t].channel \/ op[t].kind = "remove"
        /\ Moves(t) /\ op[t].kind \in Changing /\ op'[t].pc # "join"
        /\ op[t].kind = "subscribe" => op[t].pc = "count"
        /\ UNCHANGED <<channels, members, subscribers, subscribed, clashed, heard>>
    <3> USE <1>b DEF Changing, mapVars, queueVars, histVars
    <3>1. CASE CountUp(t) BY <3>1, CountUpShape
    <3>2. CASE CountDown(t) BY <3>2, CountDownShape
    <3>3. CASE Sweep(t) BY <3>3, SweepShape
    <3>4. CASE psubscribe_push(t) \/ InvalidPattern(t) \/ retain(t) \/ SweepEnds(t)
      BY <3>4, PassShape
    <3> QED BY <1>3, <3>1, <3>2, <3>3, <3>4
  <2>2. op'[t].id = op[t].id BY <2>1 DEF Moves
  <2>3. ASSUME op[t].id \notin clashed, NEW c \in Channels, op[t].id \in subscribed[c]
        PROVE  In(c, op[t].id)'
    <3>1. In(c, op[t].id) BY <1>c, <2>3
    <3> QED BY <2>1, <2>2, <3>1 DEF In
  <2>4. ASSUME op[t].id \notin clashed, op[t].kind = "subscribe"
        PROVE  In(op[t].channel, op[t].id)'
    <3>1. In(op[t].channel, op[t].id) /\ op'[t].channel = op[t].channel
      BY <1>c, <2>1, <2>4 DEF Standing
    <3> QED BY <2>1, <2>2, <3>1 DEF In
  <2> QED BY <2>1, <2>3, <2>4, ReachChange
<1>4. CASE remove_from_channel(t)
  <2>1. /\ Moves(t) /\ op[t].kind = "unsubscribe" /\ op[t].id \in Ids /\ op[t].kind \in Changing
        /\ op[t].channel \in Channels /\ op'[t].channel = op[t].channel
        /\ members' = [members EXCEPT ![op[t].channel][op[t].id] = 0]
        /\ UNCHANGED <<channels, subscribers, subscribed, clashed, heard>>
    BY <1>b, <1>4, LeaveShape DEF Changing, queueVars, histVars
  <2>2. /\ op'[t].id = op[t].id
        /\ \A c \in Channels, j \in Ids : c # op[t].channel \/ j # op[t].id => members'[c][j] = members[c][j]
    BY <1>b, <2>1 DEF Types, Moves
  <2>3. ASSUME op[t].id \notin clashed, NEW c \in Channels, op[t].id \in subscribed[c]
        PROVE  In(c, op[t].id)'
    <3>1. In(c, op[t].id) /\ c # op[t].channel BY <1>c, <2>1, <2>3 DEF Standing
    <3> QED BY <2>1, <2>2, <3>1 DEF In
  <2> QED BY <2>1, <2>2, <2>3, ReachChange
<1>5. ASSUME NEW d \in Channels, SweepChannel(t, d) PROVE Reach'
  <2>1. /\ Moves(t) /\ op[t].kind = "remove" /\ op[t].id \in Ids /\ op[t].kind \in Changing
        /\ members' = [members EXCEPT ![d][op[t].id] = 0]
        /\ UNCHANGED <<channels, subscribers, subscribed, clashed, heard>>
    BY <1>b, <1>5, SweepChannelShape DEF Changing, queueVars, histVars
  <2>2. \A c \in Channels, j \in Ids \ {op[t].id} : members'[c][j] = members[c][j]
    BY <1>b, <2>1 DEF Types
  <2>3. op[t].id \notin clashed => \A c \in Channels : op[t].id \notin subscribed[c]
    BY <1>c, <2>1 DEF Standing
  <2> QED BY <2>1, <2>2, <2>3, ReachChange
<1>6. CASE Forget(t)
  <2>1. /\ Moves(t) /\ op[t].kind = "remove" /\ op[t].id \in Ids /\ op[t].kind \in Changing
        /\ subscribers' = [subscribers EXCEPT ![op[t].id] = 0]
        /\ UNCHANGED <<channels, members, subscribed, clashed, heard>>
    BY <1>b, <1>6, ForgetShape DEF Changing, queueVars, histVars
  <2>2. \A j \in Ids \ {op[t].id} : subscribers'[j] = subscribers[j] BY <1>b, <2>1 DEF Types
  <2>3. op[t].id \notin clashed => \A c \in Channels : op[t].id \notin subscribed[c]
    BY <1>c, <2>1 DEF Standing
  <2> QED BY <2>1, <2>2, <2>3, ReachChange
<1>7. CASE Open(t)
  <2>1. /\ Moves(t) /\ op[t].kind = "publish" /\ op'[t].channel = op[t].channel /\ op'[t].left = Ids
        /\ op'[t].pc = IF op[t].channel \in channels THEN "fan" ELSE "lock"
        /\ UNCHANGED <<mapVars, subscribed, clashed, heard>>
    BY <1>b, <1>7, OpenShape DEF queueVars, histVars
  <2>2. \A i \in op[t].steady \ clashed : op'[t].pc = "fan" /\ i \in op'[t].left
    BY <1>c, <1>p, <1>s, <2>1, SubscriberObject
  <2> QED BY <2>1, <2>2, ReachPublish
<1>8. ASSUME NEW j \in Ids, FanOut(t, j) PROVE Reach'
  <2> DEFINE o == members[op[t].channel][j]
  <2>1. /\ Moves(t) /\ op[t].kind = "publish" /\ op[t].pc = "fan" /\ op[t].channel \in Channels
        /\ op'[t].channel = op[t].channel /\ op'[t].left = op[t].left \ {j} /\ op'[t].pc = "fan"
        /\ IF o = 0 THEN UNCHANGED queueVars ELSE deliver_message(t, o)
        /\ UNCHANGED <<mapVars, subscribed, clashed>>
    BY <1>b, <1>8, FanOutShape DEF histVars
  <2>2. \A x \in Objects : heard[x] \subseteq heard'[x] BY <1>b, <2>1, DeliverShape DEF queueVars
  <2>3. ASSUME NEW i \in op[t].steady \ clashed, i \notin op'[t].left
        PROVE  op[t].call \in heard'[subscribers[i]]
    <3>1. i \in subscribed[op[t].channel] \ clashed BY <1>s
    <3>2. subscribers[i] \in Objects /\ members[op[t].channel][i] = subscribers[i] /\ subscribers[i] # 0
      BY <1>c, <2>1, <3>1, SubscriberObject
    <3>3. CASE i = j
      <4>1. deliver_message(t, o) /\ o = subscribers[i] BY <2>1, <3>2, <3>3
      <4> QED BY <1>b, <3>2, <4>1, DeliverShape
    <3>4. CASE i # j
      <4>1. op[t].call \in heard[subscribers[i]] BY <1>s, <2>1, <2>3, <3>4
      <4> QED BY <2>2, <3>2, <4>1
    <3> QED BY <3>3, <3>4
  <2> QED BY <2>1, <2>2, <2>3, ReachPublish
<1>9. CASE LockPatterns(t)
  <2>1. /\ op[t].pc = "lock" \/ (op[t].pc = "fan" /\ op[t].left = {})
        /\ Moves(t) /\ op[t].kind = "publish" /\ op'[t].pc = "match" /\ op'[t].channel = op[t].channel
        /\ UNCHANGED <<mapVars, subscribed, clashed, heard>>
    BY <1>b, <1>9, LockShape DEF queueVars, histVars
  <2>2. \A i \in op[t].steady \ clashed : op[t].call \in heard[subscribers[i]] BY <1>s, <2>1
  <2> QED BY <2>1, <2>2, ReachPublish
<1>10. CASE Match(t) \/ MatchEnds(t)
  <2>1. /\ Moves(t) /\ op[t].kind = "publish" /\ op[t].pc = "match" /\ op'[t].pc \in {"match", "return"}
        /\ op'[t].channel = op[t].channel /\ UNCHANGED <<mapVars, subscribed, clashed>>
        /\ UNCHANGED queueVars \/ (\E o : deliver_message(t, o))
    BY <1>b, <1>10, MatchShape, MatchEndsShape DEF histVars
  <2>2. \A x \in Objects : heard[x] \subseteq heard'[x] BY <1>b, <2>1, DeliverShape DEF queueVars
  <2>3. ASSUME NEW i \in op[t].steady \ clashed PROVE op[t].call \in heard'[subscribers[i]]
    <3>1. i \in subscribed[op[t].channel] \ clashed /\ op[t].call \in heard[subscribers[i]]
      BY <1>s, <2>1
    <3>2. subscribers[i] \in Objects BY <1>c, <1>p, <2>1, <3>1, SubscriberObject
    <3> QED BY <2>2, <3>1, <3>2
  <2> QED BY <2>1, <2>2, <2>3, ReachPublish
<1>11. CASE Return(t) BY <1>11, ReachReturn
<1> QED
  BY <1>1, <1>2, <1>3, <1>4, <1>5, <1>6, <1>7, <1>8, <1>9, <1>10, <1>11 DEF Step

(* Every step keeps what publishers rely on. *)
LEMMA ReachNext == Base /\ Reach /\ [Next]_vars => Reach'
<1> SUFFICES ASSUME Base, Reach, [Next]_vars PROVE Reach'
  OBVIOUS
<1>1. ASSUME NEW t \in Tasks, Calls(t) PROVE Reach' BY <1>1, ReachCall
<1>2. ASSUME NEW t \in Tasks, Step(t) PROVE Reach' BY <1>2, ReachStep
<1>3. ASSUME UNCHANGED <<mapVars, heard, op, histVars>> PROVE Reach'
  BY <1>3 DEF mapVars, histVars, Reach, OneAtATime, Standing, Steady, In, Busy
<1>4. ASSUME NEW i \in Ids, get_next_message(i) PROVE Reach' BY <1>3, <1>4 DEF get_next_message
<1>5. ASSUME UNCHANGED vars PROVE Reach' BY <1>3, <1>5 DEF vars, queueVars
<1> QED BY <1>1, <1>2, <1>4, <1>5 DEF Next

-----------------------------------------------------------------------------
(* Arithmetic modulo the counter's range. *)
LEMMA Division ==
  ASSUME NEW m \in Nat \ {0}, NEW x \in Int
  PROVE  x = m * (x \div m) + (x % m) /\ x % m \in 0..m - 1 /\ x \div m \in Int
OBVIOUS

(* A remainder is unique. *)
LEMMA Remainder ==
  ASSUME NEW m \in Nat \ {0}, NEW x \in Int, NEW q \in Int, NEW r \in 0..m - 1, x = m * q + r
  PROVE  x % m = r
<1>1. x = m * (x \div m) + (x % m) /\ x % m \in 0..m - 1 /\ x \div m \in Int BY Division
<1>2. \A k \in Nat : k >= 1 => m * k >= m OBVIOUS
<1>3. CASE q = x \div m BY <1>1, <1>3
<1>4. CASE q > x \div m
  <2>1. q - (x \div m) \in Nat /\ q - (x \div m) >= 1 BY <1>1, <1>4
  <2>2. m * (q - (x \div m)) >= m BY <1>2, <2>1
  <2>3. m * (q - (x \div m)) = (x % m) - r BY <1>1
  <2> QED BY <1>1, <2>2, <2>3
<1>5. CASE q < x \div m
  <2>1. (x \div m) - q \in Nat /\ (x \div m) - q >= 1 BY <1>1, <1>5
  <2>2. m * ((x \div m) - q) >= m BY <1>2, <2>1
  <2>3. m * ((x \div m) - q) = r - (x % m) BY <1>1
  <2> QED BY <1>1, <2>2, <2>3
<1> QED BY <1>1, <1>3, <1>4, <1>5

(* Adding to a remainder. *)
LEMMA AddModulo ==
  ASSUME NEW m \in Nat \ {0}, NEW x \in Int, NEW d \in Int
  PROVE  ((x % m) + d) % m = (x + d) % m
<1> DEFINE y == (x % m) + d
<1>1. x = m * (x \div m) + (x % m) /\ x % m \in 0..m - 1 /\ x \div m \in Int BY Division
<1>2. y \in Int BY <1>1
<1> HIDE DEF y
<1>3. y = m * (y \div m) + (y % m) /\ y % m \in 0..m - 1 /\ y \div m \in Int BY <1>2, Division
<1>4. x + d = m * ((x \div m) + (y \div m)) + (y % m) BY <1>1, <1>3 DEF y
<1>5. (x \div m) + (y \div m) \in Int /\ x + d \in Int BY <1>1, <1>3
<1>6. (x + d) % m = y % m BY <1>3, <1>4, <1>5, Remainder
<1> QED BY <1>6 DEF y

-----------------------------------------------------------------------------
(* Who is in a channel's map, and who has changed it and not counted that yet. *)
Joined(c) == {i \in Ids : members[c][i] # 0}
Up(c) == {t \in Tasks : op[t].pc = "count" /\ op[t].channel = c}
Down(c) == {t \in Tasks : op[t].pc = "uncount" /\ op[t].channel = c}

(* The counter is the number of subscribers, less what is still to be counted. *)
Due(c) == Cardinality(Joined(c)) - Cardinality(Up(c)) + Cardinality(Down(c))
Counted == \A c \in Channels : subscriber_count[c] = Due(c) % Modulus

(* The three sets are finite. *)
LEMMA CountFinite ==
  ASSUME NEW c
  PROVE  /\ IsFiniteSet(Joined(c)) /\ Cardinality(Joined(c)) \in Nat
         /\ Cardinality(Joined(c)) <= Cardinality(Ids)
         /\ IsFiniteSet(Up(c)) /\ Cardinality(Up(c)) \in Nat
         /\ IsFiniteSet(Down(c)) /\ Cardinality(Down(c)) \in Nat
         /\ Due(c) \in Int
<1>1. Joined(c) \in SUBSET Ids /\ Up(c) \in SUBSET Tasks /\ Down(c) \in SUBSET Tasks
  BY DEF Joined, Up, Down
<1>2. IsFiniteSet(Ids) /\ IsFiniteSet(Tasks) BY PubSubAssumption
<1>3. IsFiniteSet(Joined(c)) /\ Cardinality(Joined(c)) <= Cardinality(Ids) BY <1>1, <1>2, FS_Subset
<1>4. IsFiniteSet(Up(c)) /\ IsFiniteSet(Down(c)) BY <1>1, <1>2, FS_Subset
<1>5. /\ Cardinality(Joined(c)) \in Nat /\ Cardinality(Up(c)) \in Nat
      /\ Cardinality(Down(c)) \in Nat
  BY <1>3, <1>4, FS_CardinalityType
<1> QED BY <1>3, <1>4, <1>5 DEF Due

(* A set that gains or loses one element. *)
LEMMA GainOne ==
  ASSUME NEW S, NEW x, IsFiniteSet(S), x \notin S
  PROVE  Cardinality(S \cup {x}) = Cardinality(S) + 1
BY FS_AddElement

(* A set that loses one element. *)
LEMMA LoseOne ==
  ASSUME NEW S, NEW x, IsFiniteSet(S), x \in S
  PROVE  Cardinality(S \ {x}) = Cardinality(S) - 1
BY FS_RemoveElement

(* Nothing is counted before the first call. *)
LEMMA CountedInit == Init => Counted
<1> SUFFICES ASSUME Init, NEW c \in Channels PROVE subscriber_count[c] = Due(c) % Modulus
  BY DEF Counted
<1>1. \A t \in Tasks : op[t].pc = "idle" BY IdleFields DEF Init
<1>2. Up(c) = {} /\ Down(c) = {} BY <1>1 DEF Up, Down
<1>3. Joined(c) = {} BY DEF Joined, Init
<1>4. Due(c) = 0 BY <1>2, <1>3, FS_EmptySet DEF Due
<1>5. 0 % Modulus = 0 BY PubSubAssumption
<1> QED BY <1>4, <1>5 DEF Init

(* A step that touches neither the maps nor the counters, nor leaves anything to be counted. *)
LEMMA CountedQuiet ==
  ASSUME Counted, UNCHANGED <<members, subscriber_count>>,
         \A u \in Tasks : \/ op'[u].pc = op[u].pc /\ op'[u].channel = op[u].channel
                          \/ {op'[u].pc, op[u].pc} \cap {"count", "uncount"} = {}
  PROVE  Counted'
<1>1. ASSUME NEW c \in Channels PROVE Due(c)' = Due(c)
  <2>1. Up(c)' = Up(c) BY DEF Up
  <2>2. Down(c)' = Down(c) BY DEF Down
  <2>3. Joined(c)' = Joined(c) BY DEF Joined
  <2> QED BY <2>1, <2>2, <2>3 DEF Due
<1> QED BY <1>1 DEF Counted

(* An id enters a map and one more is due, or it leaves and one less is. *)
LEMMA CountedChange ==
  ASSUME Base, Counted, NEW t \in Tasks, Moves(t), subscriber_count' = subscriber_count,
         NEW c \in Channels, NEW i \in Ids, NEW v \in 0..objects,
         members' = [members EXCEPT ![c][i] = v], op'[t].channel = c,
         op[t].pc \notin {"count", "uncount"},
         (members[c][i] = 0 /\ v # 0) <=> op'[t].pc = "count",
         (members[c][i] # 0 /\ v = 0) <=> op'[t].pc = "uncount"
  PROVE  Counted'
<1>1. /\ members'[c][i] = v /\ \A j \in Ids \ {i} : members'[c][j] = members[c][j]
      /\ \A d \in Channels \ {c} : members'[d] = members[d]
  BY DEF Base, Types
<1>2. \A u \in Tasks \ {t} : op'[u] = op[u] BY DEF Moves
<1>3. ASSUME NEW d \in Channels \ {c} PROVE Due(d)' = Due(d)
  <2>1. Up(d)' = Up(d) BY <1>2 DEF Up
  <2>2. Down(d)' = Down(d) BY <1>2 DEF Down
  <2>3. Joined(d)' = Joined(d) BY <1>1 DEF Joined
  <2> QED BY <2>1, <2>2, <2>3 DEF Due
<1>4. t \notin Up(c) /\ t \notin Down(c) BY DEF Up, Down
<1>5. Due(c)' = Due(c)
  <2>1. CASE op'[t].pc = "count"
    <3>1. Up(c)' = Up(c) \cup {t} BY <1>2, <2>1 DEF Up
    <3>2. Down(c)' = Down(c) BY <1>2, <1>4, <2>1 DEF Down
    <3>3. Joined(c)' = Joined(c) \cup {i} /\ i \notin Joined(c) BY <1>1, <2>1 DEF Joined
    <3>4. /\ Cardinality(Up(c)') = Cardinality(Up(c)) + 1
          /\ Cardinality(Joined(c)') = Cardinality(Joined(c)) + 1
      BY <1>4, <3>1, <3>3, CountFinite, GainOne
    <3> QED BY <3>2, <3>4, CountFinite DEF Due
  <2>2. CASE op'[t].pc = "uncount"
    <3>1. Up(c)' = Up(c) BY <1>2, <1>4, <2>2 DEF Up
    <3>2. Down(c)' = Down(c) \cup {t} BY <1>2, <2>2 DEF Down
    <3>3. Joined(c)' = Joined(c) \ {i} /\ i \in Joined(c) BY <1>1, <2>2 DEF Joined
    <3>4. /\ Cardinality(Down(c)') = Cardinality(Down(c)) + 1
          /\ Cardinality(Joined(c)') = Cardinality(Joined(c)) - 1
      BY <1>4, <3>2, <3>3, CountFinite, GainOne, LoseOne
    <3> QED BY <3>1, <3>4, CountFinite DEF Due
  <2>3. CASE op'[t].pc \notin {"count", "uncount"}
    <3>1. Up(c)' = Up(c) BY <1>2, <1>4, <2>3 DEF Up
    <3>2. Down(c)' = Down(c) BY <1>2, <1>4, <2>3 DEF Down
    <3>3. Joined(c)' = Joined(c) BY <1>1, <2>3 DEF Joined
    <3> QED BY <3>1, <3>2, <3>3 DEF Due
  <2> QED BY <2>1, <2>2, <2>3
<1> QED BY <1>3, <1>5 DEF Counted

(* What was due is counted. *)
LEMMA CountedCounts ==
  ASSUME Base, Counted, NEW t \in Tasks, NEW n \in {1, -1}, Moves(t), Counts(t, n), members' = members,
         op[t].pc = IF n = 1 THEN "count" ELSE "uncount", NEW c \in Channels,
         op[t].channel = c, op'[t].pc \notin {"count", "uncount"}
  PROVE  Counted'
<1>1. \A u \in Tasks \ {t} : op'[u] = op[u] BY DEF Moves
<1>2. /\ subscriber_count'[c] = (subscriber_count[c] + n) % Modulus
      /\ \A d \in Channels \ {c} : subscriber_count'[d] = subscriber_count[d]
  BY DEF Counts, Base, Types
<1>3. \A d : Joined(d)' = Joined(d) BY DEF Joined
<1>4. ASSUME NEW d \in Channels \ {c} PROVE Due(d)' = Due(d)
  <2>1. Up(d)' = Up(d) BY <1>1 DEF Up
  <2>2. Down(d)' = Down(d) BY <1>1 DEF Down
  <2> QED BY <1>3, <2>1, <2>2 DEF Due
<1>5. Due(c)' = Due(c) + n
  <2>1. CASE n = 1
    <3>1. Up(c)' = Up(c) \ {t} /\ t \in Up(c) BY <1>1, <2>1 DEF Up
    <3>2. Down(c)' = Down(c) BY <1>1, <2>1 DEF Down
    <3>3. Cardinality(Up(c)') = Cardinality(Up(c)) - 1 BY <3>1, CountFinite, LoseOne
    <3> QED BY <1>3, <2>1, <3>2, <3>3, CountFinite DEF Due
  <2>2. CASE n = -1
    <3>1. Down(c)' = Down(c) \ {t} /\ t \in Down(c) BY <1>1, <2>2 DEF Down
    <3>2. Up(c)' = Up(c) BY <1>1, <2>2 DEF Up
    <3>3. Cardinality(Down(c)') = Cardinality(Down(c)) - 1 BY <3>1, CountFinite, LoseOne
    <3> QED BY <1>3, <2>2, <3>2, <3>3, CountFinite DEF Due
  <2> QED BY <2>1, <2>2
<1>6. subscriber_count'[c] = Due(c)' % Modulus
  <2>1. subscriber_count[c] = Due(c) % Modulus BY DEF Counted
  <2>2. Due(c) \in Int /\ Modulus \in Nat \ {0} /\ n \in Int BY CountFinite, PubSubAssumption
  <2>3. ((Due(c) % Modulus) + n) % Modulus = (Due(c) + n) % Modulus BY <2>2, AddModulo
  <2> QED BY <1>2, <1>5, <2>1, <2>3
<1> QED BY <1>2, <1>4, <1>6 DEF Counted

(* Every step of an operation keeps the counters right: one case per action. *)
LEMMA CountedStep == ASSUME Base, Counted, NEW t \in Tasks, Step(t) PROVE Counted'
<1>b. Types /\ Places BY DEF Base
<1>q. ASSUME UNCHANGED <<members, subscriber_count>>, \A u \in Tasks \ {t} : op'[u] = op[u],
             op[t].pc \notin {"count", "uncount"}, op'[t].pc \notin {"count", "uncount"}
      PROVE  Counted'
  BY <1>q, CountedQuiet
<1>1. CASE get_or_create_subscriber(t) BY <1>b, <1>q, <1>1, GetShape DEF Moves
<1>2. CASE add_subscriber(t)
  <2>1. /\ Moves(t) /\ op[t].pc = "join" /\ op[t].id \in Ids
        /\ op[t].channel \in Channels /\ op'[t].channel = op[t].channel
        /\ op'[t].pc = IF members[op[t].channel][op[t].id] = 0 THEN "count" ELSE "return"
        /\ members' = [members EXCEPT ![op[t].channel][op[t].id] = op[t].obj]
        /\ subscriber_count' = subscriber_count
    BY <1>b, <1>2, AddShape
  <2>2. op[t].obj \in 0..objects /\ op[t].obj # 0
    <3>1. objects \in Nat /\ op[t].obj \in 1..objects BY <1>b, <2>1 DEF Types, Places, At
    <3> QED BY <3>1
  <2>3. PICK c \in Channels, i \in Ids, v \in 0..objects :
          c = op[t].channel /\ i = op[t].id /\ v = op[t].obj
    BY <2>1, <2>2
  <2> QED BY <2>1, <2>2, <2>3, CountedChange
<1>3. CASE CountUp(t)
  <2>1. /\ Moves(t) /\ op[t].pc = "count" /\ op[t].channel \in Channels /\ op'[t].pc = "return"
        /\ Counts(t, 1) /\ members' = members
    BY <1>b, <1>3, CountUpShape
  <2>2. op[t].pc = IF 1 = 1 THEN "count" ELSE "uncount" BY <2>1
  <2> QED BY <2>1, <2>2, CountedCounts
<1>4. CASE CountDown(t)
  <2>1. /\ Moves(t) /\ op[t].pc = "uncount" /\ op[t].channel \in Channels
        /\ op'[t].pc \in {"next", "return"} /\ Counts(t, -1) /\ members' = members
    BY <1>b, <1>4, CountDownShape
  <2>2. op[t].pc = IF -1 = 1 THEN "count" ELSE "uncount" BY <2>1
  <2> QED BY <2>1, <2>2, CountedCounts
<1>5. CASE remove_from_channel(t)
  <2>1. /\ Moves(t) /\ op[t].pc = "leave" /\ op[t].id \in Ids
        /\ op[t].channel \in Channels /\ op'[t].channel = op[t].channel
        /\ op'[t].pc = IF members[op[t].channel][op[t].id] # 0 THEN "uncount" ELSE "return"
        /\ members' = [members EXCEPT ![op[t].channel][op[t].id] = 0]
        /\ subscriber_count' = subscriber_count
    BY <1>b, <1>5, LeaveShape
  <2>2. 0 \in 0..objects BY <1>b DEF Types
  <2>3. PICK c \in Channels, i \in Ids : c = op[t].channel /\ i = op[t].id BY <2>1
  <2> QED BY <2>1, <2>2, <2>3, CountedChange
<1>6. CASE psubscribe_push(t) \/ InvalidPattern(t) \/ retain(t) \/ SweepEnds(t)
  BY <1>b, <1>q, <1>6, PassShape DEF Moves
<1>7. CASE Sweep(t) BY <1>b, <1>q, <1>7, SweepShape DEF Moves, mapVars
<1>8. ASSUME NEW c \in Channels, SweepChannel(t, c) PROVE Counted'
  <2>1. /\ Moves(t) /\ op[t].pc = "next" /\ op[t].id \in Ids /\ op'[t].channel = c
        /\ op'[t].pc = IF members[c][op[t].id] # 0 THEN "uncount" ELSE "next"
        /\ members' = [members EXCEPT ![c][op[t].id] = 0] /\ subscriber_count' = subscriber_count
    BY <1>b, <1>8, SweepChannelShape
  <2>2. 0 \in 0..objects BY <1>b DEF Types
  <2>3. PICK i \in Ids : i = op[t].id BY <2>1
  <2> QED BY <2>1, <2>2, <2>3, CountedChange
<1>9. CASE Forget(t) BY <1>b, <1>q, <1>9, ForgetShape DEF Moves
<1>10. CASE Open(t) BY <1>b, <1>q, <1>10, OpenShape DEF Moves, mapVars
<1>11. ASSUME NEW i \in Ids, FanOut(t, i) PROVE Counted'
  BY <1>b, <1>q, <1>11, FanOutShape DEF Moves, mapVars
<1>12. CASE LockPatterns(t)
  <2>1. /\ UNCHANGED <<members, subscriber_count>> /\ \A u \in Tasks \ {t} : op'[u] = op[u]
        /\ op[t].pc \in {"lock", "fan"} /\ op'[t].pc = "match"
    BY <1>b, <1>12, LockShape DEF Moves, mapVars
  <2> QED BY <1>q, <2>1
<1>13. CASE Match(t) BY <1>b, <1>q, <1>13, MatchShape DEF Moves, mapVars
<1>14. CASE MatchEnds(t) BY <1>b, <1>q, <1>14, MatchEndsShape DEF Moves, mapVars
<1>15. CASE Return(t)
  <2>1. /\ UNCHANGED <<members, subscriber_count>> /\ \A u \in Tasks \ {t} : op'[u] = op[u]
        /\ op[t].pc = "return" /\ op'[t].pc = "idle"
    BY <1>b, <1>15, ReturnShape, IdleFields DEF mapVars
  <2> QED BY <1>q, <2>1
<1> QED
  BY <1>1, <1>2, <1>3, <1>4, <1>5, <1>6, <1>7, <1>8, <1>9, <1>10, <1>11, <1>12, <1>13, <1>14, <1>15
     DEF Step

(* Every step keeps the counters right. *)
LEMMA CountedNext == Base /\ Counted /\ [Next]_vars => Counted'
<1> SUFFICES ASSUME Base, Counted, [Next]_vars PROVE Counted'
  OBVIOUS
<1>b. Types /\ Places BY DEF Base
<1>1. ASSUME NEW t \in Tasks, Calls(t) PROVE Counted'
  <2>1. PICK kind, i, c, p : Starts(t, kind, i, c, p) BY <1>1, CallsAre
  <2>2. Started(t, kind, i, c) /\ kind \in Kinds \ {"idle"} BY <1>b, <2>1, CallShape DEF Starts
  <2>3. /\ UNCHANGED <<members, subscriber_count>> /\ op[t].kind = "idle" /\ op'[t].pc = FirstStep[kind]
        /\ \A u \in Tasks \ {t} : op'[u].pc = op[u].pc /\ op'[u].channel = op[u].channel
    BY <2>2 DEF Started, mapVars
  <2>4. op[t].pc = "idle" BY <1>b, <2>3 DEF Places, Placed
  <2>5. op'[t].pc \notin {"count", "uncount"} BY <2>2, <2>3, FirstSteps
  <2> QED BY <2>3, <2>4, <2>5, CountedQuiet
<1>2. ASSUME NEW t \in Tasks, Step(t) PROVE Counted' BY <1>2, CountedStep
<1>3. ASSUME NEW i \in Ids, get_next_message(i) PROVE Counted'
  BY <1>3, CountedQuiet DEF get_next_message, mapVars
<1>4. ASSUME UNCHANGED vars PROVE Counted'
  BY <1>4, CountedQuiet DEF vars, mapVars
<1> QED BY <1>1, <1>2, <1>3, <1>4 DEF Next

-----------------------------------------------------------------------------
(* A channel's counter, which add_subscriber and remove_subscriber change after the map and     *)
(* outside of it, is the number of its subscribers whenever no call is under way.               *)
THEOREM CountersSettle == Spec => []CountsSettle
<1>1. Init => Base /\ Counted BY BaseInit, CountedInit
<1>2. Base /\ Counted /\ [Next]_vars => Base' /\ Counted' BY BaseNext, CountedNext
<1>3. Base /\ Counted => CountsSettle
  <2> SUFFICES ASSUME Base, Counted, \A t \in Tasks : op[t].kind = "idle", NEW c \in Channels
               PROVE  subscriber_count[c] = Cardinality({i \in Ids : members[c][i] # 0})
    BY DEF CountsSettle
  <2>1. \A t \in Tasks : op[t].pc = "idle" BY DEF Base, Places, Placed
  <2>2. Up(c) = {} /\ Down(c) = {} BY <2>1 DEF Up, Down
  <2>3. Due(c) = Cardinality(Joined(c)) BY <2>2, FS_EmptySet, CountFinite DEF Due
  <2>4. Cardinality(Joined(c)) \in Nat /\ Cardinality(Joined(c)) < Modulus
    <3>1. Cardinality(Joined(c)) \in Nat /\ Cardinality(Joined(c)) <= Cardinality(Ids) BY CountFinite
    <3>2. Cardinality(Ids) \in Nat /\ Cardinality(Ids) < Modulus /\ Modulus \in Nat
      BY PubSubAssumption, FS_CardinalityType
    <3> QED BY <3>1, <3>2
  <2>5. Cardinality(Joined(c)) % Modulus = Cardinality(Joined(c)) BY <2>4, PubSubAssumption
  <2> QED BY <2>3, <2>5 DEF Counted, Joined
<1> QED BY <1>1, <1>2, <1>3, PTL DEF Spec

(* Messages of one publisher are in every queue, and leave it, in the order of its calls, however *)
(* the publishers interleave and whatever a full queue drops.                                     *)
THEOREM PublishersStayInOrder == Spec => []PublisherOrder
<1>1. Init => Base /\ Ordered BY BaseInit, OrderedInit
<1>2. Base /\ Ordered /\ [Next]_vars => Base' /\ Ordered' BY BaseNext, OrderedNext
<1>3. Base /\ Ordered => PublisherOrder BY DEF Ordered
<1> QED BY <1>1, <1>2, <1>3, PTL DEF Spec

(* A publish that returns has given its message to the queue polled by every subscriber whose     *)
(* subscription stood all the while, whatever subscribes, unsubscribes and publishes meanwhile.   *)
THEOREM PublishReachesSubscribers == Spec => []ReachesSubscribers
<1>1. Init => Base /\ Reach BY BaseInit, ReachInit
<1>2. Base /\ Reach /\ [Next]_vars => Base' /\ Reach' BY BaseNext, ReachNext
<1>3. Base /\ Reach => ReachesSubscribers
  <2> SUFFICES ASSUME Base, Reach, NEW t \in Tasks, op[t].kind = "publish", op[t].pc = "return",
                      NEW i \in op[t].steady \ clashed
               PROVE  subscribers[i] # 0 /\ op[t].call \in heard[subscribers[i]]
    BY DEF ReachesSubscribers, At
  <2>1. i \in subscribed[op[t].channel] /\ op[t].call \in heard[subscribers[i]] BY DEF Reach, Steady
  <2>2. op[t].channel \in Channels BY DEF Base, Places, Placed
  <2> QED BY <2>1, <2>2, SubscriberObject DEF Reach
<1> QED BY <1>1, <1>2, <1>3, PTL DEF Spec
=============================================================================
