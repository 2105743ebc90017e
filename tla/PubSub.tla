------------------------------- MODULE PubSub -------------------------------
(***************************************************************************)
(* The pub/sub system of pubsub/mod.rs: channels with their subscribers,   *)
(* pattern subscriptions, and a bounded queue per subscriber that drops    *)
(* its oldest message when full.  Tasks call the operations concurrently   *)
(* and interleave between their accesses to the maps (DashMap), to a queue *)
(* and to the list of patterns (RwLock), each of which is atomic.          *)
(*                                                                         *)
(* A subscriber object is a number: the same id may have several, one      *)
(* after the other, and a channel keeps the object it was given.  A        *)
(* pattern is the set of the channels it matches.                          *)
(***************************************************************************)
EXTENDS Integers, Sequences, FiniteSets

CONSTANTS Tasks, Ids, Channels, Patterns,
          BufferSize,   \* config.default_buffer_size
          Modulus,      \* range of a channel's counter: 2^64 in the code
          MaxOps,       \* bound: operations called
          MaxPolls      \* bound: messages taken from one queue

ASSUME PubSubAssumption ==
  /\ BufferSize \in Nat \ {0} /\ Modulus \in Nat \ {0, 1}
  /\ MaxOps \in Nat /\ MaxPolls \in Nat
  /\ Patterns \subseteq SUBSET Channels
  /\ IsFiniteSet(Tasks)
  /\ IsFiniteSet(Ids) /\ Cardinality(Ids) < Modulus   \* fewer subscribers than the counter holds

VARIABLES
  channels,            \* names in the map of channels
  members,             \* Channel::subscribers: per channel and id an object, or 0
  subscriber_count,    \* Channel::subscriber_count
  subscribers,         \* per id the object in the map of subscribers, or 0
  pattern_subscriptions,
  objects,             \* number of objects made
  queue, polled,       \* per object; no Subscriber has a sender
  next_id,             \* MESSAGE_COUNTER
  op,                  \* per task: the operation in progress
  subscribed,          \* history: per channel the ids whose subscription stands
  clashed,             \* history: ids that two operations changed at once
  heard,               \* history: per object the calls whose message it was given
  taken,               \* history: per object and task the newest call polled
  ops

mapVars == <<channels, members, subscriber_count, subscribers, pattern_subscriptions, objects>>
queueVars == <<queue, polled, heard, taken>>
histVars == <<subscribed, clashed>>
vars == <<mapVars, queueVars, next_id, op, histVars, ops>>

Objects == 1..MaxOps
Idle == [kind |-> "idle", id |-> 0, channel |-> "none", pattern |-> {}, pc |-> "idle", obj |-> 0,
         left |-> {}, call |-> 0, msg |-> 0, k |-> 0, steady |-> {}]

Init ==
  /\ channels = {} /\ members = [c \in Channels |-> [i \in Ids |-> 0]]
  /\ subscriber_count = [c \in Channels |-> 0] /\ subscribers = [i \in Ids |-> 0]
  /\ pattern_subscriptions = << >> /\ objects = 0
  /\ queue = [o \in Objects |-> << >>] /\ polled = [o \in Objects |-> 0]
  /\ next_id = 1 /\ op = [t \in Tasks |-> Idle]
  /\ subscribed = [c \in Channels |-> {}] /\ clashed = {}
  /\ heard = [o \in Objects |-> {}] /\ taken = [o \in Objects |-> [t \in Tasks |-> 0]]
  /\ ops = 0

-----------------------------------------------------------------------------
Changing == {"subscribe", "unsubscribe", "psubscribe", "punsubscribe", "remove"}
Busy(i) == \E t \in Tasks : op[t].kind \in Changing /\ op[t].id = i

\* The first step of an operation.
FirstStep ==
  [subscribe |-> "get", psubscribe |-> "get", unsubscribe |-> "leave",
   punsubscribe |-> "retain", remove |-> "sweep", publish |-> "open"]

\* A task calls an operation.  One that changes a subscriber's channels ends
\* what was settled about them, for publishers under way, too.
Call(t, kind, i, c, p) ==
  /\ op[t].kind = "idle" /\ ops < MaxOps
  /\ ops' = ops + 1
  /\ clashed' = IF kind \in Changing /\ Busy(i) THEN clashed \cup {i} ELSE clashed
  /\ subscribed' = [d \in Channels |->
       IF (kind = "unsubscribe" /\ c = d) \/ kind = "remove" THEN subscribed[d] \ {i} ELSE subscribed[d]]
  /\ op' = [u \in Tasks |->
       IF u = t
       THEN [Idle EXCEPT !.kind = kind, !.id = i, !.channel = c, !.pattern = p,
                         !.pc = FirstStep[kind], !.call = ops + 1,
                         !.steady = IF kind = "publish" THEN {j \in subscribed[c] : ~Busy(j)} ELSE {}]
       ELSE IF kind \in Changing THEN [op[u] EXCEPT !.steady = @ \ {i}] ELSE op[u]]
  /\ UNCHANGED <<mapVars, queueVars, next_id>>

At(t, label) == op[t].pc = label
Goto(t, label) == op' = [op EXCEPT ![t].pc = label]
Unread == \A t \in Tasks : ~At(t, "match")   \* no publisher reads the patterns

-----------------------------------------------------------------------------
(* subscribe, unsubscribe, psubscribe, punsubscribe *)

get_or_create_subscriber(t) ==
  LET i == op[t].id
      o == IF subscribers[i] = 0 THEN objects + 1 ELSE subscribers[i]
  IN  /\ At(t, "get")
      /\ subscribers' = [subscribers EXCEPT ![i] = o]
      /\ objects' = IF subscribers[i] = 0 THEN objects + 1 ELSE objects
      /\ op' = [op EXCEPT ![t].obj = o, ![t].pc = IF op[t].kind = "subscribe" THEN "join" ELSE "push"]
      /\ UNCHANGED <<channels, members, subscriber_count, pattern_subscriptions,
                     queueVars, next_id, histVars, ops>>

\* Mutated form: an id that was there is counted again.
counted_always(old) == TRUE

counted(old) == old = 0

\* get_or_create_channel, then Channel::add_subscriber.
add_subscriber(t) ==
  LET c == op[t].channel  i == op[t].id
  IN  /\ At(t, "join")
      /\ channels' = channels \cup {c}
      /\ members' = [members EXCEPT ![c][i] = op[t].obj]
      /\ Goto(t, IF counted(members[c][i]) THEN "count" ELSE "return")
      /\ UNCHANGED <<subscriber_count, subscribers, pattern_subscriptions, objects,
                     queueVars, next_id, histVars, ops>>

Counts(t, n) ==
  subscriber_count' = [subscriber_count EXCEPT ![op[t].channel] = (@ + n) % Modulus]

CountUp(t) ==
  /\ At(t, "count") /\ Goto(t, "return") /\ Counts(t, 1)
  /\ UNCHANGED <<channels, members, subscribers, pattern_subscriptions, objects,
                 queueVars, next_id, histVars, ops>>

\* Channel::remove_subscriber.
remove_from_channel(t) ==
  LET c == op[t].channel  i == op[t].id
  IN  /\ At(t, "leave")
      /\ members' = [members EXCEPT ![c][i] = 0]
      /\ Goto(t, IF members[c][i] # 0 THEN "uncount" ELSE "return")
      /\ UNCHANGED <<channels, subscriber_count, subscribers, pattern_subscriptions, objects,
                     queueVars, next_id, histVars, ops>>

CountDown(t) ==
  /\ At(t, "uncount") /\ Counts(t, -1)
  /\ Goto(t, IF op[t].kind = "remove" THEN "next" ELSE "return")
  /\ UNCHANGED <<channels, members, subscribers, pattern_subscriptions, objects,
                 queueVars, next_id, histVars, ops>>

psubscribe_push(t) ==
  /\ At(t, "push") /\ Unread /\ Goto(t, "return")
  /\ pattern_subscriptions' =
       Append(pattern_subscriptions, [id |-> op[t].id, pattern |-> op[t].pattern])
  /\ UNCHANGED <<channels, members, subscriber_count, subscribers, objects,
                 queueVars, next_id, histVars, ops>>

\* PatternSubscription::new fails when the pattern gives no regular expression:
\* psubscribe returns an error, and the subscriber it made stays.
InvalidPattern(t) ==
  /\ At(t, "push") /\ Goto(t, "return")
  /\ UNCHANGED <<mapVars, queueVars, next_id, histVars, ops>>

\* punsubscribe drops one pattern of the subscriber, remove_subscriber all.
Retained(t) ==
  LET Drops(e) == e.id = op[t].id /\ (op[t].kind = "remove" \/ e.pattern = op[t].pattern)
  IN  SelectSeq(pattern_subscriptions, LAMBDA e : ~Drops(e))

retain(t) ==
  /\ At(t, "retain") /\ Unread
  /\ Goto(t, IF op[t].kind = "remove" THEN "forget" ELSE "return")
  /\ pattern_subscriptions' = Retained(t)
  /\ UNCHANGED <<channels, members, subscriber_count, subscribers, objects,
                 queueVars, next_id, histVars, ops>>

-----------------------------------------------------------------------------
(* remove_subscriber: every channel, then the patterns, then the map. *)

swept == Channels

Sweep(t) ==
  /\ At(t, "sweep")
  /\ op' = [op EXCEPT ![t].pc = "next", ![t].left = swept]
  /\ UNCHANGED <<mapVars, queueVars, next_id, histVars, ops>>

SweepChannel(t, c) ==
  /\ At(t, "next") /\ c \in op[t].left
  /\ members' = [members EXCEPT ![c][op[t].id] = 0]
  /\ op' = [op EXCEPT ![t].left = @ \ {c}, ![t].channel = c,
                      ![t].pc = IF members[c][op[t].id] # 0 THEN "uncount" ELSE "next"]
  /\ UNCHANGED <<channels, subscriber_count, subscribers, pattern_subscriptions, objects,
                 queueVars, next_id, histVars, ops>>

SweepEnds(t) ==
  /\ At(t, "next") /\ op[t].left = {}
  /\ Goto(t, "retain")
  /\ UNCHANGED <<mapVars, queueVars, next_id, histVars, ops>>

Forget(t) ==
  /\ At(t, "forget") /\ Goto(t, "return")
  /\ subscribers' = [subscribers EXCEPT ![op[t].id] = 0]
  /\ UNCHANGED <<channels, members, subscriber_count, pattern_subscriptions, objects,
                 queueVars, next_id, histVars, ops>>

-----------------------------------------------------------------------------
(* publish: the channel's subscribers first, then the matching patterns.  One
   that returns at once because its message is too large changes nothing. *)

\* Mutated form: a message goes to the front.
enqueue_front(q, m) == <<m>> \o q

full(o) == Len(queue[o]) >= BufferSize
enqueue(q, m) == Append(q, m)

\* Subscriber::deliver_message.
deliver_message(t, o) ==
  LET m == [id |-> op[t].msg, from |-> t, call |-> op[t].call]
  IN  /\ queue' = [queue EXCEPT ![o] = enqueue(IF full(o) THEN Tail(@) ELSE @, m)]
      /\ heard' = [heard EXCEPT ![o] = @ \cup {op[t].call}]
      /\ UNCHANGED <<polled, taken>>

\* Message::new takes a number for each of the two messages of a publish; a
\* channel nobody ever subscribed to is passed over.
Open(t) ==
  LET exists == op[t].channel \in channels
  IN  /\ At(t, "open")
      /\ op' = [op EXCEPT ![t].pc = IF exists THEN "fan" ELSE "lock",
                          ![t].msg = next_id,
                          ![t].left = Ids]
      /\ next_id' = IF exists THEN next_id + 1 ELSE next_id
      /\ UNCHANGED <<mapVars, queueVars, histVars, ops>>

\* The iteration comes by every place of the sharded map, in any order, and
\* meets who is there at that moment.
FanOut(t, i) ==
  LET o == members[op[t].channel][i]
  IN  /\ At(t, "fan") /\ i \in op[t].left
      /\ IF o = 0 THEN UNCHANGED queueVars ELSE deliver_message(t, o)
      /\ op' = [op EXCEPT ![t].left = @ \ {i}]
      /\ UNCHANGED <<mapVars, next_id, histVars, ops>>

\* Mutated form: the iteration stops early.
visited_some(t) == TRUE

visited(t) == op[t].left = {}

LockPatterns(t) ==
  /\ At(t, "lock") \/ (At(t, "fan") /\ visited(t))
  /\ op' = [op EXCEPT ![t].pc = "match", ![t].msg = next_id, ![t].k = 1]
  /\ next_id' = next_id + 1
  /\ UNCHANGED <<mapVars, queueVars, histVars, ops>>

Match(t) ==
  LET e == pattern_subscriptions[op[t].k]
  IN  /\ At(t, "match") /\ op[t].k <= Len(pattern_subscriptions)
      /\ IF op[t].channel \in e.pattern /\ subscribers[e.id] # 0
         THEN deliver_message(t, subscribers[e.id]) ELSE UNCHANGED queueVars
      /\ op' = [op EXCEPT ![t].k = @ + 1]
      /\ UNCHANGED <<mapVars, next_id, histVars, ops>>

MatchEnds(t) ==
  /\ At(t, "match") /\ op[t].k > Len(pattern_subscriptions)
  /\ Goto(t, "return")
  /\ UNCHANGED <<mapVars, queueVars, next_id, histVars, ops>>

Return(t) ==
  LET c == op[t].channel  i == op[t].id
  IN  /\ At(t, "return")
      /\ op' = [op EXCEPT ![t] = Idle]
      /\ subscribed' = IF op[t].kind = "subscribe" /\ i \notin clashed
                       THEN [subscribed EXCEPT ![c] = @ \cup {i}] ELSE subscribed
      /\ UNCHANGED <<mapVars, queueVars, next_id, clashed, ops>>

\* get_subscriber and Subscriber::get_next_message.
get_next_message(i) ==
  LET o == subscribers[i]
  IN  /\ o # 0 /\ queue[o] # << >> /\ polled[o] < MaxPolls
      /\ queue' = [queue EXCEPT ![o] = Tail(@)]
      /\ polled' = [polled EXCEPT ![o] = @ + 1]
      /\ taken' = [taken EXCEPT ![o][Head(queue[o]).from] = Head(queue[o]).call]
      /\ UNCHANGED <<mapVars, heard, next_id, op, histVars, ops>>

-----------------------------------------------------------------------------
Calls(t) ==
  \/ \E i \in Ids, c \in Channels :
       Call(t, "subscribe", i, c, {}) \/ Call(t, "unsubscribe", i, c, {})
  \/ \E i \in Ids, p \in Patterns :
       Call(t, "psubscribe", i, "none", p) \/ Call(t, "punsubscribe", i, "none", p)
  \/ \E i \in Ids : Call(t, "remove", i, "none", {})
  \/ \E c \in Channels : Call(t, "publish", 0, c, {})

Step(t) ==
  \/ get_or_create_subscriber(t) \/ add_subscriber(t) \/ CountUp(t)
  \/ remove_from_channel(t) \/ CountDown(t)
  \/ psubscribe_push(t) \/ InvalidPattern(t) \/ retain(t)
  \/ Sweep(t) \/ (\E c \in Channels : SweepChannel(t, c)) \/ SweepEnds(t) \/ Forget(t)
  \/ Open(t) \/ (\E i \in Ids : FanOut(t, i)) \/ LockPatterns(t) \/ Match(t) \/ MatchEnds(t)
  \/ Return(t)

Next ==
  \/ \E t \in Tasks : Calls(t) \/ Step(t)
  \/ \E i \in Ids : get_next_message(i)

Spec == Init /\ [][Next]_vars

-----------------------------------------------------------------------------
\* Every variable keeps its type, and no queue is longer than its bound.
TypeOK ==
  /\ channels \subseteq Channels /\ objects \in 0..MaxOps
  /\ members \in [Channels -> [Ids -> 0..objects]] /\ subscribers \in [Ids -> 0..objects]
  /\ subscriber_count \in [Channels -> 0..Modulus - 1]
  /\ \A k \in 1..Len(pattern_subscriptions) :
       pattern_subscriptions[k] \in [id : Ids, pattern : Patterns]
  /\ \A o \in Objects : Len(queue[o]) <= BufferSize
  /\ clashed \subseteq Ids /\ subscribed \in [Channels -> SUBSET Ids]

\* A channel's counter, which is changed after the map and may wrap below zero
\* in between, is the number of its subscribers once every call has returned.
CountsSettle ==
  (\A t \in Tasks : op[t].kind = "idle") =>
    \A c \in Channels : subscriber_count[c] = Cardinality({i \in Ids : members[c][i] # 0})

\* Messages of one publisher are polled in the order of its calls.
PublisherOrder ==
  \A o \in Objects : \A j \in 1..Len(queue[o]) :
    /\ taken[o][queue[o][j].from] <= queue[o][j].call
    /\ \A k \in 1..j : queue[o][k].from = queue[o][j].from => queue[o][k].call <= queue[o][j].call

\* A publish that returns has given its message to the queue polled by every
\* subscriber whose subscription stood all the while.
ReachesSubscribers ==
  \A t \in Tasks : op[t].kind = "publish" /\ At(t, "return") =>
    \A i \in op[t].steady \ clashed : subscribers[i] # 0 /\ op[t].call \in heard[subscribers[i]]
=============================================================================
