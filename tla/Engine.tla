------------------------------- MODULE Engine -------------------------------
(***************************************************************************)
(* The shared-memory engine of core.rs: client processes attach to the     *)
(* session registry of session.rs, push commands to a ring, sleep on an    *)
(* eventfd and take responses from a second ring; one thread serves all    *)
(* sessions from the key-value store, another sweeps stale ones.  Rings,   *)
(* responses, keys and values lie in one arena, that of KvTable.           *)
(*                                                                         *)
(* A step is one access to shared memory that others can see.  A ring's    *)
(* push and pop are one step here (SpscRing takes them apart) and its      *)
(* first word holds its queue.  Commands are in their slots; a response is *)
(* in the arena, and its slot has the offset.                              *)
(***************************************************************************)
EXTENDS KvTable

CONSTANTS
  Clients,        \* client processes
  MaxSessions,    \* VedDbConfig::max_sessions
  RingWords,      \* words of a ring
  RingAlign,      \* alignment of a ring, in words
  RingCapacity,   \* slots of a ring
  ReplyWords,     \* words of a response
  CounterRange,   \* the counter of sessions wraps: 2^64 in the code
  Requests,       \* commands that clients send: operation, key and value
  Mixes           \* bounds to choose from: direct calls, attachments, commands (and
                  \* which), and mishaps (time passing, an eventfd that cannot be had)

ASSUME EngineAssumption ==
  /\ MaxSessions \in Nat \ {0} /\ MaxSessions < CounterRange
  /\ IsFiniteSet(Clients)
  /\ CounterRange \in Nat /\ RingWords \in Nat \ {0, 1}
  /\ RingAlign \in Nat \ {0} /\ RingCapacity \in Nat \ {0} /\ ReplyWords \in Nat \ {0}
  /\ Requests \subseteq {"ping", "get", "set", "del", "cas"} \X Keys \X Values
  /\ Mixes \subseteq [direct: Nat, attaches: Nat, commands: Nat, mishaps: Nat,
                      which: SUBSET Requests]

VARIABLES
  slots,             \* the session descriptors
  next_session_id, active_sessions,
  client,            \* per client: the call it is in, its session, what it sent and got
  server, sweeper,   \* the call each of the two threads is in
  stray,             \* memory that holds no ring was used as one
  left,              \* what is left of the bounds
  met,               \* history: the server used a session being attached or detached
  crossed            \* history: two calls changed one descriptor at once

kvVars == <<tableVars, arenaVars, hung, stored, dangling, ops>>
registry == <<slots, next_session_id, active_sessions>>
history == <<stray, met, crossed>>
engineVars == <<registry, client, server, sweeper, history, left>>

-----------------------------------------------------------------------------
\* SessionDesc::new; eventfd is -1 for none, otherwise 1 when there is something to read.
SessionDesc == [id |-> 0, cmd |-> 0, resp |-> 0, pending |-> 0, eventfd |-> -1, recent |-> FALSE]

Outside == [pc |-> "out", id |-> 0, slot |-> 0, rings |-> <<0, 0>>, undo |-> FALSE,
            inherited |-> FALSE, sent |-> 0, got |-> << >>]
Resting == [pc |-> "idle", id |-> 0, ref |-> 0, item |-> << >>, reply |-> 0]
Swept == [pc |-> "idle", at |-> 0, id |-> 0, cleaned |-> 0]

EngineInit ==
  /\ Init
  /\ slots = [i \in 1..MaxSessions |-> SessionDesc]
  /\ next_session_id = 1 /\ active_sessions = 0
  /\ client = [c \in Clients |-> Outside] /\ server = Resting /\ sweeper = Swept
  /\ stray = FALSE /\ met = FALSE /\ crossed = FALSE
  /\ left \in Mixes

Spend(what) == left[what] > 0 /\ left' = [left EXCEPT ![what] = @ - 1]
Mishap(wrong) == IF wrong THEN Spend("mishaps") ELSE left' = left

\* Nothing is modelled behind undefined behaviour, nor behind a server that hangs.
Defined == ~stray /\ Called

At(c, pc) == Defined /\ client[c].pc = pc
Goes(c, pc) == client' = [client EXCEPT ![c].pc = pc]
ServerAt(pc) == Defined /\ server.pc = pc

\* get_session: the descriptors with this id.
get_session(id) == {i \in DOMAIN slots : slots[i].id = id}

IsRing(offset) == memory[offset][1] = "ring"
Queue(offset) == memory[offset][2]
SetQueue(q, offset) == memory' = [memory EXCEPT ![offset] = <<"ring", q>>]

\* Mutant: the consumer's index stays where it was.
popped_none(q) == q

popped(q) == Tail(q)

touched(d) == [d EXCEPT !.recent = TRUE]

-----------------------------------------------------------------------------
(* attach_session *)

create_session(c) ==
  /\ At(c, "out") /\ Spend("attaches")
  /\ active_sessions < MaxSessions
  /\ client' = [client EXCEPT ![c] = [Outside EXCEPT !.pc = "find"]]
  /\ UNCHANGED <<kvVars, registry, server, sweeper, history>>

find_free_slot(c) ==
  LET unused == get_session(0) IN
  /\ At(c, "find")
  /\ client' = [client EXCEPT ![c] =
                  IF unused = {} THEN Outside
                  ELSE [@ EXCEPT !.pc = "write", !.slot = Min(unused)]]
  /\ UNCHANGED <<kvVars, registry, server, sweeper, history, left>>

\* The counter of notifications stays as the last session left it, and so do the offsets
\* of its rings.
WriteId(c) ==
  LET i == client[c].slot IN
  /\ At(c, "write")
  /\ slots' = [slots EXCEPT ![i].id = next_session_id]
  /\ next_session_id' = next_session_id + 1
  /\ client' = [client EXCEPT ![c].pc = "touch", ![c].id = next_session_id,
                              ![c].inherited = slots[i].pending # 0]
  /\ crossed' = (crossed \/ slots[i].id # 0)
  /\ UNCHANGED <<kvVars, active_sessions, server, sweeper, stray, met, left>>

\* The first touch, and the eventfd.
OpenEventfd(c, fails) ==
  /\ At(c, "touch") /\ Mishap(fails)
  /\ slots' = [slots EXCEPT ![client[c].slot] =
                 [touched(@) EXCEPT !.eventfd = IF fails THEN -1 ELSE 0]]
  /\ Goes(c, "count")
  /\ UNCHANGED <<kvVars, next_session_id, active_sessions, server, sweeper, history>>

CountUp(c) ==
  /\ At(c, "count")
  /\ active_sessions' = (active_sessions + 1) % CounterRange
  /\ Goes(c, "allocate")
  /\ UNCHANGED <<kvVars, slots, next_session_id, server, sweeper, history, left>>

\* SpscRing::init
new_ring(A, offset) ==
  [A EXCEPT !.memory = [o \in DOMAIN @ |->
     IF o = offset THEN <<"ring", << >>>>
     ELSE IF o \in offset + 1 .. offset + RingWords - 1 THEN <<"slots">> ELSE @[o]]]

\* If there is memory for one ring only, its block is lost.
AllocateRings(c) ==
  LET cmd == allocate(Arena, RingWords, RingAlign)
      resp == allocate(cmd.arena, RingWords, RingAlign)
      got == cmd.offset # 0 /\ resp.offset # 0
  IN
  /\ At(c, "allocate")
  /\ Becomes(IF got THEN new_ring(new_ring(resp.arena, cmd.offset), resp.offset) ELSE resp.arena)
  /\ client' = [client EXCEPT ![c].pc = IF got THEN "publish" ELSE "remove",
                              ![c].undo = ~got,
                              ![c].rings = <<cmd.offset, resp.offset>>]
  /\ UNCHANGED <<tableVars, hung, stored, dangling, ops, registry, server, sweeper, history, left>>

PublishRings(c) ==
  LET r == client[c].rings IN
  /\ At(c, "publish")
  /\ slots' = [i \in DOMAIN slots |->
                 IF i \in get_session(client[c].id)
                 THEN [touched(slots[i]) EXCEPT !.cmd = r[1], !.resp = r[2]]
                 ELSE slots[i]]
  /\ Goes(c, "in")
  /\ UNCHANGED <<kvVars, next_session_id, active_sessions, server, sweeper, history, left>>

-----------------------------------------------------------------------------
(* detach_session, and remove_session at the end of an attachment that failed *)

\* The rings are those the descriptor names; without one nothing is removed or freed.
detach_session(c) ==
  LET found == get_session(client[c].id) IN
  /\ At(c, "in") \/ At(c, "remove")
  /\ client' = [client EXCEPT ![c] =
                  IF found = {} THEN Outside
                  ELSE [@ EXCEPT !.pc = "drop", !.slot = Min(found),
                                 !.rings = LET d == slots[Min(found)] IN <<d.cmd, d.resp>>]]
  /\ UNCHANGED <<kvVars, registry, server, sweeper, history, left>>

\* The eventfd is closed; only its number stays.
dropped(d) == [d EXCEPT !.id = 0]

remove_session(c) ==
  LET i == client[c].slot IN
  /\ At(c, "drop")
  /\ slots' = [slots EXCEPT ![i] = dropped(@)]
  /\ Goes(c, "discount")
  /\ crossed' = (crossed \/ slots[i].id # client[c].id)
  /\ UNCHANGED <<kvVars, next_session_id, active_sessions, server, sweeper, stray, met, left>>

\* Mutant: one session, however many were removed.
discounted_one(n) == (active_sessions - 1) % CounterRange

\* fetch_sub wraps around.
discounted(n) == (active_sessions - n) % CounterRange

CountDown(c) ==
  /\ At(c, "discount")
  /\ active_sessions' = discounted(1)
  /\ client' = [client EXCEPT ![c] = IF @.undo THEN Outside ELSE [@ EXCEPT !.pc = "free"]]
  /\ UNCHANGED <<kvVars, slots, next_session_id, server, sweeper, history, left>>

FreeRings(c) ==
  LET r == client[c].rings IN
  /\ At(c, "free")
  /\ Becomes(free(free(Arena, r[1], RingWords), r[2], RingWords))
  /\ client' = [client EXCEPT ![c] = Outside]
  /\ met' = (met \/ server.id = client[c].id)
  /\ UNCHANGED <<tableVars, hung, stored, dangling, ops, registry, server, sweeper,
                 stray, crossed, left>>

-----------------------------------------------------------------------------
(* What a client does with its session.  The library has no client: it is taken to
   acknowledge when it wakes, and to sleep again when it finds no more responses. *)

\* Its rings while its descriptor is there.
Attached(c) == get_session(client[c].id) # {}
CmdRing(c) == slots[Min(get_session(client[c].id))].cmd
RespRing(c) == slots[Min(get_session(client[c].id))].resp

PushCommand(c, command) ==
  /\ At(c, "in") /\ Attached(c) /\ IsRing(CmdRing(c)) /\ command \in left.which
  /\ Len(Queue(CmdRing(c))) < RingCapacity
  /\ Spend("commands")
  /\ SetQueue(Append(Queue(CmdRing(c)), <<"command", client[c].sent + 1, command>>), CmdRing(c))
  /\ client' = [client EXCEPT ![c].sent = @ + 1]
  /\ UNCHANGED <<tableVars, current, free_lists, width, smashed, hung, stored, dangling, ops,
                 registry, server, sweeper, history>>

PopResponse(c) ==
  /\ At(c, "in") /\ Attached(c) /\ IsRing(RespRing(c)) /\ Queue(RespRing(c)) # << >>
  /\ SetQueue(popped(Queue(RespRing(c))), RespRing(c))
  /\ LET slot == Head(Queue(RespRing(c))) IN
     client' = [client EXCEPT ![c].got =
                  Append(@, IF slot[1] = "offset" THEN memory[slot[2]] ELSE slot)]
  /\ UNCHANGED <<tableVars, current, free_lists, width, smashed, hung, stored, dangling, ops,
                 registry, server, sweeper, history, left>>

Sleep(c) ==
  /\ At(c, "in") /\ Attached(c) /\ IsRing(RespRing(c)) /\ Queue(RespRing(c)) = << >>
  /\ client[c].sent > 0
  /\ Goes(c, "asleep")
  /\ UNCHANGED <<kvVars, registry, server, sweeper, history, left>>

\* Reading the eventfd resets it.
Wake(c) ==
  /\ At(c, "asleep")
  /\ \E i \in get_session(client[c].id) :
        slots[i].eventfd = 1 /\ slots' = [slots EXCEPT ![i].eventfd = 0]
  /\ Goes(c, "awake")
  /\ UNCHANGED <<kvVars, next_session_id, active_sessions, server, sweeper, history, left>>

ack_notifications(c) ==
  /\ At(c, "awake")
  /\ slots' = [i \in DOMAIN slots |->
                 IF i \in get_session(client[c].id)
                 THEN [touched(slots[i]) EXCEPT !.pending = 0] ELSE slots[i]]
  /\ client' = [client EXCEPT ![c].pc = "in", ![c].inherited = FALSE]
  /\ UNCHANGED <<kvVars, next_session_id, active_sessions, server, sweeper, history, left>>

-----------------------------------------------------------------------------
(* The serving thread: try_get_command, process_command and send_response *)

\* A session in the registry whose attachment is not over yet.
Attaching(id) == \E c \in Clients : client[c].id = id /\ (client[c].undo \/ client[c].pc \in
                                       {"touch", "count", "allocate", "publish"})

\* The sessions come from get_active_sessions.
get_cmd_ring(i) ==
  /\ ServerAt("idle") /\ slots[i].id # 0
  /\ server' = [Resting EXCEPT !.pc = "pop", !.id = slots[i].id, !.ref = slots[i].cmd]
  /\ met' = (met \/ Attaching(slots[i].id))
  /\ UNCHANGED <<kvVars, registry, client, sweeper, stray, crossed, left>>

\* What is too short for a command, a response in a ring of responses, is dropped.
try_get_command ==
  /\ ServerAt("pop") /\ IsRing(server.ref)
  /\ LET q == Queue(server.ref) IN
     IF q = << >> THEN server' = Resting /\ UNCHANGED memory
     ELSE /\ SetQueue(popped(q), server.ref)
          /\ server' = IF Head(q)[1] # "command" THEN Resting
                       ELSE [server EXCEPT !.pc = "process", !.item = Head(q)]
  /\ UNCHANGED <<tableVars, current, free_lists, width, smashed, hung, stored, dangling, ops,
                 registry, client, sweeper, history, left>>

\* The handlers when the store stays as it is: handle_ping, handle_get, handle_cas of
\* another version, a key that is not there, no memory for a new one.
Unchanged(op, k, v) ==
  /\ op # "ping" => Steps(k) # {}
  /\ CASE op \in {"ping", "get", "cas"} -> TRUE
       [] op = "del" -> ~Found(k)
       [] op = "set" -> ~Found(k) /\ allocate(Arena, KeyLen + Length(v), 1).offset = 0
  /\ UNCHANGED kvVars

process_command ==
  LET op == server.item[3][1]
      k == server.item[3][2]
      v == server.item[3][3]
  IN
  /\ ServerAt("process")
  /\ \/ op # "ping" /\ Hangs(k)
     \/ Unchanged(op, k, v)
     \/ op = "set" /\ (InsertNew(k, v) \/ InsertOver(k, v))
     \/ op = "cas" /\ cas(k, v)
     \/ op \in {"set", "cas"} /\ GrowFails(k, v)
     \/ op = "del" /\ remove(k)
  /\ server' = [server EXCEPT !.pc = "reply"]
  /\ UNCHANGED <<registry, client, sweeper, history, left>>

\* Without memory the response is lost.  No call frees the block of a response.
AllocateReply ==
  LET a == allocate(Arena, ReplyWords, 1) IN
  /\ ServerAt("reply")
  /\ Becomes(IF a.offset = 0 THEN a.arena
             ELSE [a.arena EXCEPT !.memory = [o \in DOMAIN @ |->
                     IF o \in a.offset .. a.offset + ReplyWords - 1
                     THEN <<"reply", server.id, server.item[2]>> ELSE @[o]]])
  /\ server' = IF a.offset = 0 THEN Resting
               ELSE [server EXCEPT !.pc = "find", !.reply = a.offset]
  /\ UNCHANGED <<tableVars, hung, stored, dangling, ops, registry, client, sweeper, history, left>>

get_resp_ring ==
  LET found == get_session(server.id) IN
  /\ ServerAt("find")
  /\ server' = IF found = {} THEN Resting
               ELSE [server EXCEPT !.pc = "push", !.ref = slots[Min(found)].resp]
  /\ UNCHANGED <<kvVars, registry, client, sweeper, history, left>>

\* A full ring loses the response.
PushReply ==
  /\ ServerAt("push") /\ IsRing(server.ref)
  /\ IF Len(Queue(server.ref)) = RingCapacity THEN server' = Resting /\ UNCHANGED memory
     ELSE /\ SetQueue(Append(Queue(server.ref), <<"offset", server.reply>>), server.ref)
          /\ server' = [server EXCEPT !.pc = "notify"]
  /\ UNCHANGED <<tableVars, current, free_lists, width, smashed, hung, stored, dangling, ops,
                 registry, client, sweeper, history, left>>

\* Mutant: takes fetch_add to return the value after the addition.
first_pending_after(prev_pending) == prev_pending + 1 = 0

first_pending(prev_pending) == prev_pending = 0

Notify ==
  LET found == get_session(server.id)
      i == Min(found)
      first == first_pending(slots[i].pending)
  IN
  /\ ServerAt("notify")
  /\ IF found = {} THEN server' = Resting /\ UNCHANGED slots
     ELSE /\ slots' = [slots EXCEPT ![i] =
                         [IF first THEN @ ELSE touched(@) EXCEPT !.pending = slots[i].pending + 1]]
          /\ server' = IF first THEN [server EXCEPT !.pc = "signal", !.ref = i] ELSE Resting
  /\ UNCHANGED <<kvVars, next_session_id, active_sessions, client, sweeper, history, left>>

\* The descriptor is the one found by Notify, whoever has it now.
Signal ==
  /\ ServerAt("signal")
  /\ slots' = [slots EXCEPT ![server.ref] =
                 [touched(@) EXCEPT !.eventfd = IF @ = -1 THEN -1 ELSE 1]]
  /\ server' = Resting
  /\ UNCHANGED <<kvVars, next_session_id, active_sessions, client, sweeper, history, left>>

\* A ring is looked for where there is none: undefined behaviour.
Stray ==
  /\ Defined
  /\ \/ server.pc \in {"pop", "push"} /\ ~IsRing(server.ref)
     \/ \E c \in Clients : /\ client[c].pc = "in" /\ Attached(c)
                           /\ ~(IsRing(CmdRing(c)) /\ IsRing(RespRing(c)))
  /\ stray' = TRUE
  /\ UNCHANGED <<kvVars, registry, client, server, sweeper, met, crossed, left>>

-----------------------------------------------------------------------------
(* cleanup_stale_sessions *)

\* More than the timeout passes without a touch.
TimePasses ==
  /\ Defined /\ \E i \in DOMAIN slots : slots[i].id # 0 /\ slots[i].recent
  /\ Spend("mishaps")
  /\ slots' = [i \in DOMAIN slots |-> [slots[i] EXCEPT !.recent = FALSE]]
  /\ UNCHANGED <<kvVars, next_session_id, active_sessions, client, server, sweeper, history>>

is_stale(i) == slots[i].id # 0 /\ ~slots[i].recent

cleanup_stale_sessions ==
  /\ Defined /\ sweeper.pc = "idle" /\ \E i \in DOMAIN slots : is_stale(i)
  /\ sweeper' = [Swept EXCEPT !.pc = "look", !.at = 1]
  /\ UNCHANGED <<kvVars, registry, client, server, history, left>>

SweepLook ==
  LET i == sweeper.at IN
  /\ Defined /\ sweeper.pc = "look" /\ i <= MaxSessions
  /\ sweeper' = IF is_stale(i) THEN [sweeper EXCEPT !.pc = "drop", !.id = slots[i].id]
                ELSE [sweeper EXCEPT !.at = @ + 1]
  /\ UNCHANGED <<kvVars, registry, client, server, history, left>>

\* The rings are not freed.
SweepDrop ==
  LET i == sweeper.at IN
  /\ Defined /\ sweeper.pc = "drop"
  /\ slots' = [slots EXCEPT ![i] = dropped(@)]
  /\ sweeper' = [sweeper EXCEPT !.pc = "look", !.at = @ + 1, !.cleaned = @ + 1]
  /\ crossed' = (crossed \/ slots[i].id # sweeper.id \/ Attaching(sweeper.id))
  /\ UNCHANGED <<kvVars, next_session_id, active_sessions, client, server, stray, met, left>>

SweepEnds ==
  /\ Defined /\ sweeper.pc = "look" /\ sweeper.at > MaxSessions
  /\ active_sessions' = discounted(sweeper.cleaned)
  /\ sweeper' = Swept
  /\ UNCHANGED <<kvVars, slots, next_session_id, client, server, history, left>>

-----------------------------------------------------------------------------
\* process_command called by the program that has the engine.
Direct ==
  /\ Defined /\ Spend("direct") /\ Next
  /\ UNCHANGED <<registry, client, server, sweeper, history>>

ClientStep(c) ==
  \/ create_session(c) \/ find_free_slot(c) \/ WriteId(c) \/ CountUp(c)
  \/ \E fails \in BOOLEAN : OpenEventfd(c, fails)
  \/ AllocateRings(c) \/ PublishRings(c)
  \/ detach_session(c) \/ remove_session(c) \/ CountDown(c) \/ FreeRings(c)
  \/ \E command \in Requests : PushCommand(c, command)
  \/ PopResponse(c) \/ Sleep(c) \/ Wake(c) \/ ack_notifications(c)

ServerStep ==
  \/ \E i \in DOMAIN slots : get_cmd_ring(i)
  \/ try_get_command \/ process_command \/ AllocateReply
  \/ get_resp_ring \/ PushReply \/ Notify \/ Signal

EngineNext ==
  \/ Direct \/ ServerStep \/ Stray \/ TimePasses
  \/ \E c \in Clients : ClientStep(c)
  \/ cleanup_stale_sessions \/ SweepLook \/ SweepDrop \/ SweepEnds

EngineSpec == EngineInit /\ [][EngineNext]_<<kvVars, engineVars>>

-----------------------------------------------------------------------------
(* The type of every variable of the registry and its callers. *)
EngineTypeOK ==
  /\ TypeOK
  /\ \A i \in DOMAIN slots : /\ slots[i].id \in 0..next_session_id - 1
                             /\ slots[i].eventfd \in {-1, 0, 1}
                             /\ {slots[i].cmd, slots[i].resp} \subseteq 0..ArenaSize - 1
  /\ active_sessions \in 0..CounterRange - 1
  /\ \A c \in Clients : client[c].id \in 0..next_session_id - 1

(* A client reads responses to commands of its own session, in the order   *)
(* in which it sent them, although sessions that come and go reuse the     *)
(* descriptors, and the rings and values the blocks, of earlier ones, and  *)
(* although full rings and a full arena lose responses; no memory is taken *)
(* for a ring that is none.  The server must not have used a session whose *)
(* attach_session or detach_session was under way, since a descriptor is   *)
(* found before its rings are there and a ring is freed while the server   *)
(* may hold it (session.rs:163-191, 333-342, 361-370, 376-388).            *)
OwnResponses ==
  ~met /\ ~dangling /\ ~smashed =>
    /\ ~stray
    /\ \A c \in Clients : LET got == client[c].got IN \A n \in DOMAIN got :
          /\ got[n][1] = "reply" /\ got[n][2] = client[c].id
          /\ got[n][3] <= client[c].sent
          /\ \A m \in 1..n - 1 : got[m][3] < got[n][3]

(* A client does not sleep over a response: once send_response is through, *)
(* the eventfd can be read, although only the first of several responses   *)
(* signals it and ack_notifications may reset the counter at any moment    *)
(* between (session.rs:406-451).  The exceptions are a session without an  *)
(* eventfd and one whose descriptor still has the counter of an earlier    *)
(* session, since create_session does not reset it.                        *)
WokenWhenWaiting ==
  \A c \in Clients :
    /\ client[c].pc = "asleep" /\ ~client[c].inherited /\ Attached(c)
    /\ ~met /\ ~crossed /\ ~dangling /\ ~smashed /\ ~stray
    /\ ~(server.id = client[c].id /\ server.pc \in {"notify", "signal"})
    /\ Queue(RespRing(c)) # << >>
    => slots[Min(get_session(client[c].id))].eventfd # 0

(* When no call on the registry is under way, active_sessions is the       *)
(* number of descriptors in use, whatever failed half-way, was swept or    *)
(* was refused before, unless two calls changed one descriptor at once: a  *)
(* sweep beside a detachment counts a session down twice, and below zero   *)
(* the counter refuses every further session (session.rs:163-195, 224-270).*)
ActiveCounted ==
  /\ ~crossed /\ sweeper.pc = "idle"
  /\ \A c \in Clients : client[c].pc \in {"out", "in", "asleep", "awake"}
  => active_sessions = Cardinality({i \in DOMAIN slots : slots[i].id # 0})
=============================================================================
