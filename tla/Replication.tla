----------------------------- MODULE Replication -----------------------------
(***************************************************************************)
(* Master-slave replication of replication/: the listener that serves one  *)
(* joining slave at a time (full or incremental synchronisation), the      *)
(* broadcast of log entries to the slaves that joined, and the task of a   *)
(* slave that connects, synchronises, follows the stream and starts again  *)
(* after every error.                                                      *)
(*                                                                         *)
(* The listener keeps the slave_manager lock while it serves a slave, and  *)
(* a broadcast takes the same lock.  A connection is where its record is:  *)
(* in the listener's backlog, being served, or with the slave manager; a   *)
(* connection its slave has given up is "gone".  Data: an entry writes its *)
(* own sequence number into a document.                                    *)
(***************************************************************************)
EXTENDS Integers, Sequences, FiniteSets

CONSTANTS Slaves, Docs,
          Hosts,          \* tasks of the program that writes on the master
          FirstSequence,  \* number of the oldest entry of the log
          MaxSlaves,      \* config.max_slaves
          FullSyncGap,    \* entries a slave may be behind: 10000 in the code
          Disciplines,    \* ways the host may use the manager: see Careful
          MaxWrites,      \* bound: writes on the master
          MaxOwnWrites,   \* bound: writes on a promoted slave
          MaxFailures     \* bound: lost connections, time-outs, failing writes,
                          \* restarts and commands of the administrator

ASSUME ReplicationAssumption ==
  /\ FirstSequence \in Nat /\ MaxSlaves \in Nat /\ FullSyncGap \in Nat
  /\ MaxWrites \in Nat /\ MaxOwnWrites \in Nat /\ MaxFailures \in Nat
  /\ Docs # {}

VARIABLES
  discipline,         \* how the host uses the manager
  log,                \* every entry written on the master
  min_sequence,       \* the oldest entry that compaction left in the files
  docs,               \* documents of the master
  current_sequence,   \* the master's SyncManager::current_sequence
  host,               \* per host task: what it is about to do, for which entry
  backlog, serving,   \* connections not yet accepted; the one being served
  live, gone,         \* slaves with the manager; handles whose slave is gone
  pc,                 \* per slave: "down", "sync" or "stream"
  inbox,              \* per slave: messages on its connection
  sequence, replica,  \* per slave: its SyncManager::current_sequence, its documents
  got,                \* history: entries whose effect reached the slave
  overwrote,          \* history: slaves that took a snapshot over other documents
  role, own,          \* per slave: its role; history: writes since it is a master
  restarts, failures

nodeVars == <<discipline, role, own>>
masterVars == <<log, min_sequence, docs, current_sequence, host>>
joinVars == <<backlog, serving, live, gone>>
slaveVars == <<pc, inbox, sequence, replica, got, overwrote>>
vars == <<nodeVars, masterVars, joinVars, slaveVars, restarts, failures>>

\* A "careful" host broadcasts one write before it begins the next, has every
\* append flushed, and compacts while no slave is served, never the whole log.
Careful == discipline = "careful"

Absent == -1
Last == FirstSequence + Len(log) - 1
Logged(n) == log[n - FirstSequence + 1]
Entry(n, kind, d) == [sequence |-> n, kind |-> kind, doc |-> d]
Resting == [do |-> "idle", n |-> 0]
Nobody == [slave |-> "none", from |-> 0, phase |-> "none", header |-> 0, gone |-> FALSE, acked |-> FALSE]
NoDocs == [d \in Docs |-> Absent]

-----------------------------------------------------------------------------
(* Documents *)

\* An update of a document that is not there is skipped.
apply_wal_entry(e, ds) ==
  CASE e.kind = "insert" -> [ds EXCEPT ![e.doc] = e.sequence]
    [] e.kind = "update" -> [ds EXCEPT ![e.doc] = IF @ = Absent THEN Absent ELSE e.sequence]
    [] e.kind = "delete" -> [ds EXCEPT ![e.doc] = Absent]
    [] e.kind = "drop"   -> NoDocs

\* The documents after a sequence of entries, the first one first.
Applied(entries, ds) ==
  LET after[i \in 0..Len(entries)] ==
        IF i = 0 THEN ds ELSE apply_wal_entry(entries[i], after[i - 1])
  IN  after[Len(entries)]

\* What the master wrote when the modelled behaviour begins.
Start == <<Entry(FirstSequence, "insert", CHOOSE d \in Docs : TRUE)>>

Init ==
  /\ discipline \in Disciplines
  /\ log = Start /\ min_sequence = FirstSequence
  /\ docs = Applied(Start, NoDocs) /\ current_sequence = FirstSequence
  /\ host = [h \in Hosts |-> Resting]
  /\ backlog = << >> /\ serving = Nobody /\ live = {} /\ gone = 0
  /\ pc = [s \in Slaves |-> "down"] /\ inbox = [s \in Slaves |-> << >>]
  /\ sequence = [s \in Slaves |-> 0] /\ replica = [s \in Slaves |-> NoDocs]
  /\ got = [s \in Slaves |-> {}] /\ overwrote = {}
  /\ role = [s \in Slaves |-> "slave"] /\ own = [s \in Slaves |-> 0]
  /\ restarts = 0 /\ failures = 0

-----------------------------------------------------------------------------
(* The host: it writes and logs, then tells the replication manager. *)

HostWrite(h, kind, d) ==
  LET e == Entry(Last + 1, kind, d)
  IN  /\ host[h].do = "idle" /\ Len(log) <= MaxWrites
      /\ Careful => \A i \in Hosts : host[i].do = "idle"
      /\ kind = "update" => docs[d] # Absent
      /\ log' = Append(log, e)
      /\ docs' = apply_wal_entry(e, docs)
      /\ host' = [host EXCEPT ![h] = [do |-> "update", n |-> Last + 1]]
      /\ UNCHANGED <<nodeVars, min_sequence, current_sequence, joinVars, slaveVars, restarts, failures>>

\* SyncManager::update_sequence is a plain store.
HostUpdate(h) ==
  /\ host[h].do = "update"
  /\ current_sequence' = host[h].n
  /\ host' = [host EXCEPT ![h].do = "broadcast"]
  /\ UNCHANGED <<nodeVars, log, min_sequence, docs, joinVars, slaveVars, restarts, failures>>

\* Mutated form: a broadcast does not wait for the slave being served.
UnlockedAlways == TRUE

Unlocked == serving = Nobody

\* SlaveConnectionManager::broadcast_message.
Broadcast(m) == inbox' = [s \in Slaves |-> IF s \in live THEN Append(inbox[s], m) ELSE inbox[s]]

Incremental(entries) == [type |-> "incremental", entries |-> entries]
\* The newest entry the documents reflect is history.
Full(n, ds) == [type |-> "full", header |-> n, docs |-> ds, newest |-> Last]
Heartbeat == [type |-> "heartbeat"]

broadcast_wal_entry(h) ==
  /\ host[h].do = "broadcast" /\ Unlocked
  /\ Broadcast(Incremental(<<Logged(host[h].n)>>))
  /\ host' = [host EXCEPT ![h] = Resting]
  /\ UNCHANGED <<nodeVars, log, min_sequence, docs, current_sequence, joinVars,
                 pc, sequence, replica, got, overwrote, restarts, failures>>

\* WalWriter::compact drops the files below n.
Compact(n) ==
  /\ n \in min_sequence + 1 .. Last + 1
  /\ Careful => serving = Nobody /\ n <= Last
  /\ min_sequence' = n
  /\ UNCHANGED <<nodeVars, log, docs, current_sequence, host,
                 joinVars, slaveVars, restarts, failures>>

-----------------------------------------------------------------------------
(* handle_new_slave: the listener serves one connection after the other. *)

Accept ==
  /\ serving = Nobody /\ backlog # << >>
  /\ serving' = [Head(backlog) EXCEPT !.phase = "decide"]
  /\ backlog' = Tail(backlog)
  /\ UNCHANGED <<nodeVars, masterVars, live, gone, slaveVars, restarts, failures>>

Phase(p, next) == serving.phase = p /\ serving' = [serving EXCEPT !.phase = next]

\* The first entry of the files; without one the code takes 0.
available == IF min_sequence > Last THEN 0 ELSE min_sequence

\* Mutated form: the log is not asked for its oldest entry.
needs_full_sync_far(from) == current_sequence > from + FullSyncGap

needs_full_sync(from) == current_sequence > from + FullSyncGap \/ from < available

Decide ==
  /\ Phase("decide", IF needs_full_sync(serving.from) THEN "header" ELSE "read")
  /\ UNCHANGED <<nodeVars, masterVars, backlog, live, gone, slaveVars, restarts, failures>>

\* create_temp_snapshot reads the sequence number, then scans the documents.
ReadHeader ==
  /\ serving.phase = "header"
  /\ serving' = [serving EXCEPT !.phase = "scan", !.header = current_sequence]
  /\ UNCHANGED <<nodeVars, masterVars, backlog, live, gone, slaveVars, restarts, failures>>

\* A message to the slave being served.
Send(m) ==
  inbox' = IF serving.gone THEN inbox ELSE [inbox EXCEPT ![serving.slave] = Append(@, m)]

perform_full_sync ==
  /\ Phase("scan", "ack")
  /\ Send(Full(serving.header, docs))
  /\ UNCHANGED <<nodeVars, masterVars, backlog, live, gone,
                 pc, sequence, replica, got, overwrote, restarts, failures>>

\* The entries in the files with numbers above from; those up to flushed have reached
\* the files.  Numbers have no gaps, so they are a stretch of the log.
Stretch(from, flushed) ==
  LET first == IF from < min_sequence THEN min_sequence ELSE from + 1
  IN  SubSeq(log, first - FirstSequence + 1, flushed - FirstSequence + 1)

\* Mutated form: off by one.
get_wal_entries_after_next(from, flushed) == Stretch(from + 1, flushed)

get_wal_entries_since(from, flushed) == Stretch(from, flushed)

\* With nothing to send, nothing is sent.
perform_incremental_sync(flushed) ==
  LET entries == get_wal_entries_since(serving.from, flushed)
  IN  /\ Careful => flushed = Last
      /\ Phase("read", IF entries = << >> THEN "add" ELSE "ack")
      /\ IF entries = << >> THEN UNCHANGED inbox ELSE Send(Incremental(entries))
      /\ UNCHANGED <<nodeVars, masterVars, backlog, live, gone,
                     pc, sequence, replica, got, overwrote, restarts, failures>>

ReceiveAck ==
  /\ serving.acked /\ Phase("ack", "add")
  /\ UNCHANGED <<nodeVars, masterVars, backlog, live, gone, slaveVars, restarts, failures>>

at_limit == Cardinality(live) + gone >= MaxSlaves

\* At the limit the connection is closed.
add_slave ==
  /\ serving.phase = "add"
  /\ live' = IF at_limit \/ serving.gone THEN live ELSE live \cup {serving.slave}
  /\ gone' = IF at_limit \/ ~serving.gone THEN gone ELSE gone + 1
  /\ serving' = Nobody
  /\ UNCHANGED <<nodeVars, masterVars, backlog, slaveVars, restarts, failures>>

Fails == failures < MaxFailures /\ failures' = failures + 1

\* The connection being served breaks, or the slave does not answer in time.
ServingFails ==
  /\ serving # Nobody
  /\ IF serving.gone THEN UNCHANGED failures ELSE Fails
  /\ serving' = Nobody
  /\ UNCHANGED <<nodeVars, masterVars, backlog, live, gone, slaveVars, restarts>>

\* Handles whose task has ended are removed.
cleanup_disconnected(n) ==
  /\ Unlocked /\ n \in 1..gone
  /\ gone' = gone - n
  /\ UNCHANGED <<nodeVars, masterVars, backlog, serving, live, slaveVars, restarts, failures>>

\* remove_slave closes the connection; force_sync sends a heartbeat to everyone.
remove_slave(s) ==
  /\ Unlocked /\ s \in live /\ Fails
  /\ live' = live \ {s}
  /\ UNCHANGED <<nodeVars, masterVars, backlog, serving, gone, slaveVars, restarts>>

force_sync ==
  /\ Unlocked /\ live # {} /\ Fails
  /\ Broadcast(Heartbeat)
  /\ UNCHANGED <<nodeVars, masterVars, joinVars, pc, sequence, replica, got, overwrote, restarts>>

-----------------------------------------------------------------------------
(* The task of a slave. *)

\* connect_to_master sends its sequence number.
Connect(s) ==
  /\ pc[s] = "down"
  /\ pc' = [pc EXCEPT ![s] = "sync"]
  /\ inbox' = [inbox EXCEPT ![s] = << >>]
  /\ backlog' = Append(backlog, [Nobody EXCEPT !.slave = s, !.from = sequence[s]])
  /\ UNCHANGED <<nodeVars, masterVars, serving, live, gone,
                 sequence, replica, got, overwrote, restarts, failures>>

\* The slave's connection, wherever the master has it, has lost its slave.
GiveUp(s) ==
  /\ pc' = [pc EXCEPT ![s] = "down"]
  /\ inbox' = [inbox EXCEPT ![s] = << >>]
  /\ backlog' = [i \in 1..Len(backlog) |->
                   IF backlog[i].slave = s THEN [backlog[i] EXCEPT !.gone = TRUE] ELSE backlog[i]]
  /\ serving' = IF serving.slave = s THEN [serving EXCEPT !.gone = TRUE] ELSE serving
  /\ live' = live \ {s}
  /\ gone' = IF s \in live THEN gone + 1 ELSE gone

\* The master's end is still there.
Connected(s) ==
  \/ \E i \in 1..Len(backlog) : backlog[i].slave = s /\ ~backlog[i].gone
  \/ serving.slave = s /\ ~serving.gone
  \/ s \in live

last_sequence(entries) == entries[Len(entries)].sequence

Numbers(entries) == {entries[i].sequence : i \in 1..Len(entries)}

Acknowledge(s) ==
  serving' = IF serving.slave = s /\ ~serving.gone THEN [serving EXCEPT !.acked = TRUE] ELSE serving

\* apply_incremental_sync, for a response to the request or from the stream.
apply_incremental_sync(s) ==
  LET m == Head(inbox[s])
  IN  /\ pc[s] # "down" /\ inbox[s] # << >> /\ m.type = "incremental"
      /\ replica' = [replica EXCEPT ![s] = Applied(m.entries, @)]
      /\ got' = [got EXCEPT ![s] = @ \cup Numbers(m.entries)]
      /\ sequence' = [sequence EXCEPT ![s] =
                        IF last_sequence(m.entries) > 0 THEN last_sequence(m.entries) ELSE @]
      /\ pc' = [pc EXCEPT ![s] = "stream"]
      /\ inbox' = [inbox EXCEPT ![s] = Tail(@)]
      /\ Acknowledge(s)
      /\ UNCHANGED <<nodeVars, masterVars, backlog, live, gone, overwrote, restarts, failures>>

\* The storage of the slave fails after k entries: those stay applied.
IncrementalFails(s, k) ==
  LET m == Head(inbox[s])
  IN  /\ pc[s] # "down" /\ inbox[s] # << >> /\ m.type = "incremental"
      /\ k < Len(m.entries) /\ Fails
      /\ replica' = [replica EXCEPT ![s] = Applied(SubSeq(m.entries, 1, k), @)]
      /\ got' = [got EXCEPT ![s] = @ \cup Numbers(SubSeq(m.entries, 1, k))]
      /\ GiveUp(s)
      /\ UNCHANGED <<nodeVars, masterVars, sequence, overwrote, restarts>>

\* The documents of a snapshot are inserted beside the ones that are there.
Inserted(ds, snapshot) == [d \in Docs |-> IF snapshot[d] = Absent THEN ds[d] ELSE snapshot[d]]

apply_full_sync(s) ==
  LET m == Head(inbox[s])
  IN  /\ pc[s] = "sync" /\ inbox[s] # << >> /\ m.type = "full"
      /\ replica' = [replica EXCEPT ![s] = Inserted(@, m.docs)]
      /\ got' = [got EXCEPT ![s] = @ \cup FirstSequence..m.newest]
      /\ overwrote' = IF replica[s] # NoDocs THEN overwrote \cup {s} ELSE overwrote
      /\ sequence' = [sequence EXCEPT ![s] = m.header]
      /\ pc' = [pc EXCEPT ![s] = "stream"]
      /\ inbox' = [inbox EXCEPT ![s] = Tail(@)]
      /\ Acknowledge(s)
      /\ UNCHANGED <<nodeVars, masterVars, backlog, live, gone, restarts, failures>>

\* The storage fails after some documents.
FullFails(s, D) ==
  LET m == Head(inbox[s])
  IN  /\ pc[s] = "sync" /\ inbox[s] # << >> /\ m.type = "full" /\ Fails
      /\ replica' = [replica EXCEPT ![s] =
                       Inserted(@, [d \in Docs |-> IF d \in D THEN m.docs[d] ELSE Absent])]
      /\ overwrote' = IF replica[s] # NoDocs THEN overwrote \cup {s} ELSE overwrote
      /\ GiveUp(s)
      /\ UNCHANGED <<nodeVars, masterVars, sequence, got, restarts>>

\* handle_replication_stream passes over a heartbeat.
PassHeartbeat(s) ==
  /\ pc[s] = "stream" /\ inbox[s] # << >> /\ Head(inbox[s]) = Heartbeat
  /\ inbox' = [inbox EXCEPT ![s] = Tail(@)]
  /\ UNCHANGED <<nodeVars, masterVars, joinVars, pc, sequence, replica, got, overwrote, restarts, failures>>

\* The slave's task ends with an error and will connect again: the response is
\* not one, the master has closed the connection, or, with nothing to send, it
\* never answers.
SlaveError(s) ==
  /\ \/ pc[s] = "sync" /\ inbox[s] # << >> /\ Head(inbox[s]) = Heartbeat
     \/ pc[s] # "down" /\ ~Connected(s)
     \/ pc[s] = "sync" /\ s \in live /\ inbox[s] = << >>
  /\ GiveUp(s)
  /\ UNCHANGED <<nodeVars, masterVars, sequence, replica, got, overwrote, restarts, failures>>

\* The connection breaks or a time-out strikes.
ConnectionLost(s) ==
  /\ pc[s] # "down" /\ Connected(s) /\ Fails
  /\ GiveUp(s)
  /\ UNCHANGED <<nodeVars, masterVars, sequence, replica, got, overwrote, restarts>>

\* The slave restarts: its documents are kept, its sequence number is not, and
\* its role is the configured one.
SlaveRestart(s) ==
  /\ Fails /\ GiveUp(s)
  /\ sequence' = [sequence EXCEPT ![s] = 0]
  /\ role' = [role EXCEPT ![s] = "slave"]
  /\ restarts' = restarts + 1
  /\ UNCHANGED <<discipline, own, masterVars, replica, got, overwrote>>

-----------------------------------------------------------------------------
(* Promotion *)

\* The connection to the old master is in the hands of the slave's task and never
\* in master_connection, so nothing is closed and that task goes on as before.
promote_to_master(s) ==
  /\ role[s] = "slave" /\ Fails
  /\ role' = [role EXCEPT ![s] = "master"]
  /\ UNCHANGED <<discipline, own, masterVars, joinVars, slaveVars, restarts>>

can_write(s) == role[s] = "master"

\* A write on the promoted slave gets a number of its own log, which its host hands
\* to update_sequence: the counter that tells the old master where the slave is.
handle_write_operation(s, d) ==
  /\ can_write(s) /\ own[s] < MaxOwnWrites
  /\ own' = [own EXCEPT ![s] = @ + 1]
  /\ replica' = [replica EXCEPT ![s][d] = Absent - 1 - own[s]]
  /\ sequence' = [sequence EXCEPT ![s] = FirstSequence + own[s]]
  /\ UNCHANGED <<discipline, role, masterVars, joinVars, pc, inbox, got, overwrote,
                 restarts, failures>>

-----------------------------------------------------------------------------
HostStep(h) == HostUpdate(h) \/ broadcast_wal_entry(h)
Serve ==
  \/ Accept \/ Decide \/ ReadHeader \/ perform_full_sync
  \/ (\E flushed \in FirstSequence .. Last : perform_incremental_sync(flushed))
  \/ ReceiveAck \/ add_slave
SlaveStep(s) ==
  \/ Connect(s) \/ apply_incremental_sync(s) \/ apply_full_sync(s)
  \/ PassHeartbeat(s) \/ SlaveError(s)

Next ==
  \/ \E h \in Hosts : HostStep(h)
  \/ \E h \in Hosts, kind \in {"insert", "update", "delete", "drop"}, d \in Docs : HostWrite(h, kind, d)
  \/ (\E n \in 1..Last + 1 : Compact(n))
  \/ Serve \/ ServingFails \/ (\E n \in 1..gone : cleanup_disconnected(n))
  \/ force_sync
  \/ \E s \in Slaves :
       \/ promote_to_master(s) \/ (\E d \in Docs : handle_write_operation(s, d))
       \/ remove_slave(s) \/ SlaveStep(s) \/ ConnectionLost(s) \/ SlaveRestart(s)
       \/ (\E k \in 0..MaxWrites : IncrementalFails(s, k))
       \/ (\E D \in SUBSET Docs : FullFails(s, D))

Spec == Init /\ [][Next]_vars

\* Tasks are polled again and again; a connection given up is noticed.
FairSpec ==
  /\ Spec /\ WF_vars(Serve) /\ WF_vars(serving.gone /\ ServingFails)
  /\ \A h \in Hosts : SF_vars(HostStep(h))
  /\ \A s \in Slaves : WF_vars(SlaveStep(s))

-----------------------------------------------------------------------------
Numbering == FirstSequence .. FirstSequence + MaxWrites

\* Every variable keeps its type, and the slave manager its limit.
TypeOK ==
  /\ discipline \in Disciplines
  /\ \A i \in 1..Len(log) : log[i].sequence = FirstSequence + i - 1
  /\ min_sequence \in Nat /\ current_sequence \in Numbering
  /\ docs \in [Docs -> Numbering \cup {Absent}]
  /\ role \in [Slaves -> {"slave", "master"}] /\ own \in [Slaves -> 0..MaxOwnWrites]
  /\ replica \in [Slaves -> [Docs -> Numbering \cup (Absent - MaxOwnWrites .. Absent)]]
  /\ sequence \in [Slaves -> {0} \cup Numbering]
  /\ got \in [Slaves -> SUBSET Numbering] /\ overwrote \subseteq Slaves
  /\ live \subseteq Slaves /\ Cardinality(live) + gone <= MaxSlaves
  /\ serving = Nobody \/ serving.slave \in Slaves
  /\ \A s \in Slaves : pc[s] \in {"down", "sync", "stream"} /\ (pc[s] = "down" => s \notin live)
  /\ host \in [Hosts -> [do : {"idle", "update", "broadcast"}, n : 0 .. FirstSequence + MaxWrites]]

\* A slave that says it has come to entry n has the effect of all entries up to
\* n, whatever connections broke, whenever it joined and whether or not it was
\* promoted, until it takes writes of its own (sync.rs:178-219, 261-307, 378-389).
\* Entry 0 is not among them: a slave that has nothing asks for what is above 0.
NoGap ==
  Careful => \A s \in Slaves : own[s] = 0 => (FirstSequence .. sequence[s]) \ {0} \subseteq got[s]

\* The slave follows the stream and everything sent has arrived.
Settled(s) ==
  /\ pc[s] = "stream" /\ s \in live /\ inbox[s] = << >>
  /\ \A h \in Hosts : host[h].do = "idle"

\* A settled slave has the master's documents; only one that took a snapshot
\* over other documents may have more, and only one that took writes of its own
\* may differ (sync.rs:222-307, 537-691).
SettledAgrees ==
  Careful => \A s \in Slaves : Settled(s) /\ own[s] = 0 =>
    \A d \in Docs : replica[s][d] = docs[d] \/ (docs[d] = Absent /\ s \in overwrote)

\* Every entry reaches every slave in the end, also one that was promoted: it goes
\* on following the old master until it takes writes of its own (manager.rs:148-186,
\* 470-500).
CatchesUp ==
  \A s \in Slaves : \A n \in Numbering :
    (Careful /\ Last >= n) ~> (sequence[s] >= n \/ own[s] > 0)
=============================================================================
