-------------------------- MODULE ReplicationProofs --------------------------
(***************************************************************************)
(* What replication/ promises for any slaves, hosts, documents, numbers of *)
(* writes and failures: a slave that says it has come to an entry has the  *)
(* effect of all the entries before it, and one that follows the stream    *)
(* has the master's documents when nothing is on its way.                  *)
(***************************************************************************)
EXTENDS Replication, SequenceTheorems, WellFoundedInduction, TLAPS

Kinds == {"insert", "update", "delete", "drop"}
Phases == {"none", "decide", "header", "scan", "read", "ack", "add"}
Entries == [sequence : Nat, kind : Kinds, doc : Docs]
Handles == [slave : Slaves \cup {"none"}, from : Nat, phase : Phases, header : Nat,
            gone : BOOLEAN, acked : BOOLEAN]

(* The master's log and counters. *)
MasterTypes ==
  /\ log \in Seq(Entries) /\ Len(log) > 0
  /\ \A i \in 1..Len(log) : log[i].sequence = FirstSequence + i - 1
  /\ min_sequence \in Nat /\ min_sequence >= FirstSequence
  /\ current_sequence \in Nat /\ current_sequence <= Last
  /\ host \in [Hosts -> [do : {"idle", "update", "broadcast"}, n : Nat]]
  /\ \A h \in Hosts : host[h].do # "idle" => host[h].n \in FirstSequence..Last

(* The connections and the slaves. *)
SlaveTypes ==
  /\ backlog \in Seq(Handles) /\ serving \in Handles
  /\ pc \in [Slaves -> {"down", "sync", "stream"}]
  /\ sequence \in [Slaves -> Nat] /\ own \in [Slaves -> Nat] /\ got \in [Slaves -> SUBSET Int]

(* The messages are of any kind here: see Fine. *)
Boxes == \E T : inbox \in [Slaves -> Seq(T)]

(* A careful host has one write at a time under way, and leaves what a slave is about to read. *)
CareTaken ==
  /\ min_sequence <= Last
  /\ \A h, i \in Hosts : host[h].do # "idle" /\ host[i].do # "idle" => h = i
  /\ \A h \in Hosts : host[h].do # "idle" => host[h].n = Last
  /\ serving.phase = "read" => serving.from >= min_sequence

Master ==
  /\ MasterTypes /\ SlaveTypes /\ (Careful => CareTaken)
  /\ serving.phase = "scan" => serving.header <= Last

-----------------------------------------------------------------------------
Span(n) == (FirstSequence..n) \ {0}

(* What a message brings to a slave, and up to where it says the slave has come. *)
Carries(m) ==
  IF m.type = "incremental" THEN Numbers(m.entries)
  ELSE IF m.type = "full" THEN FirstSequence..m.newest ELSE {}

Claims(m) ==
  IF m.type = "incremental" THEN last_sequence(m.entries)
  ELSE IF m.type = "full" THEN m.header ELSE 0

Fine(m) ==
  /\ m.type = "incremental" => m.entries \in Seq(Entries) /\ m.entries # << >>
  /\ m.type = "full" => m.header \in Nat /\ m.newest \in Int

(* The slave has entry n, or will have it with the first i messages. *)
Has(s, n, i) == n \in got[s] \/ \E j \in 1..i : n \in Carries(inbox[s][j])

(* The last entry that every slave with the manager was sent. *)
Sent == IF \A h \in Hosts : host[h].do = "idle" THEN Last ELSE Last - 1

Served(s) == serving.slave = s /\ serving.phase # "none" /\ ~serving.gone
Synced(s) == serving.slave = s /\ serving.phase \in {"ack", "add"} /\ ~serving.gone

(* A slave that is down has no connection. *)
Cut(s) ==
  pc[s] = "down" =>
    /\ s \notin live /\ inbox[s] = << >> /\ ~Served(s)
    /\ \A i \in 1..Len(backlog) : backlog[i].slave = s => backlog[i].gone

(* What the slave says, on its connections and in its counter, it has. *)
Honest(s) ==
  /\ Span(sequence[s]) \subseteq got[s]
  /\ \A i \in 1..Len(backlog) : backlog[i].slave = s => Span(backlog[i].from) \subseteq got[s]
  /\ serving.slave = s => Span(serving.from) \subseteq got[s]

(* Each message finds the slave with everything before the entries it brings. *)
Chained(s) == \A i \in 1..Len(inbox[s]) : \A n \in Span(Claims(inbox[s][i])) : Has(s, n, i)

(* A slave with the manager, or about to be, has been sent everything. *)
UpToDate(s) == s \in live \/ Synced(s) => \A n \in Span(Sent) : Has(s, n, Len(inbox[s]))

Follows(s) ==
  /\ Cut(s) /\ \A i \in 1..Len(inbox[s]) : Fine(inbox[s][i])
  /\ Careful /\ own[s] = 0 => Honest(s) /\ Chained(s) /\ UpToDate(s)

Inv == Master /\ Boxes /\ \A s \in Slaves : Follows(s)

-----------------------------------------------------------------------------
(* How a step may treat the connections of a slave: a request keeps its number, one that   *)
(* is gone stays gone, and only a connection that was brought up to date is added.         *)
BacklogKept(s) ==
  \A i \in 1..Len(backlog') : backlog'[i].slave = s =>
    \E j \in 1..Len(backlog) :
      /\ backlog[j].slave = s /\ backlog'[i].from = backlog[j].from
      /\ backlog[j].gone => backlog'[i].gone

Waits(s) == \E j \in 1..Len(backlog) : backlog[j].slave = s /\ ~backlog[j].gone

ServingKept(s) ==
  /\ Served(s)' => Served(s) \/ Waits(s)
  /\ serving'.slave = s =>
       \/ serving'.from = 0
       \/ serving.slave = s /\ serving'.from = serving.from
       \/ \E j \in 1..Len(backlog) : backlog[j].slave = s /\ serving'.from = backlog[j].from
  /\ s \in live' => s \in live \/ Served(s)
  /\ s \in live' \/ Synced(s)' => s \in live \/ Synced(s)

LEMMA SpanZero == Span(0) = {}
BY ReplicationAssumption DEF Span

(* A slave whose own state a step does not change follows as before. *)
LEMMA FollowsKept ==
  ASSUME NEW s \in Slaves, Follows(s), BacklogKept(s), ServingKept(s),
         s \in live' \/ Synced(s)' => Sent' = Sent,
         UNCHANGED discipline, pc'[s] = pc[s], inbox'[s] = inbox[s], sequence'[s] = sequence[s],
         got'[s] = got[s], own'[s] = own[s]
  PROVE  Follows(s)'
<1>1. Cut(s)'
  <2> SUFFICES ASSUME pc[s] = "down"
               PROVE  /\ s \notin live' /\ inbox[s] = << >> /\ ~Served(s)'
                      /\ \A i \in 1..Len(backlog') : backlog'[i].slave = s => backlog'[i].gone
    BY DEF Cut
  <2>1. s \notin live /\ inbox[s] = << >> /\ ~Served(s) /\ ~Waits(s) BY DEF Follows, Cut, Waits
  <2>2. s \notin live' /\ ~Served(s)' BY <2>1 DEF ServingKept
  <2>3. \A i \in 1..Len(backlog') : backlog'[i].slave = s => backlog'[i].gone
    BY DEF BacklogKept, Follows, Cut
  <2> QED BY <2>1, <2>2, <2>3
<1>2. \A i \in 1..Len(inbox'[s]) : Fine(inbox'[s][i]) BY DEF Follows
<1>3. ASSUME Careful', own'[s] = 0 PROVE Honest(s)' /\ Chained(s)' /\ UpToDate(s)'
  <2>1. Honest(s) /\ Chained(s) /\ UpToDate(s) BY <1>3 DEF Careful, Follows
  <2>2. Honest(s)'
    <3>1. Span(sequence'[s]) \subseteq got'[s] BY <2>1 DEF Honest
    <3>2. \A i \in 1..Len(backlog') : backlog'[i].slave = s
              => Span(backlog'[i].from) \subseteq got'[s]
      BY <2>1 DEF Honest, BacklogKept
    <3>3. serving'.slave = s => Span(serving'.from) \subseteq got'[s]
      BY <2>1, SpanZero DEF Honest, ServingKept
    <3> QED BY <3>1, <3>2, <3>3 DEF Honest, Span
  <2>3. \A n, i : Has(s, n, i)' <=> Has(s, n, i) BY DEF Has
  <2>4. Chained(s)' BY <2>1, <2>3 DEF Chained, Span
  <2>5. UpToDate(s)' BY <2>1, <2>3 DEF UpToDate, ServingKept, Span
  <2> QED BY <2>2, <2>4, <2>5
<1>4. (\A i \in 1..Len(inbox[s]) : Fine(inbox[s][i]))' BY <1>2 DEF Fine
<1> QED BY <1>1, <1>3, <1>4 DEF Follows

(* Steps that leave the log, the counters and the host alone. *)
LEMMA MasterKept ==
  ASSUME Master, SlaveTypes', UNCHANGED <<discipline, log, min_sequence, current_sequence, host>>,
         serving'.phase = "read" /\ Careful => serving'.from >= min_sequence,
         serving'.phase = "scan" => serving'.header <= Last
  PROVE  Master' /\ Sent' = Sent
<1>1. Last' = Last BY DEF Last
<1>2. MasterTypes' BY <1>1 DEF Master, MasterTypes
<1>3. Careful' => CareTaken' BY <1>1 DEF Master, Careful, CareTaken
<1> QED BY <1>1, <1>2, <1>3 DEF Master, Sent

(* Steps that leave every slave's own state alone. *)
LEMMA QuietKept ==
  ASSUME Inv, Master', Sent' = Sent, UNCHANGED <<discipline, pc, inbox, sequence, got, own>>,
         \A s \in Slaves : BacklogKept(s) /\ ServingKept(s)
  PROVE  Inv'
<1>1. \A s \in Slaves : Follows(s)'
  BY FollowsKept DEF Inv
<1>2. Boxes' BY DEF Inv, Boxes
<1> QED BY <1>1, <1>2 DEF Inv

-----------------------------------------------------------------------------
(* The host *)

(* The number that every slave was sent stays when a write begins. *)
LEMMA WriteKept ==
  ASSUME Inv, NEW h \in Hosts, NEW kind \in Kinds, NEW d \in Docs, HostWrite(h, kind, d)
  PROVE  Inv'
<1> DEFINE e == Entry(Last + 1, kind, d)
           w == [do |-> "update", n |-> Last + 1]
<1>b. Master /\ MasterTypes /\ SlaveTypes BY DEF Inv, Master
<1>t. /\ log \in Seq(Entries) /\ Len(log) \in Nat /\ Len(log) > 0 /\ Last \in Nat
      /\ FirstSequence \in Nat
  BY <1>b, ReplicationAssumption DEF MasterTypes, Last
<1>1. /\ host[h].do = "idle" /\ (Careful => \A i \in Hosts : host[i].do = "idle")
      /\ log' = Append(log, e) /\ host' = [host EXCEPT ![h] = w]
      /\ UNCHANGED <<discipline, role, own, min_sequence, current_sequence, backlog, serving, live,
                     gone, pc, inbox, sequence, replica, got, overwrote>>
  BY DEF HostWrite, nodeVars, joinVars, slaveVars
<1>2. e \in Entries /\ e.sequence = Last + 1 BY <1>t DEF Entry, Entries
<1> HIDE DEF e
<1>3. /\ log' \in Seq(Entries) /\ Len(log') = Len(log) + 1 /\ log'[Len(log) + 1] = e
      /\ \A i \in 1..Len(log) : log'[i] = log[i]
  BY <1>1, <1>2, <1>t
<1>4. Last' = Last + 1 BY <1>3, <1>t DEF Last
<1>5. w \in [do : {"idle", "update", "broadcast"}, n : Nat] /\ w.do = "update" /\ w.n = Last + 1
  BY <1>t
<1> HIDE DEF w
<1>6. /\ host' \in [Hosts -> [do : {"idle", "update", "broadcast"}, n : Nat]] /\ host'[h] = w
      /\ \A i \in Hosts \ {h} : host'[i] = host[i]
  BY <1>1, <1>5, <1>b DEF MasterTypes
<1>7. MasterTypes'
  <2>1. \A i \in 1..Len(log') : log'[i].sequence = FirstSequence + i - 1
    <3> SUFFICES ASSUME NEW i \in 1..Len(log') PROVE log'[i].sequence = FirstSequence + i - 1
      OBVIOUS
    <3>1. CASE i = Len(log) + 1 BY <1>2, <1>3, <1>t, <3>1 DEF Last
    <3>2. CASE i \in 1..Len(log) BY <1>3, <1>b, <3>2 DEF MasterTypes
    <3> QED BY <1>3, <1>t, <3>1, <3>2
  <2>2. \A i \in Hosts : host'[i].do # "idle" => host'[i].n \in FirstSequence..Last'
    <3> SUFFICES ASSUME NEW i \in Hosts, host'[i].do # "idle"
        PROVE host'[i].n \in FirstSequence..Last'
      OBVIOUS
    <3>1. CASE i = h
      <4>1. Last + 1 >= FirstSequence BY <1>t DEF Last
      <4> QED BY <1>4, <1>5, <1>6, <1>t, <3>1, <4>1
    <3>2. CASE i # h
      <4>1. host[i].n \in FirstSequence..Last BY <1>6, <1>b, <3>2 DEF MasterTypes
      <4> QED BY <1>4, <1>6, <1>t, <3>2, <4>1
    <3> QED BY <3>1, <3>2
  <2>3. current_sequence' <= Last' BY <1>1, <1>4, <1>b, <1>t DEF MasterTypes
  <2>4. Len(log') > 0 BY <1>3, <1>t
  <2> QED BY <1>1, <1>3, <1>6, <1>b, <2>1, <2>2, <2>3, <2>4 DEF MasterTypes
<1>8. SlaveTypes' BY <1>1, <1>b DEF SlaveTypes
<1>9. Careful' => CareTaken'
  <2> SUFFICES ASSUME Careful PROVE CareTaken' BY <1>1 DEF Careful
  <2>1. CareTaken /\ \A i \in Hosts : host[i].do = "idle" BY <1>1, <1>b DEF Master
  <2>2. \A i \in Hosts : host'[i].do # "idle" => i = h BY <1>6, <2>1
  <2>3. min_sequence' <= Last' BY <1>1, <1>4, <1>b, <1>t, <2>1 DEF CareTaken, MasterTypes
  <2> QED BY <1>1, <1>4, <1>5, <1>6, <2>1, <2>2, <2>3 DEF CareTaken
<1>10. serving'.phase = "scan" => serving'.header <= Last'
  BY <1>1, <1>4, <1>b, <1>t DEF Master, SlaveTypes, Handles
<1>11. Master' BY <1>7, <1>8, <1>9, <1>10 DEF Master
<1>12. \A s \in Slaves : BacklogKept(s) /\ ServingKept(s)
  BY <1>1 DEF BacklogKept, ServingKept, Served, Synced
<1>13. CASE Careful
  <2>1. Sent = Last BY <1>1, <1>13 DEF Sent
  <2>2. Sent' = Last' - 1 BY <1>5, <1>6 DEF Sent
  <2>3. Sent' = Sent BY <1>4, <1>t, <2>1, <2>2
  <2> QED BY <1>1, <1>11, <1>12, <2>3, QuietKept
<1>14. CASE ~Careful
  <2>1. ~Careful' BY <1>1, <1>14 DEF Careful
  <2>2. ASSUME NEW s \in Slaves PROVE Follows(s)'
    BY <1>1, <2>1 DEF Inv, Follows, Cut, Served, Fine
  <2>3. Boxes' BY <1>1 DEF Inv, Boxes
  <2> QED BY <1>11, <2>2, <2>3 DEF Inv
<1> QED BY <1>13, <1>14

(* update_sequence *)
LEMMA UpdateKept == ASSUME Inv, NEW h \in Hosts, HostUpdate(h) PROVE Inv'
<1>b. Master /\ MasterTypes /\ SlaveTypes BY DEF Inv, Master
<1>t. /\ host[h] \in [do : {"idle", "update", "broadcast"}, n : Nat]
      /\ host[h].n \in FirstSequence..Last
  BY <1>b DEF HostUpdate, MasterTypes
<1> DEFINE w == [host[h] EXCEPT !.do = "broadcast"]
<1>1. /\ host[h].do = "update" /\ current_sequence' = host[h].n /\ host' = [host EXCEPT ![h] = w]
      /\ UNCHANGED <<discipline, role, own, log, min_sequence, backlog, serving, live,
                     gone, pc, inbox, sequence, replica, got, overwrote>>
  BY DEF HostUpdate, nodeVars, joinVars, slaveVars
<1>2. /\ w \in [do : {"idle", "update", "broadcast"}, n : Nat] /\ w.do = "broadcast"
      /\ w.n = host[h].n
  BY <1>t
<1> HIDE DEF w
<1>3. /\ host' \in [Hosts -> [do : {"idle", "update", "broadcast"}, n : Nat]] /\ host'[h] = w
      /\ \A i \in Hosts \ {h} : host'[i] = host[i]
  BY <1>1, <1>2, <1>b DEF MasterTypes
<1>4. Last' = Last /\ Last \in Nat BY <1>1, <1>b, ReplicationAssumption DEF Last, MasterTypes
<1>5. \A i \in Hosts : host'[i].n = host[i].n /\ (host'[i].do # "idle" <=> host[i].do # "idle")
  BY <1>1, <1>2, <1>3
<1>6. MasterTypes'
  <2>1. current_sequence' \in Nat /\ current_sequence' <= Last
          BY <1>1, <1>4, <1>t, ReplicationAssumption
  <2> QED BY <1>1, <1>3, <1>4, <1>5, <1>b, <2>1 DEF MasterTypes
<1>7. SlaveTypes' BY <1>1, <1>b DEF SlaveTypes
<1>8. Careful' => CareTaken' BY <1>1, <1>4, <1>5, <1>b DEF Careful, CareTaken, Master
<1>9. Master' BY <1>1, <1>4, <1>6, <1>7, <1>8, <1>b DEF Master
<1>10. Sent' = Sent BY <1>4, <1>5 DEF Sent
<1>11. \A s \in Slaves : BacklogKept(s) /\ ServingKept(s)
  BY <1>1 DEF BacklogKept, ServingKept, Served, Synced
<1> QED BY <1>1, <1>9, <1>10, <1>11, QuietKept

(* compact, which a careful host does not call while a slave is served. *)
LEMMA CompactKept == ASSUME Inv, NEW n, Compact(n) PROVE Inv'
<1>b. Master /\ MasterTypes /\ SlaveTypes BY DEF Inv, Master
<1>1. /\ n \in min_sequence + 1 .. Last + 1 /\ (Careful => serving = Nobody /\ n <= Last)
      /\ min_sequence' = n
      /\ UNCHANGED <<discipline, role, own, log, current_sequence, host, backlog, serving, live,
                     gone, pc, inbox, sequence, replica, got, overwrote>>
  BY DEF Compact, nodeVars, joinVars, slaveVars
<1>2. Last' = Last /\ Sent' = Sent BY <1>1 DEF Last, Sent
<1>3. min_sequence' \in Nat /\ min_sequence' >= FirstSequence
  <2>1. /\ Last \in Nat /\ min_sequence \in Nat /\ min_sequence >= FirstSequence
        /\ FirstSequence \in Nat
    BY <1>b, ReplicationAssumption DEF Last, MasterTypes
  <2> QED BY <1>1, <2>1
<1>4. MasterTypes' BY <1>1, <1>2, <1>3, <1>b DEF MasterTypes
<1>5. SlaveTypes' BY <1>1, <1>b DEF SlaveTypes
<1>6. Careful' => CareTaken' BY <1>1, <1>2, <1>b DEF Careful, CareTaken, Master, Nobody
<1>7. Master' BY <1>1, <1>2, <1>4, <1>5, <1>6, <1>b DEF Master
<1>8. \A s \in Slaves : BacklogKept(s) /\ ServingKept(s)
  BY <1>1 DEF BacklogKept, ServingKept, Served, Synced
<1> QED BY <1>1, <1>2, <1>7, <1>8, QuietKept

-----------------------------------------------------------------------------
(* The listener *)

(* Everything but the listener's own records and the lists of slaves. *)
Untouched ==
  UNCHANGED <<discipline, own, log, min_sequence, docs, current_sequence, host,
              pc, inbox, sequence, got>>

LEMMA NobodyIsHandle == Nobody \in Handles /\ Nobody.from = 0 /\ Nobody.phase = "none"
BY DEF Nobody, Handles, Phases

(* The steps that end a service, or concern slaves that were added. *)
LEMMA ListKept ==
  ASSUME Inv, Untouched, UNCHANGED backlog, UNCHANGED serving \/ serving' = Nobody,
         \A s \in Slaves : s \in live' => s \in live \/ Synced(s)
  PROVE  Inv'
<1>b. Master /\ SlaveTypes BY DEF Inv, Master
<1>1. SlaveTypes' BY <1>b, NobodyIsHandle DEF SlaveTypes, Untouched
<1>2. Master' /\ Sent' = Sent
  <2>1. serving'.phase = "read" /\ Careful => serving'.from >= min_sequence
    BY <1>b, NobodyIsHandle DEF Master, CareTaken
  <2>2. serving'.phase = "scan" => serving'.header <= Last BY <1>b, NobodyIsHandle DEF Master
  <2> QED BY <1>1, <1>b, <2>1, <2>2, MasterKept DEF Untouched
<1>3. ASSUME NEW s \in Slaves PROVE BacklogKept(s) /\ ServingKept(s)
  <2>1. BacklogKept(s) BY DEF BacklogKept
  <2>2. CASE UNCHANGED serving BY <2>1, <2>2 DEF ServingKept, Served, Synced
  <2>3. CASE serving' = Nobody BY <2>1, <2>3, NobodyIsHandle DEF ServingKept, Served, Synced
  <2> QED BY <2>2, <2>3
<1> QED BY <1>2, <1>3, QuietKept DEF Untouched

LEMMA ListSteps ==
  ASSUME Inv, \/ add_slave \/ ServingFails \/ (\E n \in 1..gone : cleanup_disconnected(n))
              \/ \E s \in Slaves : remove_slave(s) \/ promote_to_master(s)
  PROVE  Inv'
<1> USE DEF nodeVars, masterVars, joinVars, slaveVars, Untouched
<1>1. CASE add_slave
  <2>1. \A s \in Slaves : s \in live' => s \in live \/ Synced(s) BY <1>1 DEF add_slave, Synced
  <2> QED BY <1>1, <2>1, ListKept DEF add_slave
<1>2. CASE ServingFails BY <1>2, ListKept DEF ServingFails
<1>3. CASE \E n \in 1..gone : cleanup_disconnected(n) BY <1>3, ListKept DEF cleanup_disconnected
<1>4. CASE \E s \in Slaves : remove_slave(s) BY <1>4, ListKept DEF remove_slave
<1>5. CASE \E s \in Slaves : promote_to_master(s) BY <1>5, ListKept DEF promote_to_master
<1> QED BY <1>1, <1>2, <1>3, <1>4, <1>5

(* The next connection is accepted. *)
LEMMA AcceptKept == ASSUME Inv, Accept PROVE Inv'
<1>b. Master /\ SlaveTypes BY DEF Inv, Master
<1> DEFINE c == backlog[1]
           r == [c EXCEPT !.phase = "decide"]
<1>1. backlog \in Seq(Handles) /\ backlog # << >> /\ Len(backlog) \in Nat /\ Len(backlog) >= 1
  BY <1>b DEF Accept, SlaveTypes
<1>2. c \in Handles BY <1>1
<1>3. /\ serving' = r /\ backlog' = Tail(backlog) /\ Untouched /\ UNCHANGED live
  BY <1>1 DEF Accept, nodeVars, masterVars, slaveVars, Untouched
<1> HIDE DEF c
<1>4. r \in Handles /\ r.phase = "decide" /\ r.slave = c.slave /\ r.from = c.from /\ r.gone = c.gone
  BY <1>2 DEF Handles, Phases
<1> HIDE DEF r
<1>5. /\ backlog' \in Seq(Handles) /\ Len(backlog') = Len(backlog) - 1
      /\ \A i \in 1..Len(backlog') : backlog'[i] = backlog[i + 1] /\ i + 1 \in 1..Len(backlog)
  BY <1>1, <1>3
<1>6. SlaveTypes' BY <1>3, <1>4, <1>5, <1>b DEF SlaveTypes, Untouched
<1>7. Master' /\ Sent' = Sent BY <1>3, <1>4, <1>6, <1>b, MasterKept DEF Untouched
<1>8. ASSUME NEW s \in Slaves PROVE BacklogKept(s) /\ ServingKept(s)
  <2>1. BacklogKept(s) BY <1>5 DEF BacklogKept
  <2>2. 1 \in 1..Len(backlog) BY <1>1
  <2>3. serving'.slave = s => backlog[1].slave = s /\ serving'.from = backlog[1].from
    BY <1>3, <1>4 DEF c
  <2>4. Served(s)' => Waits(s)
    <3>1. Served(s)' => backlog[1].slave = s /\ ~backlog[1].gone BY <1>3, <1>4 DEF Served, c
    <3> QED BY <2>2, <3>1 DEF Waits
  <2>5. ~Synced(s)' BY <1>3, <1>4 DEF Synced
  <2> QED BY <1>3, <2>1, <2>2, <2>3, <2>4, <2>5 DEF ServingKept
<1> QED BY <1>3, <1>7, <1>8, QuietKept DEF Untouched

(* A service goes on from one phase to the next. *)
LEMMA PhaseKept ==
  ASSUME Inv, Untouched, UNCHANGED <<backlog, live>>, NEW p \in Phases \ {"none"}, NEW n \in Nat,
         serving' = [serving EXCEPT !.phase = p, !.header = n], serving.phase # "none",
         p = "read" /\ Careful => serving.from >= min_sequence,
         p = "scan" => n <= Last,
         p \in {"ack", "add"} => serving.phase \in {"ack", "add"}
  PROVE  Inv'
<1>b. Master /\ SlaveTypes BY DEF Inv, Master
<1>1. serving \in Handles BY <1>b DEF SlaveTypes
<1>2. /\ serving' \in Handles /\ serving'.phase = p /\ serving'.header = n
      /\ serving'.slave = serving.slave /\ serving'.from = serving.from
      /\ serving'.gone = serving.gone
  BY <1>1 DEF Handles
<1>3. SlaveTypes' BY <1>2, <1>b DEF SlaveTypes, Untouched
<1>4. Master' /\ Sent' = Sent BY <1>2, <1>3, <1>b, MasterKept DEF Untouched
<1>5. \A s \in Slaves : BacklogKept(s) /\ ServingKept(s)
  BY <1>2 DEF BacklogKept, ServingKept, Served, Synced
<1> QED BY <1>4, <1>5, QuietKept DEF Untouched

(* A record that keeps its header. *)
LEMMA SameHeader ==
  ASSUME SlaveTypes, NEW p
  PROVE  [serving EXCEPT !.phase = p] = [serving EXCEPT !.phase = p, !.header = serving.header]
         /\ serving.header \in Nat
BY DEF SlaveTypes, Handles

LEMMA PhaseSteps == ASSUME Inv, Decide \/ ReadHeader \/ ReceiveAck PROVE Inv'
<1>b. Master /\ MasterTypes /\ SlaveTypes BY DEF Inv, Master
<1> USE DEF nodeVars, masterVars, joinVars, slaveVars, Untouched
<1>1. CASE Decide
  <2> DEFINE p == IF needs_full_sync(serving.from) THEN "header" ELSE "read"
  <2>1. /\ serving.phase = "decide" /\ serving' = [serving EXCEPT !.phase = p]
        /\ Untouched /\ UNCHANGED <<backlog, live>>
    BY <1>1 DEF Decide, Phase
  <2>2. p = "read" /\ Careful => serving.from >= min_sequence
    <3> SUFFICES ASSUME ~needs_full_sync(serving.from), Careful PROVE serving.from >= min_sequence
      OBVIOUS
    <3>1. min_sequence <= Last /\ min_sequence \in Nat /\ Last \in Nat /\ serving.from \in Nat
      BY <1>b, ReplicationAssumption DEF Master, CareTaken, MasterTypes, SlaveTypes, Handles, Last
    <3>2. available = min_sequence BY <3>1 DEF available
    <3> QED BY <3>1, <3>2 DEF needs_full_sync
  <2>3. p \in {"header", "read"} /\ p \in Phases \ {"none"} BY DEF Phases
  <2> HIDE DEF p
  <2>4. /\ serving' = [serving EXCEPT !.phase = p, !.header = serving.header]
        /\ serving.header \in Nat
    BY <1>b, <2>1, SameHeader
  <2> QED BY <2>1, <2>2, <2>3, <2>4, PhaseKept
<1>2. CASE ReadHeader
  <2>1. current_sequence \in Nat /\ current_sequence <= Last BY <1>b DEF MasterTypes
  <2>2. "scan" \in Phases \ {"none"} BY DEF Phases
  <2>3. /\ serving.phase = "header" /\ Untouched /\ UNCHANGED <<backlog, live>>
        /\ serving' = [serving EXCEPT !.phase = "scan", !.header = current_sequence]
    BY <1>2 DEF ReadHeader
  <2> QED BY <2>1, <2>2, <2>3, PhaseKept
<1>3. CASE ReceiveAck
  <2>1. "add" \in Phases \ {"none"} BY DEF Phases
  <2>2. /\ serving.phase = "ack" /\ Untouched /\ UNCHANGED <<backlog, live>>
        /\ serving' = [serving EXCEPT !.phase = "add", !.header = serving.header]
        /\ serving.header \in Nat
    BY <1>3, <1>b, SameHeader DEF ReceiveAck, Phase
  <2> QED BY <2>1, <2>2, PhaseKept
<1> QED BY <1>1, <1>2, <1>3

-----------------------------------------------------------------------------
(* Messages *)

(* A message comes last. *)
LEMMA Arrives ==
  ASSUME Boxes, NEW s \in Slaves, NEW m, inbox'[s] = Append(inbox[s], m), got'[s] = got[s]
  PROVE  /\ Len(inbox[s]) \in Nat /\ Len(inbox'[s]) = Len(inbox[s]) + 1
         /\ inbox'[s][Len(inbox[s]) + 1] = m
         /\ \A i \in 1..Len(inbox[s]) : inbox'[s][i] = inbox[s][i]
         /\ \A n : \A i \in 0..Len(inbox[s]) : Has(s, n, i) => Has(s, n, i)'
         /\ \A n : Has(s, n, Len(inbox[s])) \/ n \in Carries(m) => Has(s, n, Len(inbox[s]))'
<1>1. PICK T : inbox \in [Slaves -> Seq(T)] BY DEF Boxes
<1>2. inbox[s] \in Seq(T \cup {m})
  <2>1. inbox[s] \in Seq(T) BY <1>1
  <2> QED BY <2>1
<1>l. PICK L \in Nat : L = Len(inbox[s]) BY <1>2
<1>3. /\ L \in Nat /\ Len(inbox'[s]) = L + 1 /\ inbox'[s][L + 1] = m
      /\ \A i \in 1..L : inbox'[s][i] = inbox[s][i]
  <2>1. m \in T \cup {m} OBVIOUS
  <2> QED BY <1>2, <1>l, <2>1
<1>4. ASSUME NEW n, NEW i \in 0..L, Has(s, n, i) PROVE Has(s, n, i)'
  <2>1. \A j \in 1..i : j \in 1..L BY <1>3
  <2> QED BY <1>3, <1>4, <2>1 DEF Has, Carries
<1>5. ASSUME NEW n, Has(s, n, L) \/ n \in Carries(m) PROVE Has(s, n, L + 1)'
  <2>1. \A j \in 1..L : j \in 1..L + 1 BY <1>3
  <2>2. L + 1 \in 1..L + 1 BY <1>3
  <2> QED BY <1>3, <1>5, <2>1, <2>2 DEF Has, Carries
<1> QED BY <1>3, <1>4, <1>5, <1>l DEF Has

(* A slave that is sent a message which joins on to what it has goes on following. *)
LEMMA FollowsSent ==
  ASSUME Boxes, NEW s \in Slaves, NEW m, Follows(s), Fine(m), pc[s] # "down",
         UNCHANGED <<discipline, backlog>>,
         serving'.slave = serving.slave, serving'.from = serving.from,
         inbox'[s] = Append(inbox[s], m),
         pc'[s] = pc[s], sequence'[s] = sequence[s], got'[s] = got[s], own'[s] = own[s],
         Careful /\ own[s] = 0 =>
           /\ \A n \in Span(Claims(m)) : Has(s, n, Len(inbox[s])) \/ n \in Carries(m)
           /\ s \in live' \/ Synced(s)' =>
                \A n \in Span(Sent') : Has(s, n, Len(inbox[s])) \/ n \in Carries(m)
  PROVE  Follows(s)'
<1>l. PICK L \in Nat : L = Len(inbox[s]) BY Arrives
<1>1. /\ L \in Nat /\ Len(inbox'[s]) = L + 1 /\ inbox'[s][L + 1] = m
      /\ \A i \in 1..L : inbox'[s][i] = inbox[s][i]
      /\ \A n : \A i \in 0..L : Has(s, n, i) => Has(s, n, i)'
      /\ \A n : Has(s, n, L) \/ n \in Carries(m) => Has(s, n, L + 1)'
  <2>1. /\ Len(inbox'[s]) = L + 1 /\ inbox'[s][L + 1] = m
        /\ \A i \in 1..L : inbox'[s][i] = inbox[s][i]
        /\ \A n : \A i \in 0..L : Has(s, n, i) => Has(s, n, i)'
    BY <1>l, Arrives
  <2>2. \A n : Has(s, n, L) \/ n \in Carries(m) => Has(s, n, Len(inbox[s]))' BY <1>l, Arrives
  <2> QED BY <2>1, <2>2 DEF Has
<1>2. Cut(s)' BY DEF Cut
<1>3. \A i \in 1..Len(inbox'[s]) : i = L + 1 \/ i \in 1..L BY <1>1
<1>4. (\A i \in 1..Len(inbox[s]) : Fine(inbox[s][i]))'
  BY <1>1, <1>3, <1>l DEF Follows, Fine
<1>5. ASSUME Careful, own[s] = 0 PROVE Honest(s)' /\ Chained(s)' /\ UpToDate(s)'
  <2>1. Honest(s) /\ Chained(s) BY <1>5 DEF Follows
  <2>2. Honest(s)' BY <2>1 DEF Honest, Span
  <2>3. \A i \in 1..L : \A n \in Span(Claims(inbox[s][i])) : Has(s, n, i)'
          BY <1>1, <1>l, <2>1 DEF Chained
  <2>4. \A n \in Span(Claims(m)) : Has(s, n, L + 1)' BY <1>1, <1>5, <1>l
  <2>5. ASSUME NEW i \in 1..Len(inbox'[s]), NEW n \in Span(Claims(inbox'[s][i])) PROVE Has(s, n, i)'
    <3>1. CASE i = L + 1 BY <1>1, <2>4, <2>5, <3>1
    <3>2. CASE i \in 1..L BY <1>1, <2>3, <2>5, <3>2
    <3> QED BY <1>3, <3>1, <3>2
  <2>6. Chained(s)' BY <2>5 DEF Chained, Span, Claims
  <2>7. UpToDate(s)'
    <3> SUFFICES ASSUME s \in live' \/ Synced(s)', NEW n \in Span(Sent') PROVE Has(s, n, L + 1)'
      BY <1>1 DEF UpToDate, Span, Has
    <3> QED BY <1>1, <1>5, <1>l
  <2> QED BY <2>2, <2>6, <2>7
<1> QED BY <1>2, <1>4, <1>5 DEF Follows, Careful

(* The boxes stay boxes. *)
LEMMA BoxesSent ==
  ASSUME Boxes, NEW m, DOMAIN inbox' = Slaves, inbox' = [s \in Slaves |-> inbox'[s]],
         \A s \in Slaves : inbox'[s] = inbox[s] \/ inbox'[s] = Append(inbox[s], m)
  PROVE  Boxes'
<1>1. PICK T : inbox \in [Slaves -> Seq(T)] BY DEF Boxes
<1>2. ASSUME NEW s \in Slaves PROVE inbox'[s] \in Seq(T \cup {m})
  <2>1. inbox[s] \in Seq(T) BY <1>1
  <2>2. inbox[s] \in Seq(T \cup {m}) /\ m \in T \cup {m} BY <2>1
  <2>3. Append(inbox[s], m) \in Seq(T \cup {m}) BY <2>2
  <2> QED BY <2>2, <2>3
<1>3. inbox' \in [Slaves -> Seq(T \cup {m})] BY <1>2
<1> QED BY <1>3 DEF Boxes

(* Every slave with the manager gets the message. *)
LEMMA BroadcastKept ==
  ASSUME Inv, Master', NEW m, Fine(m), Broadcast(m), Unlocked,
         UNCHANGED <<discipline, own, backlog, serving, live, pc, sequence, got>>,
         Careful => \A s \in live \cap Slaves : own[s] = 0 =>
           /\ \A n \in Span(Claims(m)) : Has(s, n, Len(inbox[s])) \/ n \in Carries(m)
           /\ \A n \in Span(Sent') : Has(s, n, Len(inbox[s])) \/ n \in Carries(m)
  PROVE  Inv'
<1>1. /\ inbox' = [s \in Slaves |-> IF s \in live THEN Append(inbox[s], m) ELSE inbox[s]]
      /\ serving = Nobody
  BY DEF Broadcast, Unlocked
<1>2. Boxes'
  <2>1. \A s \in Slaves : inbox'[s] = inbox[s] \/ inbox'[s] = Append(inbox[s], m) BY <1>1
  <2>2. DOMAIN inbox' = Slaves /\ inbox' = [s \in Slaves |-> inbox'[s]] BY <1>1
  <2> QED BY <2>1, <2>2, BoxesSent DEF Inv
<1>3. ASSUME NEW s \in Slaves PROVE Follows(s)'
  <2>1. Follows(s) BY DEF Inv
  <2>2. ~Synced(s)' BY <1>1, NobodyIsHandle DEF Synced
  <2>3. CASE s \in live
    <3>1. inbox'[s] = Append(inbox[s], m) BY <1>1, <2>3
    <3>2. pc[s] # "down" BY <2>1, <2>3 DEF Follows, Cut
    <3>3. Boxes BY DEF Inv
    <3>4. pc'[s] = pc[s] /\ sequence'[s] = sequence[s] /\ got'[s] = got[s] /\ own'[s] = own[s]
          /\ serving'.slave = serving.slave /\ serving'.from = serving.from
      OBVIOUS
    <3>5. Careful /\ own[s] = 0 =>
            /\ \A n \in Span(Claims(m)) : Has(s, n, Len(inbox[s])) \/ n \in Carries(m)
            /\ s \in live' \/ Synced(s)' =>
                 \A n \in Span(Sent') : Has(s, n, Len(inbox[s])) \/ n \in Carries(m)
      BY <2>3
    <3> QED BY <2>1, <3>1, <3>2, <3>3, <3>4, <3>5, FollowsSent
  <2>4. CASE s \notin live
    <3>1. inbox'[s] = inbox[s] BY <1>1, <2>4
    <3>2. BacklogKept(s) BY DEF BacklogKept
    <3>3. ServingKept(s) BY DEF ServingKept, Served, Synced
    <3> QED BY <2>1, <2>2, <2>4, <3>1, <3>2, <3>3, FollowsKept
  <2> QED BY <2>3, <2>4
<1> QED BY <1>2, <1>3 DEF Inv

(* broadcast_wal_entry: of a careful host it is the newest entry. *)
LEMMA EntryKept == ASSUME Inv, NEW h \in Hosts, broadcast_wal_entry(h) PROVE Inv'
<1>b. Master /\ MasterTypes /\ SlaveTypes BY DEF Inv, Master
<1> DEFINE k == host[h].n
           e == Logged(k)
           m == Incremental(<<e>>)
<1>1. /\ host[h].do = "broadcast" /\ Unlocked /\ Broadcast(m)
      /\ host' = [host EXCEPT ![h] = Resting]
      /\ UNCHANGED <<discipline, own, log, min_sequence, current_sequence, backlog, serving, live,
                     pc, sequence, got>>
  BY DEF broadcast_wal_entry, nodeVars, joinVars
<1>t. log \in Seq(Entries) /\ Len(log) \in Nat /\ FirstSequence \in Nat /\ k \in FirstSequence..Last
      /\ Last = FirstSequence + Len(log) - 1
  BY <1>1, <1>b, ReplicationAssumption DEF MasterTypes, Last
<1>2. e \in Entries /\ e.sequence = k
  <2> HIDE DEF k
  <2>1. k - FirstSequence + 1 \in 1..Len(log) BY <1>t
  <2>2. log[k - FirstSequence + 1] \in Entries BY <1>t, <2>1
  <2>3. log[k - FirstSequence + 1].sequence = FirstSequence + (k - FirstSequence + 1) - 1
    BY <1>b, <2>1 DEF MasterTypes
  <2> QED BY <1>t, <2>2, <2>3 DEF Logged
<1> HIDE DEF e, k
<1>3. Fine(m) /\ Claims(m) = k /\ Carries(m) = {k}
  <2>1. m.type = "incremental" /\ m.entries = <<e>> BY DEF Incremental
  <2>2. <<e>> \in Seq(Entries) /\ Len(<<e>>) = 1 /\ <<e>>[1] = e /\ <<e>> # << >> BY <1>2
  <2>3. last_sequence(<<e>>) = k BY <1>2, <2>2 DEF last_sequence
  <2>4. Numbers(<<e>>) = {k} BY <1>2, <2>2 DEF Numbers
  <2> HIDE DEF m
  <2> QED BY <2>1, <2>2, <2>3, <2>4 DEF Fine, Claims, Carries
<1> HIDE DEF m
<1>4. /\ host' \in [Hosts -> [do : {"idle", "update", "broadcast"}, n : Nat]]
      /\ host'[h].do = "idle" /\ \A i \in Hosts \ {h} : host'[i] = host[i]
  BY <1>1, <1>b DEF MasterTypes, Resting
<1>5. Last' = Last BY <1>1 DEF Last
<1>6. \A i \in Hosts : host'[i].do # "idle" => host[i].do # "idle" /\ host'[i].n = host[i].n BY <1>4
<1>7. Master'
  <2>1. MasterTypes' BY <1>1, <1>4, <1>5, <1>6, <1>b DEF MasterTypes
  <2>2. SlaveTypes' BY <1>1, <1>b DEF SlaveTypes
  <2>3. Careful' => CareTaken' BY <1>1, <1>5, <1>6, <1>b DEF Careful, CareTaken, Master
  <2> QED BY <1>1, <1>5, <1>b, <2>1, <2>2, <2>3 DEF Master
<1>8. ASSUME Careful, NEW s \in live \cap Slaves, own[s] = 0
      PROVE  /\ \A n \in Span(Claims(m)) : Has(s, n, Len(inbox[s])) \/ n \in Carries(m)
             /\ \A n \in Span(Sent') : Has(s, n, Len(inbox[s])) \/ n \in Carries(m)
  <2>1. k = Last /\ \A i \in Hosts : host'[i].do = "idle"
    BY <1>1, <1>4, <1>8, <1>b DEF Master, CareTaken, k
  <2>2. Sent' = Last BY <1>5, <2>1 DEF Sent
  <2>3. Sent = Last - 1 BY <1>1 DEF Sent
  <2>4. \A n \in Span(Last - 1) : Has(s, n, Len(inbox[s]))
    BY <1>8, <2>3 DEF Inv, Follows, UpToDate
  <2>5. Last \in Int BY <1>t
  <2>6. \A n \in Span(Last) : n = Last \/ n \in Span(Last - 1) BY <1>t, <2>5 DEF Span
  <2> QED BY <1>3, <2>1, <2>2, <2>4, <2>6
<1> QED BY <1>1, <1>3, <1>7, <1>8, BroadcastKept

(* force_sync *)
LEMMA ForceKept == ASSUME Inv, force_sync PROVE Inv'
<1>b. Master /\ SlaveTypes BY DEF Inv, Master
<1>1. /\ Unlocked /\ Broadcast(Heartbeat)
      /\ UNCHANGED <<discipline, own, log, min_sequence, current_sequence, host, backlog, serving,
                     live, pc, sequence, got>>
  BY DEF force_sync, nodeVars, masterVars, joinVars
<1>2. Fine(Heartbeat) /\ Claims(Heartbeat) = 0 BY DEF Fine, Claims, Heartbeat
<1>3. SlaveTypes' BY <1>1, <1>b DEF SlaveTypes
<1>4. Master' /\ Sent' = Sent BY <1>1, <1>3, <1>b, MasterKept DEF Master, CareTaken
<1>5. Careful => \A s \in live \cap Slaves : own[s] = 0 =>
        \A n \in Span(Sent') : Has(s, n, Len(inbox[s]))
  BY <1>4 DEF Inv, Follows, UpToDate
<1> QED BY <1>1, <1>2, <1>4, <1>5, SpanZero, BroadcastKept

-----------------------------------------------------------------------------
(* The slave that is served gets the message, unless it is gone. *)
LEMMA SendKept ==
  ASSUME Inv, NEW m, Fine(m), Send(m), NEW p \in {"ack", "add"},
         serving.phase # "none", serving' = [serving EXCEPT !.phase = p],
         UNCHANGED <<discipline, own, log, min_sequence, current_sequence, host, backlog, live,
                     pc, sequence, got>>,
         \A s \in Slaves : Careful /\ own[s] = 0 /\ serving.slave = s =>
           /\ \A n \in Span(Claims(m)) : n \in got[s] \/ n \in Carries(m)
           /\ \A n \in Span(Last) : n \in got[s] \/ n \in Carries(m)
  PROVE  Inv'
<1>b. Master /\ MasterTypes /\ SlaveTypes /\ Boxes BY DEF Inv, Master
<1>1. serving \in Handles BY <1>b DEF SlaveTypes
<1>2. /\ serving' \in Handles /\ serving'.phase = p /\ serving'.slave = serving.slave
      /\ serving'.from = serving.from /\ serving'.gone = serving.gone
  BY <1>1 DEF Handles, Phases
<1>3. SlaveTypes' BY <1>2, <1>b DEF SlaveTypes
<1>4. Master' /\ Sent' = Sent BY <1>2, <1>3, <1>b, MasterKept
<1>5. Last \in Int /\ Sent \in Int /\ Sent <= Last
  BY <1>b, ReplicationAssumption DEF MasterTypes, Last, Sent
<1>6. \A n \in Span(Sent) : n \in Span(Last) BY <1>5, ReplicationAssumption DEF Span
<1>7. PICK T : inbox \in [Slaves -> Seq(T)] BY <1>b DEF Boxes
<1>8. /\ DOMAIN inbox' = Slaves /\ inbox' = [s \in Slaves |-> inbox'[s]]
      /\ \A s \in Slaves : inbox'[s] = IF s = serving.slave /\ ~serving.gone
                                       THEN Append(inbox[s], m) ELSE inbox[s]
  BY <1>7 DEF Send
<1>9. Boxes' BY <1>8, <1>b, BoxesSent
<1>10. ASSUME NEW s \in Slaves PROVE Follows(s)'
  <2>1. Follows(s) BY DEF Inv
  <2>2. CASE s = serving.slave /\ ~serving.gone
    <3>1. pc[s] # "down" BY <2>1, <2>2 DEF Follows, Cut, Served
    <3>2. inbox'[s] = Append(inbox[s], m) BY <1>8, <2>2
    <3>3. Careful /\ own[s] = 0 =>
            /\ \A n \in Span(Claims(m)) : Has(s, n, Len(inbox[s])) \/ n \in Carries(m)
            /\ \A n \in Span(Sent') : Has(s, n, Len(inbox[s])) \/ n \in Carries(m)
      BY <1>4, <1>6, <2>2 DEF Has
    <3> QED BY <1>2, <1>b, <2>1, <3>1, <3>2, <3>3, FollowsSent
  <2>3. CASE ~(s = serving.slave /\ ~serving.gone)
    <3>1. inbox'[s] = inbox[s] BY <1>8, <2>3
    <3>2. BacklogKept(s) BY DEF BacklogKept
    <3>3. ServingKept(s) BY <1>2, <2>3 DEF ServingKept, Served, Synced
    <3> QED BY <1>4, <2>1, <3>1, <3>2, <3>3, FollowsKept
  <2> QED BY <2>2, <2>3
<1> QED BY <1>4, <1>9, <1>10 DEF Inv

(* perform_full_sync: the documents have everything, the header may be older. *)
LEMMA FullKept == ASSUME Inv, perform_full_sync PROVE Inv'
<1>b. Master /\ MasterTypes /\ SlaveTypes BY DEF Inv, Master
<1> DEFINE m == Full(serving.header, docs)
<1>1. /\ serving.phase = "scan" /\ serving' = [serving EXCEPT !.phase = "ack"] /\ Send(m)
      /\ UNCHANGED <<discipline, own, log, min_sequence, current_sequence, host, backlog, live,
                     pc, sequence, got>>
  BY DEF perform_full_sync, Phase, nodeVars, masterVars
<1>2. serving.header \in Nat /\ serving.header <= Last /\ Last \in Int
  BY <1>1, <1>b, ReplicationAssumption DEF Master, SlaveTypes, Handles, MasterTypes, Last
<1>3. m.type = "full" /\ m.header = serving.header /\ m.newest = Last BY DEF Full
<1> HIDE DEF m
<1>4. Fine(m) /\ Claims(m) = serving.header /\ Carries(m) = FirstSequence..Last
  BY <1>2, <1>3 DEF Fine, Claims, Carries
<1>5. \A n \in Span(serving.header) : n \in FirstSequence..Last
  BY <1>2, ReplicationAssumption DEF Span
<1>6. \A n \in Span(Last) : n \in FirstSequence..Last BY DEF Span
<1> QED BY <1>1, <1>4, <1>5, <1>6, SendKept

(* What is read from the log is a stretch of it; from a number that compaction has left, it *)
(* has every entry behind that number.                                                      *)
LEMMA StretchOf ==
  ASSUME MasterTypes, NEW from \in Nat, NEW to \in FirstSequence..Last
  PROVE  /\ get_wal_entries_since(from, to) \in Seq(Entries)
         /\ from >= min_sequence =>
              LET es == get_wal_entries_since(from, to)
              IN  /\ es = << >> => from >= to
                  /\ es # << >> => last_sequence(es) = to /\ from + Len(es) = to
                  /\ \A n \in from + 1..to : n \in Numbers(es)
                  /\ \A i \in 1..Len(es) : es[i] = Logged(from + i)
<1> DEFINE first == IF from < min_sequence THEN min_sequence ELSE from + 1
           a == first - FirstSequence + 1
           b == to - FirstSequence + 1
           es == SubSeq(log, a, b)
<1>1. get_wal_entries_since(from, to) = es BY DEF get_wal_entries_since, Stretch
<1>2. /\ first \in Nat /\ first >= FirstSequence /\ to \in Nat /\ FirstSequence \in Nat
      /\ log \in Seq(Entries) /\ Len(log) \in Nat /\ to <= FirstSequence + Len(log) - 1
      /\ from >= min_sequence => first = from + 1
  <2>1. min_sequence \in Nat /\ min_sequence >= FirstSequence /\ FirstSequence \in Nat
        /\ log \in Seq(Entries) /\ Len(log) \in Nat
    BY ReplicationAssumption DEF MasterTypes
  <2> QED BY <2>1 DEF Last
<1> HIDE DEF first
<1>3. a \in Int /\ b \in Int /\ a >= 1 /\ b <= Len(log) /\ b - a + 1 = to - first + 1 BY <1>2
<1>4. \A i \in a..b : log[i] \in Entries /\ log[i].sequence = FirstSequence + i - 1
  <2>1. \A i \in a..b : i \in 1..Len(log) BY <1>2, <1>3
  <2> QED BY <1>2, <2>1 DEF MasterTypes
<1>5. /\ es \in Seq(Entries) /\ Len(es) = IF a <= b THEN b - a + 1 ELSE 0
      /\ \A i \in 1..b - a + 1 : es[i] = log[a + i - 1]
  <2> HIDE DEF a, b
  <2> QED BY <1>3, <1>4, SubSeqProperties
<1>6. \A i \in 1..b - a + 1 : es[i].sequence = first + i - 1
  <2> SUFFICES ASSUME NEW i \in 1..b - a + 1 PROVE es[i].sequence = first + i - 1 OBVIOUS
  <2>1. a + i - 1 \in a..b BY <1>3
  <2>2. es[i].sequence = FirstSequence + (a + i - 1) - 1 BY <1>4, <1>5, <2>1
  <2> QED BY <1>2, <2>2
<1>7. (a <= b <=> first <= to) /\ (first <= to => Len(es) = to - first + 1)
      /\ (first > to => Len(es) = 0)
  <2> HIDE DEF es
  <2> QED BY <1>2, <1>3, <1>5
<1> HIDE DEF es
<1>8. es = << >> <=> Len(es) = 0 BY <1>5
<1>9. ASSUME from >= min_sequence PROVE es = << >> => from >= to
  <2>1. first = from + 1 BY <1>2, <1>9
  <2> QED BY <1>2, <1>7, <1>8, <2>1
<1>10. ASSUME es # << >> PROVE last_sequence(es) = to
  <2>1. first <= to BY <1>2, <1>7, <1>8, <1>10
  <2>2. Len(es) = to - first + 1 /\ Len(es) \in 1..b - a + 1 BY <1>2, <1>3, <1>7, <2>1
  <2>3. es[Len(es)].sequence = first + (to - first + 1) - 1 BY <1>6, <2>2
  <2> QED BY <1>2, <2>3 DEF last_sequence
<1>11. ASSUME from >= min_sequence, NEW n \in from + 1..to PROVE n \in Numbers(es)
  <2>1. first = from + 1 BY <1>2, <1>11
  <2>2. first <= to /\ n - first + 1 \in 1..b - a + 1 BY <1>2, <1>3, <2>1
  <2>3. n - first + 1 \in 1..Len(es) BY <1>2, <1>7, <2>1, <2>2
  <2>4. es[n - first + 1].sequence = first + (n - first + 1) - 1 BY <1>6, <2>2
  <2>5. es[n - first + 1].sequence = n BY <1>2, <2>4
  <2> QED BY <2>3, <2>5 DEF Numbers
<1>12. ASSUME from >= min_sequence, es # << >> PROVE from + Len(es) = to
  <2>1. first <= to BY <1>2, <1>7, <1>8, <1>12
  <2> QED BY <1>2, <1>7, <1>12, <2>1
<1>13. ASSUME from >= min_sequence, NEW i \in 1..Len(es) PROVE es[i] = Logged(from + i)
  <2>1. first = from + 1 BY <1>2, <1>13
  <2>2. first <= to BY <1>2, <1>7, <1>13
  <2>3. i \in 1..b - a + 1 /\ a + i - 1 = (from + i) - FirstSequence + 1
    BY <1>2, <1>3, <1>7, <1>13, <2>1, <2>2
  <2> QED BY <1>5, <2>3 DEF Logged
<1> QED BY <1>1, <1>5, <1>9, <1>10, <1>11, <1>12, <1>13

(* perform_incremental_sync *)
LEMMA IncrementalKept ==
  ASSUME Inv, NEW flushed \in FirstSequence..Last, perform_incremental_sync(flushed)
  PROVE  Inv'
<1>b. Master /\ MasterTypes /\ SlaveTypes BY DEF Inv, Master
<1> DEFINE from == serving.from
           es == get_wal_entries_since(from, flushed)
           m == Incremental(es)
<1>1. /\ serving.phase = "read" /\ (Careful => flushed = Last)
      /\ serving' = [serving EXCEPT !.phase = IF es = << >> THEN "add" ELSE "ack"]
      /\ IF es = << >> THEN UNCHANGED inbox ELSE Send(m)
      /\ UNCHANGED <<discipline, own, log, min_sequence, docs, current_sequence, host,
                     backlog, live,
                     pc, sequence, got>>
  BY DEF perform_incremental_sync, Phase, nodeVars, masterVars
<1>2. from \in Nat /\ Last \in Int /\ FirstSequence \in Nat /\ serving \in Handles
  BY <1>b, ReplicationAssumption DEF SlaveTypes, Handles, MasterTypes, Last
<1>3. es \in Seq(Entries) BY <1>2, <1>b, StretchOf
<1>4. Careful => /\ es = << >> => from >= Last
                 /\ es # << >> => last_sequence(es) = Last
                 /\ \A n \in from + 1..Last : n \in Numbers(es)
  <2>1. Careful => from >= min_sequence BY <1>1, <1>b DEF Master, CareTaken
  <2> QED BY <1>1, <1>2, <1>b, <2>1, StretchOf
<1>5. \A s \in Slaves : Careful /\ own[s] = 0 /\ serving.slave = s => Span(from) \subseteq got[s]
  BY DEF Inv, Follows, Honest
<1> HIDE DEF es, from
<1>6. \A n \in Span(Last) : n \in Span(from) \/ n \in from + 1..Last BY <1>2 DEF Span
<1>7. CASE es # << >>
  <2>1. m.type = "incremental" /\ m.entries = es BY DEF Incremental
  <2> HIDE DEF m
  <2>2. Fine(m) /\ Claims(m) = last_sequence(es) /\ Carries(m) = Numbers(es)
    BY <1>3, <1>7, <2>1 DEF Fine, Claims, Carries
  <2>3. \A s \in Slaves : Careful /\ own[s] = 0 /\ serving.slave = s =>
          \A n \in Span(Last) : n \in got[s] \/ n \in Carries(m)
    BY <1>4, <1>5, <1>6, <2>2
  <2>4. Careful => Claims(m) = Last BY <1>4, <1>7, <2>2
  <2>5. Send(m) /\ serving' = [serving EXCEPT !.phase = "ack"] BY <1>1, <1>7
  <2> QED BY <1>1, <2>2, <2>3, <2>4, <2>5, SendKept
<1>8. CASE es = << >>
  <2>1. serving' = [serving EXCEPT !.phase = "add"] /\ UNCHANGED inbox BY <1>1, <1>8
  <2>2. /\ serving' \in Handles /\ serving'.phase = "add" /\ serving'.slave = serving.slave
        /\ serving'.from = serving.from /\ serving'.gone = serving.gone
    BY <1>2, <2>1 DEF Handles, Phases
  <2>3. SlaveTypes' BY <1>1, <1>b, <2>2 DEF SlaveTypes
  <2>4. Master' /\ Sent' = Sent BY <1>1, <1>b, <2>2, <2>3, MasterKept
  <2>5. Sent \in Int /\ Sent <= Last BY <1>2 DEF Sent
  <2>6. Careful => \A n \in Span(Sent) : n \in Span(from) BY <1>2, <1>4, <1>8, <2>5 DEF Span
  <2>7. ASSUME NEW s \in Slaves PROVE Follows(s)'
    <3>1. Follows(s) BY DEF Inv
    <3>2. Cut(s)' BY <1>1, <2>1, <2>2, <3>1 DEF Follows, Cut, Served
    <3>3. (\A i \in 1..Len(inbox[s]) : Fine(inbox[s][i]))' BY <2>1, <3>1 DEF Follows, Fine
    <3>4. ASSUME Careful, own[s] = 0 PROVE Honest(s)' /\ Chained(s)' /\ UpToDate(s)'
      <4>1. Honest(s) /\ Chained(s) /\ UpToDate(s) BY <3>1, <3>4 DEF Follows
      <4>2. Honest(s)' BY <1>1, <2>2, <4>1 DEF Honest, Span
      <4>3. \A n, i : Has(s, n, i)' <=> Has(s, n, i) BY <1>1, <2>1 DEF Has
      <4>4. Chained(s)' BY <2>1, <4>1, <4>3 DEF Chained, Span
      <4>5. serving.slave = s => \A n \in Span(Sent) : Has(s, n, Len(inbox[s]))
        BY <1>5, <2>6, <3>4 DEF Has
      <4>6. s \in live' \/ Synced(s)' => s \in live \/ serving.slave = s BY <1>1, <2>2 DEF Synced
      <4>7. s \in live' \/ Synced(s)' => \A n \in Span(Sent) : Has(s, n, Len(inbox[s]))
        BY <4>1, <4>5, <4>6 DEF UpToDate
      <4>8. UpToDate(s)' BY <1>1, <2>1, <2>4, <4>7 DEF UpToDate, Span, Has
      <4> QED BY <4>2, <4>4, <4>8
    <3> QED BY <1>1, <3>2, <3>3, <3>4 DEF Follows, Careful
  <2>8. Boxes' BY <2>1 DEF Inv, Boxes
  <2> QED BY <2>4, <2>7, <2>8 DEF Inv
<1> QED BY <1>7, <1>8

-----------------------------------------------------------------------------
(* The slaves *)

(* A step of one slave that keeps the list and the requests of the others. *)
LEMMA OthersKept ==
  ASSUME Inv, NEW s \in Slaves, NEW t \in Slaves, t # s, Sent' = Sent, UNCHANGED discipline,
         BacklogKept(t), t \in live' => t \in live,
         serving'.slave = t =>
           /\ serving.slave = t /\ serving'.from = serving.from
           /\ serving'.phase = serving.phase /\ serving'.gone = serving.gone,
         pc'[t] = pc[t], inbox'[t] = inbox[t], sequence'[t] = sequence[t], got'[t] = got[t],
         own'[t] = own[t]
  PROVE  Follows(t)'
<1>1. Follows(t) BY DEF Inv
<1>2. ServingKept(t) BY DEF ServingKept, Served, Synced
<1> QED BY <1>1, <1>2, FollowsKept

(* The first message is taken. *)
LEMMA Takes ==
  ASSUME Boxes, NEW s \in Slaves, inbox[s] # << >>, inbox'[s] = Tail(inbox[s]),
         got'[s] = got[s] \cup Carries(inbox[s][1])
  PROVE  /\ Len(inbox'[s]) \in Nat /\ Len(inbox[s]) = Len(inbox'[s]) + 1
         /\ \A i \in 1..Len(inbox'[s]) : inbox'[s][i] = inbox[s][i + 1]
         /\ \A n : \A i \in 0..Len(inbox'[s]) : Has(s, n, i + 1) => Has(s, n, i)'
<1>1. PICK T : inbox \in [Slaves -> Seq(T)] BY DEF Boxes
<1>2. inbox[s] \in Seq(T) BY <1>1
<1>3. /\ Len(inbox'[s]) \in Nat /\ Len(inbox[s]) = Len(inbox'[s]) + 1
      /\ \A i \in 1..Len(inbox'[s]) : inbox'[s][i] = inbox[s][i + 1]
  BY <1>2
<1>4. ASSUME NEW n, NEW i \in 0..Len(inbox'[s]), Has(s, n, i + 1) PROVE Has(s, n, i)'
  <2>1. CASE n \in got[s] BY <2>1 DEF Has
  <2>2. CASE \E j \in 1..i + 1 : n \in Carries(inbox[s][j])
    <3>1. PICK j \in 1..i + 1 : n \in Carries(inbox[s][j]) BY <2>2
    <3>2. CASE j = 1 BY <3>1, <3>2 DEF Has
    <3>3. CASE j # 1
      <4>1. j - 1 \in 1..i /\ j - 1 \in 1..Len(inbox'[s]) /\ (j - 1) + 1 = j BY <1>3, <3>3
      <4>2. inbox'[s][j - 1] = inbox[s][(j - 1) + 1] BY <1>3, <4>1
      <4>3. n \in Carries(inbox'[s][j - 1]) BY <3>1, <4>1, <4>2
      <4> QED BY <4>1, <4>3 DEF Has, Carries
    <3> QED BY <3>2, <3>3
  <2> QED BY <1>4, <2>1, <2>2 DEF Has
<1> QED BY <1>3, <1>4

(* A slave that takes a message, and no more than it brings, goes on following. *)
LEMMA FollowsTaken ==
  ASSUME Boxes, NEW s \in Slaves, Follows(s), inbox[s] # << >>, inbox'[s] = Tail(inbox[s]),
         got'[s] = got[s] \cup Carries(inbox[s][1]), pc'[s] # "down", own'[s] = own[s],
         UNCHANGED <<discipline, backlog, live>>, Sent' = Sent,
         serving'.slave = serving.slave, serving'.from = serving.from,
         serving'.phase = serving.phase, serving'.gone = serving.gone,
         sequence'[s] = sequence[s] \/ sequence'[s] = Claims(inbox[s][1])
  PROVE  Follows(s)'
<1>l. PICK L \in Nat : L = Len(inbox'[s]) /\ Len(inbox[s]) = L + 1 BY Takes
<1>1. /\ \A i \in 1..L : inbox'[s][i] = inbox[s][i + 1]
      /\ \A n : \A i \in 0..L : Has(s, n, i + 1) => Has(s, n, i)'
  BY <1>l, Takes
<1>2. Cut(s)' BY DEF Cut
<1>3. \A i \in 1..L : i \in 0..L /\ i + 1 \in 1..L + 1 BY <1>l
<1>4. (\A i \in 1..Len(inbox[s]) : Fine(inbox[s][i]))' BY <1>1, <1>3, <1>l DEF Follows, Fine
<1>5. ASSUME Careful, own[s] = 0 PROVE Honest(s)' /\ Chained(s)' /\ UpToDate(s)'
  <2>1. Honest(s) /\ Chained(s) /\ UpToDate(s) BY <1>5 DEF Follows
  <2>2. Span(Claims(inbox[s][1])) \subseteq got'[s]
    <3>1. 1 \in 1..L + 1 BY <1>l
    <3>2. \A n \in Span(Claims(inbox[s][1])) : Has(s, n, 1) BY <1>l, <2>1, <3>1 DEF Chained
    <3>3. \A j \in 1..1 : j = 1 OBVIOUS
    <3> QED BY <3>2, <3>3 DEF Has
  <2>3. Honest(s)' BY <2>1, <2>2 DEF Honest, Span
  <2>4. Chained(s)'
    <3>1. \A i \in 1..L : \A n \in Span(Claims(inbox'[s][i])) : Has(s, n, i)'
      BY <1>1, <1>3, <1>l, <2>1 DEF Chained
    <3> QED BY <1>l, <3>1 DEF Chained, Span, Claims
  <2>5. UpToDate(s)'
    <3> SUFFICES ASSUME s \in live' \/ Synced(s)', NEW n \in Span(Sent) PROVE Has(s, n, L)'
      BY <1>l DEF UpToDate, Span, Has
    <3>1. s \in live \/ Synced(s) BY DEF Synced
    <3>2. Has(s, n, L + 1) BY <1>l, <2>1, <3>1 DEF UpToDate
    <3>3. L \in 0..L BY <1>l
    <3> QED BY <1>1, <3>2, <3>3
  <2> QED BY <2>3, <2>4, <2>5
<1> QED BY <1>2, <1>4, <1>5 DEF Follows, Careful

(* The same for all slaves, one of which takes a message. *)
LEMMA TakeKept ==
  ASSUME Inv, NEW s \in Slaves, inbox[s] # << >>, inbox' = [inbox EXCEPT ![s] = Tail(@)],
         NEW X, X \subseteq Int, got' = [got EXCEPT ![s] = @ \cup X], X = Carries(inbox[s][1]),
         NEW q \in Nat, sequence' = [sequence EXCEPT ![s] = q],
         q = sequence[s] \/ q = Claims(inbox[s][1]),
         pc' = [pc EXCEPT ![s] = "stream"],
         UNCHANGED <<discipline, own, log, min_sequence, current_sequence, host, backlog, live>>,
         UNCHANGED serving \/ Acknowledge(s)
  PROVE  Inv'
<1>b. Master /\ SlaveTypes /\ Boxes BY DEF Inv, Master
<1>1. serving \in Handles /\ got \in [Slaves -> SUBSET Int] /\ sequence \in [Slaves -> Nat]
      /\ pc \in [Slaves -> {"down", "sync", "stream"}]
  BY <1>b DEF SlaveTypes
<1>2. /\ serving' \in Handles /\ serving'.slave = serving.slave /\ serving'.from = serving.from
      /\ serving'.phase = serving.phase /\ serving'.gone = serving.gone
      /\ serving'.header = serving.header
  BY <1>1 DEF Acknowledge, Handles
<1>3. got' \in [Slaves -> SUBSET Int] BY <1>1
<1>4. SlaveTypes' BY <1>1, <1>2, <1>3, <1>b DEF SlaveTypes
<1>5. Master' /\ Sent' = Sent BY <1>2, <1>4, <1>b, MasterKept DEF Master, CareTaken
<1>6. PICK T : inbox \in [Slaves -> Seq(T)] BY <1>b DEF Boxes
<1>7. Boxes'
  <2>1. inbox[s] \in Seq(T) BY <1>6
  <2>2. Tail(inbox[s]) \in Seq(T) BY <2>1
  <2>3. inbox' \in [Slaves -> Seq(T)] BY <1>6, <2>2
  <2> QED BY <2>3 DEF Boxes
<1>8. ASSUME NEW t \in Slaves PROVE Follows(t)'
  <2>1. CASE t = s
    <3>1. /\ inbox'[s] = Tail(inbox[s]) /\ got'[s] = got[s] \cup Carries(inbox[s][1])
          /\ sequence'[s] = q /\ pc'[s] = "stream" /\ own'[s] = own[s] /\ Follows(s)
      BY <1>1, <1>6 DEF Inv
    <3> QED BY <1>2, <1>5, <1>b, <2>1, <3>1, FollowsTaken
  <2>2. CASE t # s
    <3>1. /\ inbox'[t] = inbox[t] /\ got'[t] = got[t] /\ sequence'[t] = sequence[t]
          /\ pc'[t] = pc[t] /\ own'[t] = own[t]
      BY <1>1, <1>6, <2>2
    <3>2. BacklogKept(t) BY DEF BacklogKept
    <3> QED BY <1>2, <1>5, <2>2, <3>1, <3>2, OthersKept
  <2> QED BY <2>1, <2>2
<1> QED BY <1>5, <1>7, <1>8 DEF Inv

(* The steps of a slave that read its connection. *)
LEMMA ReadSteps ==
  ASSUME Inv, NEW s \in Slaves, apply_incremental_sync(s) \/ apply_full_sync(s) \/ PassHeartbeat(s)
  PROVE  Inv'
<1>b. Master /\ SlaveTypes /\ Boxes /\ Follows(s) BY DEF Inv, Master
<1> USE DEF nodeVars, masterVars, joinVars
<1>1. PICK T : inbox \in [Slaves -> Seq(T)] BY <1>b DEF Boxes
<1>2. inbox[s] # << >> BY DEF apply_incremental_sync, apply_full_sync, PassHeartbeat
<1>3. inbox[s] \in Seq(T) /\ Head(inbox[s]) = inbox[s][1] /\ 1 \in 1..Len(inbox[s])
  <2>1. inbox[s] \in Seq(T) BY <1>1
  <2> QED BY <1>2, <2>1
<1>4. PICK m : m = inbox[s][1] OBVIOUS
<1>5. Fine(m) BY <1>3, <1>4, <1>b DEF Follows
<1>6. /\ sequence[s] \in Nat /\ sequence \in [Slaves -> Nat]
      /\ pc \in [Slaves -> {"down", "sync", "stream"}]
      /\ got \in [Slaves -> SUBSET Int]
  BY <1>b DEF SlaveTypes
<1>7. CASE apply_incremental_sync(s)
  <2>1. /\ m.type = "incremental" /\ got' = [got EXCEPT ![s] = @ \cup Numbers(m.entries)]
        /\ sequence' = [sequence EXCEPT ![s] = IF last_sequence(m.entries) > 0
                                               THEN last_sequence(m.entries) ELSE sequence[s]]
        /\ pc' = [pc EXCEPT ![s] = "stream"] /\ inbox' = [inbox EXCEPT ![s] = Tail(@)]
        /\ Acknowledge(s)
        /\ UNCHANGED <<discipline, own, log, min_sequence, current_sequence, host, backlog, live>>
    BY <1>3, <1>4, <1>6, <1>7 DEF apply_incremental_sync
  <2>2. m.entries \in Seq(Entries) /\ m.entries # << >> BY <1>5, <2>1 DEF Fine
  <2>3. Len(m.entries) \in 1..Len(m.entries) BY <2>2
  <2>e. \A i \in 1..Len(m.entries) : m.entries[i].sequence \in Nat
    <3> SUFFICES ASSUME NEW i \in 1..Len(m.entries) PROVE m.entries[i].sequence \in Nat OBVIOUS
    <3>1. m.entries[i] \in Entries BY <2>2
    <3> QED BY <3>1 DEF Entries
  <2>4. last_sequence(m.entries) \in Nat BY <2>3, <2>e DEF last_sequence
  <2>5. Numbers(m.entries) \subseteq Int BY <2>e DEF Numbers
  <2>6. Carries(m) = Numbers(m.entries) /\ Claims(m) = last_sequence(m.entries)
    BY <2>1 DEF Carries, Claims
  <2>7. PICK q : q = IF last_sequence(m.entries) > 0 THEN last_sequence(m.entries) ELSE sequence[s]
    OBVIOUS
  <2>8. q \in Nat /\ (q = sequence[s] \/ q = Claims(inbox[s][1])) BY <1>4, <1>6, <2>4, <2>6, <2>7
  <2>9. sequence' = [sequence EXCEPT ![s] = q] BY <2>1, <2>7
  <2>10. PICK X : X = Numbers(m.entries) OBVIOUS
  <2>11. X \subseteq Int /\ X = Carries(inbox[s][1]) /\ got' = [got EXCEPT ![s] = @ \cup X]
    BY <1>4, <2>1, <2>5, <2>6, <2>10
  <2> QED BY <1>2, <2>1, <2>8, <2>9, <2>11, TakeKept
<1>8. CASE apply_full_sync(s)
  <2>1. /\ m.type = "full" /\ got' = [got EXCEPT ![s] = @ \cup FirstSequence..m.newest]
        /\ sequence' = [sequence EXCEPT ![s] = m.header]
        /\ pc' = [pc EXCEPT ![s] = "stream"] /\ inbox' = [inbox EXCEPT ![s] = Tail(@)]
        /\ Acknowledge(s)
        /\ UNCHANGED <<discipline, own, log, min_sequence, current_sequence, host, backlog, live>>
    BY <1>3, <1>4, <1>8 DEF apply_full_sync
  <2>2. m.header \in Nat /\ m.newest \in Int BY <1>5, <2>1 DEF Fine
  <2>3. Carries(m) = FirstSequence..m.newest /\ Claims(m) = m.header BY <2>1 DEF Carries, Claims
  <2>4. PICK X : X = FirstSequence..m.newest OBVIOUS
  <2>5. X \subseteq Int /\ X = Carries(inbox[s][1]) /\ got' = [got EXCEPT ![s] = @ \cup X]
    BY <1>4, <2>1, <2>2, <2>3, <2>4, ReplicationAssumption
  <2>6. PICK q : q = m.header OBVIOUS
  <2>7. q \in Nat /\ q = Claims(inbox[s][1]) /\ sequence' = [sequence EXCEPT ![s] = q]
    BY <1>4, <2>1, <2>2, <2>3, <2>6
  <2> QED BY <1>2, <2>1, <2>5, <2>7, TakeKept
<1>9. CASE PassHeartbeat(s)
  <2>1. /\ m = Heartbeat /\ pc[s] = "stream" /\ inbox' = [inbox EXCEPT ![s] = Tail(@)]
        /\ UNCHANGED <<discipline, own, log, min_sequence, current_sequence, host, backlog, live,
                       serving, pc, sequence, got>>
    BY <1>3, <1>4, <1>9 DEF PassHeartbeat
  <2>2. Carries(m) = {} BY <2>1 DEF Carries, Heartbeat
  <2>3. got' = [got EXCEPT ![s] = @ \cup {}] BY <1>6, <2>1
  <2>4. sequence' = [sequence EXCEPT ![s] = sequence[s]] BY <1>6, <2>1
  <2>5. pc' = [pc EXCEPT ![s] = "stream"] BY <1>6, <2>1
  <2>6. PICK q : q = sequence[s] OBVIOUS
  <2>7. {} \subseteq Int /\ {} = Carries(inbox[s][1]) BY <1>4, <2>2
  <2> QED BY <1>2, <1>6, <2>1, <2>3, <2>4, <2>5, <2>6, <2>7, TakeKept
<1> QED BY <1>7, <1>8, <1>9

(* What is left of a connection that its slave gave up. *)
LEMMA GaveUp ==
  ASSUME SlaveTypes, NEW s, GiveUp(s)
  PROVE  /\ serving' \in Handles /\ serving'.slave = serving.slave /\ serving'.from = serving.from
         /\ serving'.phase = serving.phase /\ serving'.header = serving.header
         /\ serving'.gone = (serving.gone \/ serving.slave = s)
         /\ backlog' \in Seq(Handles) /\ Len(backlog') = Len(backlog)
         /\ \A i \in 1..Len(backlog) :
              /\ backlog'[i].slave = backlog[i].slave /\ backlog'[i].from = backlog[i].from
              /\ backlog'[i].gone = (backlog[i].gone \/ backlog[i].slave = s)
<1>1. /\ serving \in Handles /\ backlog \in Seq(Handles) /\ Len(backlog) \in Nat
  BY DEF SlaveTypes
<1>2. /\ serving' \in Handles /\ serving'.slave = serving.slave /\ serving'.from = serving.from
      /\ serving'.phase = serving.phase /\ serving'.header = serving.header
      /\ serving'.gone = (serving.gone \/ serving.slave = s)
  <2>1. serving.gone \in BOOLEAN BY <1>1 DEF Handles
  <2>2. serving' = IF serving.slave = s THEN [serving EXCEPT !.gone = TRUE] ELSE serving
    BY DEF GiveUp
  <2>3. CASE serving.slave = s BY <1>1, <2>2, <2>3 DEF Handles
  <2>4. CASE serving.slave # s BY <1>1, <2>1, <2>2, <2>4
  <2> QED BY <2>3, <2>4
<1>3. /\ backlog' \in Seq(Handles) /\ Len(backlog') = Len(backlog)
      /\ \A i \in 1..Len(backlog) :
           /\ backlog'[i].slave = backlog[i].slave /\ backlog'[i].from = backlog[i].from
           /\ backlog'[i].gone = (backlog[i].gone \/ backlog[i].slave = s)
  <2> DEFINE B == [i \in 1..Len(backlog) |->
                     IF backlog[i].slave = s THEN [backlog[i] EXCEPT !.gone = TRUE] ELSE backlog[i]]
  <2>1. backlog' = B BY DEF GiveUp
  <2>2. ASSUME NEW i \in 1..Len(backlog)
        PROVE  /\ B[i] \in Handles /\ B[i].slave = backlog[i].slave /\ B[i].from = backlog[i].from
               /\ B[i].gone = (backlog[i].gone \/ backlog[i].slave = s)
    <3>0. backlog[i] \in Handles BY <1>1
    <3>1. backlog[i] \in Handles /\ backlog[i].gone \in BOOLEAN BY <3>0 DEF Handles
    <3>2. CASE backlog[i].slave = s BY <3>1, <3>2 DEF Handles
    <3>3. CASE backlog[i].slave # s BY <3>1, <3>3
    <3> QED BY <3>2, <3>3
  <2>3. B \in [1..Len(backlog) -> Handles] BY <2>2
  <2>4. B \in Seq(Handles) /\ Len(B) = Len(backlog)
    <3> HIDE DEF B
    <3> QED BY <1>1, <2>3
  <2> HIDE DEF B
  <2> QED BY <2>1, <2>2, <2>4
<1> QED BY <1>2, <1>3

(* A slave gives its connection up. *)
LEMMA GiveUpKept ==
  ASSUME Inv, NEW s \in Slaves, GiveUp(s),
         UNCHANGED <<discipline, own, log, min_sequence, current_sequence, host>>,
         got' \in [Slaves -> SUBSET Int], got[s] \subseteq got'[s],
         sequence' \in [Slaves -> Nat], sequence'[s] = sequence[s] \/ sequence'[s] = 0,
         \A t \in Slaves \ {s} : got'[t] = got[t] /\ sequence'[t] = sequence[t]
  PROVE  Inv'
<1>b. Master /\ SlaveTypes /\ Boxes BY DEF Inv, Master
<1>1. /\ serving \in Handles /\ backlog \in Seq(Handles) /\ Len(backlog) \in Nat
      /\ pc \in [Slaves -> {"down", "sync", "stream"}]
  BY <1>b DEF SlaveTypes
<1>2. /\ serving' \in Handles /\ serving'.slave = serving.slave /\ serving'.from = serving.from
      /\ serving'.phase = serving.phase /\ serving'.header = serving.header
      /\ serving'.gone = (serving.gone \/ serving.slave = s)
  BY <1>b, GaveUp
<1>3. /\ backlog' \in Seq(Handles) /\ Len(backlog') = Len(backlog)
      /\ \A i \in 1..Len(backlog) :
           /\ backlog'[i].slave = backlog[i].slave /\ backlog'[i].from = backlog[i].from
           /\ backlog'[i].gone = (backlog[i].gone \/ backlog[i].slave = s)
  BY <1>b, GaveUp
<1>4. pc' \in [Slaves -> {"down", "sync", "stream"}] /\ pc'[s] = "down"
      /\ \A t \in Slaves \ {s} : pc'[t] = pc[t]
  BY <1>1 DEF GiveUp
<1>5. SlaveTypes' BY <1>2, <1>3, <1>4, <1>b DEF SlaveTypes
<1>6. Master' /\ Sent' = Sent BY <1>2, <1>5, <1>b, MasterKept DEF Master, CareTaken
<1>7. PICK T : inbox \in [Slaves -> Seq(T)] BY <1>b DEF Boxes
<1>8. /\ inbox' \in [Slaves -> Seq(T)] /\ inbox'[s] = << >>
      /\ \A t \in Slaves \ {s} : inbox'[t] = inbox[t]
  <2>1. << >> \in Seq(T) OBVIOUS
  <2>2. inbox' = [inbox EXCEPT ![s] = << >>] BY DEF GiveUp
  <2> QED BY <1>7, <2>1, <2>2
<1>9. live' = live \ {s} BY DEF GiveUp
<1>10. \A t \in Slaves : BacklogKept(t) BY <1>3 DEF BacklogKept
<1>11. ASSUME NEW t \in Slaves PROVE Follows(t)'
  <2>1. CASE t # s
    <3>1. serving'.slave = t => serving'.gone = serving.gone
      <4>1. serving.gone \in BOOLEAN BY <1>1 DEF Handles
      <4> QED BY <1>2, <2>1, <4>1
    <3> QED BY <1>2, <1>4, <1>6, <1>8, <1>9, <1>10, <2>1, <3>1, OthersKept
  <2>2. CASE t = s
    <3>1. Len(inbox'[s]) = 0 /\ \A i \in 1..0 : FALSE BY <1>8
    <3>2. Cut(s)' BY <1>2, <1>3, <1>8, <1>9 DEF Cut, Served
    <3>3. (\A i \in 1..Len(inbox[s]) : Fine(inbox[s][i]))' BY <3>1 DEF Fine
    <3>4. ASSUME Careful, own[s] = 0 PROVE Honest(s)' /\ Chained(s)' /\ UpToDate(s)'
      <4>1. Honest(s) BY <3>4 DEF Inv, Follows
      <4>2. Span(sequence'[s]) \subseteq got'[s] BY <4>1, SpanZero DEF Honest
      <4>3. \A i \in 1..Len(backlog') : backlog'[i].slave = s
                => Span(backlog'[i].from) \subseteq got'[s]
        BY <1>3, <4>1 DEF Honest
      <4>4. serving'.slave = s => Span(serving'.from) \subseteq got'[s] BY <1>2, <4>1 DEF Honest
      <4>5. Honest(s)' BY <4>2, <4>3, <4>4 DEF Honest, Span
      <4>6. Chained(s)' BY <3>1 DEF Chained
      <4>7. UpToDate(s)' BY <1>2, <1>9 DEF UpToDate, Synced
      <4> QED BY <4>5, <4>6, <4>7
    <3>5. Follows(s)' BY <3>2, <3>3, <3>4 DEF Follows, Careful
    <3> QED BY <2>2, <3>5
  <2> QED BY <2>1, <2>2
<1>12. Boxes' BY <1>8 DEF Boxes
<1> QED BY <1>6, <1>11, <1>12 DEF Inv

LEMMA GiveUpSteps ==
  ASSUME Inv, NEW s \in Slaves,
         \/ SlaveError(s) \/ ConnectionLost(s) \/ SlaveRestart(s)
         \/ (\E k \in 0..MaxWrites : IncrementalFails(s, k))
         \/ (\E D \in SUBSET Docs : FullFails(s, D))
  PROVE  Inv'
<1>b. Master /\ SlaveTypes /\ Boxes /\ Follows(s) BY DEF Inv, Master
<1>1. got \in [Slaves -> SUBSET Int] /\ sequence \in [Slaves -> Nat] BY <1>b DEF SlaveTypes
<1> USE DEF nodeVars, masterVars
<1>2. CASE SlaveError(s) BY <1>1, <1>2, GiveUpKept DEF SlaveError
<1>3. CASE ConnectionLost(s) BY <1>1, <1>3, GiveUpKept DEF ConnectionLost
<1>4. CASE SlaveRestart(s)
  <2>1. /\ sequence' \in [Slaves -> Nat] /\ sequence'[s] = 0
        /\ \A t \in Slaves \ {s} : sequence'[t] = sequence[t]
    BY <1>1, <1>4 DEF SlaveRestart
  <2> QED BY <1>1, <1>4, <2>1, GiveUpKept DEF SlaveRestart
<1>5. CASE \E D \in SUBSET Docs : FullFails(s, D) BY <1>1, <1>5, GiveUpKept DEF FullFails
<1>6. CASE \E k \in 0..MaxWrites : IncrementalFails(s, k)
  <2>1. PICK k \in 0..MaxWrites : IncrementalFails(s, k) BY <1>6
  <2>2. PICK T : inbox \in [Slaves -> Seq(T)] BY <1>b DEF Boxes
  <2>3. inbox[s] # << >> BY <2>1 DEF IncrementalFails
  <2>4. Head(inbox[s]) = inbox[s][1] /\ 1 \in 1..Len(inbox[s])
    <3>1. inbox[s] \in Seq(T) BY <2>2
    <3> QED BY <2>3, <3>1
  <2>5. PICK m : m = inbox[s][1] OBVIOUS
  <2>6. PICK X : X = Numbers(SubSeq(m.entries, 1, k)) OBVIOUS
  <2>7. /\ m.type = "incremental" /\ k < Len(m.entries) /\ GiveUp(s)
        /\ got' = [got EXCEPT ![s] = @ \cup X]
        /\ UNCHANGED <<discipline, own, log, min_sequence, current_sequence, host, sequence>>
    BY <2>1, <2>4, <2>5, <2>6 DEF IncrementalFails
  <2>8. m.entries \in Seq(Entries) BY <1>b, <2>4, <2>5, <2>7 DEF Follows, Fine
  <2>9. X \subseteq Int
    <3>1. k \in Int /\ 1 \in Int /\ k >= 0 BY ReplicationAssumption
    <3>2. \A i \in 1..k : m.entries[i] \in Entries
      <4>1. Len(m.entries) \in Nat BY <2>8
      <4>2. \A i \in 1..k : i \in 1..Len(m.entries) BY <2>7, <3>1, <4>1
      <4> QED BY <2>8, <4>2
    <3> DEFINE es == SubSeq(m.entries, 1, k)
    <3>3. es \in Seq(Entries) BY <3>1, <3>2, SubSeqProperties
    <3> HIDE DEF es
    <3>4. ASSUME NEW i \in 1..Len(es) PROVE es[i].sequence \in Int
      <4>1. es[i] \in Entries BY <3>3
      <4> QED BY <4>1 DEF Entries
    <3>5. X = Numbers(es) BY <2>6 DEF es
    <3> QED BY <3>4, <3>5 DEF Numbers
  <2>10. /\ got' \in [Slaves -> SUBSET Int] /\ got[s] \subseteq got'[s]
         /\ \A t \in Slaves \ {s} : got'[t] = got[t]
    BY <1>1, <2>7, <2>9
  <2> QED BY <1>1, <2>7, <2>10, GiveUpKept
<1> QED BY <1>2, <1>3, <1>4, <1>5, <1>6

(* A slave connects with the number it has come to. *)
LEMMA ConnectKept == ASSUME Inv, NEW s \in Slaves, Connect(s) PROVE Inv'
<1>b. Master /\ SlaveTypes /\ Boxes /\ Follows(s) BY DEF Inv, Master
<1> DEFINE c == [Nobody EXCEPT !.slave = s, !.from = sequence[s]]
<1>1. /\ pc[s] = "down" /\ pc' = [pc EXCEPT ![s] = "sync"] /\ inbox' = [inbox EXCEPT ![s] = << >>]
      /\ backlog' = Append(backlog, c)
      /\ UNCHANGED <<discipline, own, log, min_sequence, current_sequence, host, serving, live,
                     sequence, got>>
  BY DEF Connect, nodeVars, masterVars
<1>2. /\ sequence[s] \in Nat /\ backlog \in Seq(Handles) /\ Len(backlog) \in Nat
      /\ pc \in [Slaves -> {"down", "sync", "stream"}]
  BY <1>b DEF SlaveTypes
<1>3. c \in Handles /\ c.slave = s /\ c.from = sequence[s] BY <1>2 DEF Nobody, Handles, Phases
<1> HIDE DEF c
<1>4. /\ backlog' \in Seq(Handles) /\ Len(backlog') = Len(backlog) + 1
      /\ backlog'[Len(backlog) + 1] = c /\ \A i \in 1..Len(backlog) : backlog'[i] = backlog[i]
  BY <1>1, <1>2, <1>3
<1>5. \A i \in 1..Len(backlog') : i = Len(backlog) + 1 \/ i \in 1..Len(backlog) BY <1>2, <1>4
<1>6. /\ pc' \in [Slaves -> {"down", "sync", "stream"}] /\ pc'[s] = "sync"
      /\ \A t \in Slaves \ {s} : pc'[t] = pc[t]
  BY <1>1, <1>2
<1>7. inbox' = inbox
  <2>1. inbox[s] = << >> BY <1>1, <1>b DEF Follows, Cut
  <2>2. PICK T : inbox \in [Slaves -> Seq(T)] BY <1>b DEF Boxes
  <2> QED BY <1>1, <2>1, <2>2
<1>8. SlaveTypes' BY <1>1, <1>4, <1>6, <1>b DEF SlaveTypes
<1>9. Master' /\ Sent' = Sent BY <1>1, <1>8, <1>b, MasterKept DEF Master, CareTaken
<1>10. ASSUME NEW t \in Slaves PROVE Follows(t)'
  <2>1. CASE t # s
    <3>1. BacklogKept(t) BY <1>3, <1>4, <1>5, <2>1 DEF BacklogKept
    <3> QED BY <1>1, <1>6, <1>7, <1>9, <2>1, <3>1, OthersKept
  <2>2. CASE t = s
    <3>1. Cut(s)' BY <1>6 DEF Cut
    <3>2. (\A i \in 1..Len(inbox[s]) : Fine(inbox[s][i]))' BY <1>7, <1>b DEF Follows, Fine
    <3>3. ASSUME Careful, own[s] = 0 PROVE Honest(s)' /\ Chained(s)' /\ UpToDate(s)'
      <4>1. Honest(s) /\ Chained(s) /\ UpToDate(s) BY <1>b, <3>3 DEF Follows
      <4>2. \A i \in 1..Len(backlog') : backlog'[i].slave = s
                => Span(backlog'[i].from) \subseteq got[s]
        BY <1>3, <1>4, <1>5, <4>1 DEF Honest
      <4>3. Honest(s)' BY <1>1, <4>1, <4>2 DEF Honest, Span
      <4>4. \A n, i : Has(s, n, i)' <=> Has(s, n, i) BY <1>1, <1>7 DEF Has
      <4>5. Chained(s)' BY <1>7, <4>1, <4>4 DEF Chained, Span
      <4>6. UpToDate(s)' BY <1>1, <1>7, <1>9, <4>1, <4>4 DEF UpToDate, Synced, Span
      <4> QED BY <4>3, <4>5, <4>6
    <3>4. Follows(s)' BY <1>1, <3>1, <3>2, <3>3 DEF Follows, Careful
    <3> QED BY <2>2, <3>4
  <2> QED BY <2>1, <2>2
<1>11. Boxes' BY <1>7, <1>b DEF Boxes
<1> QED BY <1>9, <1>10, <1>11 DEF Inv

(* A promoted slave takes a write: from now on nothing is claimed of it. *)
LEMMA OwnWriteKept ==
  ASSUME Inv, NEW s \in Slaves, NEW d \in Docs, handle_write_operation(s, d) PROVE Inv'
<1>b. Master /\ SlaveTypes /\ Boxes /\ Follows(s) BY DEF Inv, Master
<1>1. /\ own' = [own EXCEPT ![s] = own[s] + 1]
      /\ sequence' = [sequence EXCEPT ![s] = FirstSequence + own[s]]
      /\ UNCHANGED <<discipline, log, min_sequence, current_sequence, host, backlog, serving, live,
                     pc, inbox, got>>
  BY <1>b DEF handle_write_operation, masterVars, joinVars, SlaveTypes
<1>2. own[s] \in Nat /\ own \in [Slaves -> Nat] /\ sequence \in [Slaves -> Nat]
        BY <1>b DEF SlaveTypes
<1>3. own[s] + 1 \in Nat /\ own[s] + 1 # 0 /\ FirstSequence + own[s] \in Nat
  BY <1>2, ReplicationAssumption
<1>4. /\ own' \in [Slaves -> Nat] /\ own'[s] # 0 /\ sequence' \in [Slaves -> Nat]
      /\ \A t \in Slaves \ {s} : own'[t] = own[t] /\ sequence'[t] = sequence[t]
  BY <1>1, <1>2, <1>3
<1>5. SlaveTypes' BY <1>1, <1>4, <1>b DEF SlaveTypes
<1>6. Master' /\ Sent' = Sent BY <1>1, <1>5, <1>b, MasterKept DEF Master, CareTaken
<1>7. ASSUME NEW t \in Slaves PROVE Follows(t)'
  <2>1. CASE t # s
    <3>1. BacklogKept(t) BY <1>1 DEF BacklogKept
    <3> QED BY <1>1, <1>4, <1>6, <2>1, <3>1, OthersKept
  <2>2. CASE t = s
    <3>1. Follows(s)' BY <1>1, <1>4, <1>b DEF Follows, Cut, Served, Fine
    <3> QED BY <2>2, <3>1
  <2> QED BY <2>1, <2>2
<1>8. Boxes' BY <1>1, <1>b DEF Boxes
<1> QED BY <1>6, <1>7, <1>8 DEF Inv

-----------------------------------------------------------------------------
LEMMA InvInit == ASSUME Init PROVE Inv
<1>1. FirstSequence \in Nat /\ Docs # {} BY ReplicationAssumption
<1>2. PICK e : e = Entry(FirstSequence, "insert", CHOOSE d \in Docs : TRUE) OBVIOUS
<1>3. e \in Entries /\ e.sequence = FirstSequence
  <2>1. PICK d : d = CHOOSE x \in Docs : TRUE OBVIOUS
  <2>2. d \in Docs BY <1>1, <2>1
  <2> QED BY <1>1, <1>2, <2>1, <2>2 DEF Entry, Entries, Kinds
<1>4. log = <<e>> BY <1>2 DEF Init, Start
<1>5. log \in Seq(Entries) /\ Len(log) = 1 /\ log[1] = e BY <1>3, <1>4
<1>6. Last = FirstSequence BY <1>1, <1>5 DEF Last
<1>7. host \in [Hosts -> [do : {"idle", "update", "broadcast"}, n : Nat]]
      /\ \A h \in Hosts : host[h].do = "idle"
  BY DEF Init, Resting
<1>8. MasterTypes
  <2>1. \A i \in 1..Len(log) : log[i].sequence = FirstSequence + i - 1
    <3>1. \A i \in 1..1 : i = 1 OBVIOUS
    <3> QED BY <1>1, <1>3, <1>5, <3>1
  <2> QED BY <1>1, <1>5, <1>6, <1>7, <2>1 DEF Init, MasterTypes
<1>9. SlaveTypes BY NobodyIsHandle DEF Init, SlaveTypes
<1>10. CareTaken BY <1>1, <1>6, <1>7, NobodyIsHandle DEF Init, CareTaken
<1>11. Master BY <1>8, <1>9, <1>10, NobodyIsHandle DEF Init, Master
<1>12. Boxes
  <2>1. inbox \in [Slaves -> Seq({})] BY DEF Init
  <2> QED BY <2>1 DEF Boxes
<1>13. ASSUME NEW s \in Slaves PROVE Follows(s)
  <2>1. inbox[s] = << >> /\ Len(inbox[s]) = 0 /\ backlog = << >> /\ Len(backlog) = 0
        /\ sequence[s] = 0 /\ live = {} /\ serving = Nobody
    BY DEF Init
  <2>2. \A i \in 1..0 : FALSE OBVIOUS
  <2>3. Cut(s) BY <2>1, <2>2, NobodyIsHandle DEF Cut, Served
  <2>4. Honest(s) BY <2>1, <2>2, NobodyIsHandle, SpanZero DEF Honest
  <2>5. Chained(s) BY <2>1, <2>2 DEF Chained
  <2>6. UpToDate(s) BY <2>1, NobodyIsHandle DEF UpToDate, Synced
  <2> QED BY <2>1, <2>2, <2>3, <2>4, <2>5, <2>6 DEF Follows
<1> QED BY <1>11, <1>12, <1>13 DEF Inv

LEMMA InvNext == ASSUME Inv, [Next]_vars PROVE Inv'
<1>1. CASE UNCHANGED vars
  <2>1. Untouched /\ UNCHANGED <<backlog, serving, live>>
    BY <1>1 DEF vars, nodeVars, masterVars, joinVars, slaveVars, Untouched
  <2> QED BY <2>1, ListKept
<1>2. CASE \E h \in Hosts : HostStep(h) BY <1>2, UpdateKept, EntryKept DEF HostStep
<1>3. CASE \E h \in Hosts, kind \in {"insert", "update", "delete", "drop"}, d \in Docs :
             HostWrite(h, kind, d)
  BY <1>3, WriteKept DEF Kinds
<1>4. CASE \E n \in 1..Last + 1 : Compact(n) BY <1>4, CompactKept
<1>5. CASE Serve
  BY <1>5, AcceptKept, PhaseSteps, FullKept, IncrementalKept, ListSteps DEF Serve
<1>6. CASE ServingFails \/ (\E n \in 1..gone : cleanup_disconnected(n)) BY <1>6, ListSteps
<1>7. CASE force_sync BY <1>7, ForceKept
<1>8. CASE \E s \in Slaves :
             \/ promote_to_master(s) \/ (\E d \in Docs : handle_write_operation(s, d))
             \/ remove_slave(s) \/ SlaveStep(s) \/ ConnectionLost(s) \/ SlaveRestart(s)
             \/ (\E k \in 0..MaxWrites : IncrementalFails(s, k))
             \/ (\E D \in SUBSET Docs : FullFails(s, D))
  <2>1. PICK s \in Slaves :
             \/ promote_to_master(s) \/ (\E d \in Docs : handle_write_operation(s, d))
             \/ remove_slave(s) \/ SlaveStep(s) \/ ConnectionLost(s) \/ SlaveRestart(s)
             \/ (\E k \in 0..MaxWrites : IncrementalFails(s, k))
             \/ (\E D \in SUBSET Docs : FullFails(s, D))
    BY <1>8
  <2>2. CASE promote_to_master(s) \/ remove_slave(s) BY <2>2, ListSteps
  <2>3. CASE \E d \in Docs : handle_write_operation(s, d) BY <2>3, OwnWriteKept
  <2>4. CASE SlaveStep(s) BY <2>4, ConnectKept, ReadSteps, GiveUpSteps DEF SlaveStep
  <2>5. CASE \/ ConnectionLost(s) \/ SlaveRestart(s)
             \/ (\E k \in 0..MaxWrites : IncrementalFails(s, k))
             \/ (\E D \in SUBSET Docs : FullFails(s, D))
    BY <2>5, GiveUpSteps
  <2> QED BY <2>1, <2>2, <2>3, <2>4, <2>5
<1> QED BY <1>1, <1>2, <1>3, <1>4, <1>5, <1>6, <1>7, <1>8 DEF Next

(* A slave that says it has come to an entry has the effect of every entry before it: under *)
(* a careful host, whatever connections broke, however often it joined, by a snapshot or by *)
(* the log, restarted or promoted, until it takes writes of its own.                        *)
THEOREM NothingIsSkipped == Spec => []NoGap
<1>1. Inv => NoGap BY DEF Inv, Follows, Honest, NoGap, Span
<1> QED BY <1>1, InvInit, InvNext, PTL DEF Spec

-----------------------------------------------------------------------------
(* Connections.  A slave has one connection; as long as it is not answered, nothing has come *)
(* on it, and the slave is still where its request says.                                     *)
Open(s, i) == i \in 1..Len(backlog) /\ backlog[i].slave = s /\ ~backlog[i].gone
Early(s) == Served(s) /\ serving.phase \in {"decide", "header", "scan", "read"}

Conn(s) ==
  /\ \A i, j : Open(s, i) /\ Open(s, j) => i = j
  /\ \A i : Open(s, i) => ~Served(s) /\ s \notin live /\ inbox[s] = << >>
  /\ Served(s) => s \notin live
  /\ Early(s) => inbox[s] = << >>
  /\ own[s] = 0 => /\ \A i : Open(s, i) => backlog[i].from = sequence[s]
                   /\ Early(s) => serving.from = sequence[s]

Wired == \A s \in Slaves : Conn(s)

(* A step that opens no connection, and answers what is served or changes what was answered. *)
Calm(s) ==
  /\ UNCHANGED backlog
  /\ Served(s)' => Served(s)
  /\ Early(s)' => Early(s) /\ serving'.from = serving.from
  /\ s \in live' => s \in live \/ (Served(s) /\ ~Served(s)')
  /\ inbox'[s] = inbox[s] \/ inbox[s] # << >> \/ s \in live \/ (Served(s) /\ ~Early(s)')
  /\ own'[s] = 0 => own[s] = 0 /\ (sequence'[s] = sequence[s] \/ inbox[s] # << >>)

LEMMA ConnCalm == ASSUME NEW s, Conn(s), Calm(s) PROVE Conn(s)'
<1>1. \A i : Open(s, i)' <=> Open(s, i) BY DEF Open, Calm
<1>2. \A i : Open(s, i) => ~Served(s)' /\ s \notin live' /\ inbox'[s] = << >>
  BY DEF Conn, Calm
<1>3. Served(s)' => s \notin live' BY DEF Conn, Calm
<1>4. Early(s)' => inbox'[s] = << >> BY DEF Conn, Calm, Early
<1>5. ASSUME own'[s] = 0, NEW i, Open(s, i) PROVE backlog'[i].from = sequence'[s]
  BY <1>5 DEF Conn, Calm
<1>6. own'[s] = 0 /\ Early(s)' => serving'.from = sequence'[s]
  BY DEF Conn, Calm, Early
<1> QED BY <1>1, <1>2, <1>3, <1>4, <1>5, <1>6 DEF Conn

(* Steps of the host and of the listener. *)
LEMMA ConnListener ==
  ASSUME Inv, Wired,
         \/ (\E h \in Hosts, kind \in Kinds, d \in Docs : HostWrite(h, kind, d))
         \/ (\E h \in Hosts : HostUpdate(h)) \/ (\E n \in 1..Last + 1 : Compact(n))
         \/ Decide \/ ReadHeader \/ ReceiveAck
         \/ add_slave \/ ServingFails \/ (\E n \in 1..gone : cleanup_disconnected(n))
         \/ (\E s \in Slaves : remove_slave(s) \/ promote_to_master(s)) \/ UNCHANGED vars
  PROVE  Wired'
<1> USE DEF nodeVars, masterVars, joinVars, slaveVars, vars
<1>t. serving \in Handles BY DEF Inv, Master, SlaveTypes
<1>1. UNCHANGED <<backlog, own, inbox, sequence>>
  BY DEF HostWrite, HostUpdate, Compact, Decide, ReadHeader, ReceiveAck, add_slave, ServingFails,
     cleanup_disconnected, remove_slave, promote_to_master
<1>2. \/ UNCHANGED serving /\ live' \subseteq live
      \/ serving' = Nobody /\ \A s \in live' : s \in live \/ Served(s)
      \/ /\ serving'.slave = serving.slave /\ serving'.gone = serving.gone
         /\ serving'.from = serving.from /\ UNCHANGED live
         /\ \/ serving.phase \in {"decide", "header"}
            \/ serving.phase = "ack" /\ serving'.phase = "add"
  <2>1. CASE add_slave BY <2>1 DEF add_slave, Served
  <2>2. CASE ServingFails BY <2>2 DEF ServingFails
  <2>3. CASE Decide
    <3> DEFINE p == IF needs_full_sync(serving.from) THEN "header" ELSE "read"
    <3>1. serving' = [serving EXCEPT !.phase = p] /\ serving.phase = "decide" /\ UNCHANGED live
      BY <2>3 DEF Decide, Phase
    <3> HIDE DEF p
    <3> QED BY <1>t, <3>1 DEF Handles
  <2>4. CASE ReadHeader BY <1>t, <2>4 DEF ReadHeader, Handles
  <2>5. CASE ReceiveAck BY <1>t, <2>5 DEF ReceiveAck, Phase, Handles
  <2>6. CASE \/ (\E h \in Hosts, kind \in Kinds, d \in Docs : HostWrite(h, kind, d))
             \/ (\E h \in Hosts : HostUpdate(h)) \/ (\E n \in 1..Last + 1 : Compact(n))
             \/ (\E n \in 1..gone : cleanup_disconnected(n))
             \/ (\E s \in Slaves : remove_slave(s) \/ promote_to_master(s)) \/ UNCHANGED vars
    BY <2>6 DEF HostWrite, HostUpdate, Compact, cleanup_disconnected, remove_slave,
       promote_to_master
  <2> QED BY <2>1, <2>2, <2>3, <2>4, <2>5, <2>6
<1>3. ASSUME NEW s \in Slaves PROVE Calm(s)
  <2>1. (Served(s)' => Served(s)) /\ (s \in live' => s \in live \/ (Served(s) /\ ~Served(s)'))
    BY <1>2, NobodyIsHandle DEF Served
  <2>2. Early(s)' => Early(s) /\ serving'.from = serving.from
    BY <1>2, NobodyIsHandle DEF Served, Early
  <2> QED BY <1>1, <2>1, <2>2 DEF Calm
<1> QED BY <1>3, ConnCalm DEF Wired

LEMMA ConnAccept == ASSUME Inv, Wired, Accept PROVE Wired'
<1> DEFINE c == backlog[1]
           r == [c EXCEPT !.phase = "decide"]
<1>1. backlog \in Seq(Handles) /\ backlog # << >> /\ Len(backlog) \in Nat /\ Len(backlog) >= 1
  BY DEF Accept, Inv, Master, SlaveTypes
<1>2. c \in Handles BY <1>1
<1>3. /\ serving = Nobody /\ serving' = r /\ backlog' = Tail(backlog)
      /\ UNCHANGED <<live, own, inbox, sequence>>
  BY <1>1 DEF Accept, nodeVars, slaveVars
<1> HIDE DEF c
<1>4. r.phase = "decide" /\ r.slave = c.slave /\ r.from = c.from /\ r.gone = c.gone
  BY <1>2 DEF Handles, Phases
<1> HIDE DEF r
<1>5. /\ Len(backlog') = Len(backlog) - 1
      /\ \A i \in 1..Len(backlog') : backlog'[i] = backlog[i + 1] /\ i + 1 \in 1..Len(backlog)
  BY <1>1, <1>3
<1>6. ASSUME NEW s \in Slaves PROVE Conn(s)'
  <2>1. Conn(s) BY DEF Wired
  <2>2. \A i : Open(s, i)' => i \in 1..Len(backlog') /\ Open(s, i + 1) /\ backlog'[i] = backlog[i + 1]
    BY <1>5 DEF Open
  <2>3. (Served(s)' \/ Early(s)') => Open(s, 1) /\ serving'.from = backlog[1].from
    <3>1. 1 \in 1..Len(backlog) BY <1>1
    <3> QED BY <1>3, <1>4, <3>1 DEF Served, Early, Open, c
  <2>4. ASSUME NEW i, Open(s, i)' PROVE ~Served(s)'
    <3>1. i \in Int /\ i >= 1 /\ Open(s, i + 1) BY <1>1, <1>5, <2>2, <2>4
    <3>2. i + 1 # 1 BY <3>1
    <3>3. ~Open(s, 1) BY <2>1, <3>1, <3>2 DEF Conn
    <3> QED BY <2>3, <3>3
  <2>5. ASSUME NEW i, NEW j, Open(s, i)', Open(s, j)' PROVE i = j
    <3>1. i \in Int /\ j \in Int BY <1>1, <1>5, <2>2, <2>5
    <3>2. i + 1 = j + 1 BY <2>1, <2>2, <2>5 DEF Conn
    <3> QED BY <3>1, <3>2
  <2>6. \A i : Open(s, i)' => s \notin live' /\ inbox'[s] = << >> BY <1>3, <2>1, <2>2 DEF Conn
  <2>7. own'[s] = 0 => \A i : Open(s, i)' => backlog'[i].from = sequence'[s]
    BY <1>3, <2>1, <2>2 DEF Conn
  <2>8. /\ Served(s)' => s \notin live'
        /\ Early(s)' => inbox'[s] = << >> /\ (own'[s] = 0 => serving'.from = sequence'[s])
    BY <1>3, <2>1, <2>3 DEF Conn
  <2> QED BY <2>4, <2>5, <2>6, <2>7, <2>8 DEF Conn
<1> QED BY <1>6 DEF Wired

(* Messages are sent to slaves that were added, or answer the one being served. *)
LEMMA ConnMessages ==
  ASSUME Inv, Wired,
         \/ (\E h \in Hosts : broadcast_wal_entry(h)) \/ force_sync
         \/ perform_full_sync \/ (\E flushed \in FirstSequence..Last : perform_incremental_sync(flushed))
  PROVE  Wired'
<1> USE DEF nodeVars, masterVars, joinVars
<1>t. serving \in Handles /\ Boxes BY DEF Inv, Master, SlaveTypes
<1>0. PICK T : inbox \in [Slaves -> Seq(T)] BY <1>t DEF Boxes
<1>1. UNCHANGED <<backlog, live, own, sequence>>
  BY DEF broadcast_wal_entry, force_sync, perform_full_sync, perform_incremental_sync
<1>2. CASE (\E h \in Hosts : broadcast_wal_entry(h)) \/ force_sync
  <2>1. PICK m : Broadcast(m) BY <1>2 DEF broadcast_wal_entry, force_sync
  <2>2. UNCHANGED serving BY <1>2 DEF broadcast_wal_entry, force_sync
  <2>3. \A s \in Slaves : inbox'[s] = inbox[s] \/ s \in live BY <2>1 DEF Broadcast
  <2>4. \A s \in Slaves : Calm(s) BY <1>1, <2>2, <2>3 DEF Calm, Served, Early
  <2> QED BY <2>4, ConnCalm DEF Wired
<1>3. CASE perform_full_sync \/ (\E flushed \in FirstSequence..Last : perform_incremental_sync(flushed))
  <2>1. PICK p \in {"ack", "add"} : serving' = [serving EXCEPT !.phase = p]
    BY <1>3 DEF perform_full_sync, perform_incremental_sync, Phase
  <2>2. serving.phase \in {"scan", "read"}
    BY <1>3 DEF perform_full_sync, perform_incremental_sync, Phase
  <2>3. /\ serving'.phase \in {"ack", "add"} /\ serving'.slave = serving.slave
        /\ serving'.gone = serving.gone
    BY <1>t, <2>1 DEF Handles
  <2>4. \A s \in Slaves : inbox'[s] = inbox[s] \/ (serving.slave = s /\ ~serving.gone)
    <3>1. UNCHANGED inbox \/ \E m : Send(m)
      BY <1>3 DEF perform_full_sync, perform_incremental_sync
    <3> QED BY <1>0, <3>1 DEF Send
  <2>5. \A s \in Slaves : Calm(s) BY <1>1, <2>2, <2>3, <2>4 DEF Calm, Served, Early
  <2> QED BY <2>5, ConnCalm DEF Wired
<1> QED BY <1>2, <1>3

(* A slave that reads has an answer already. *)
LEMMA ConnReads ==
  ASSUME Inv, Wired, NEW s \in Slaves,
         apply_incremental_sync(s) \/ apply_full_sync(s) \/ PassHeartbeat(s)
  PROVE  Wired'
<1> USE DEF nodeVars, masterVars, joinVars
<1>t. /\ serving \in Handles /\ sequence \in [Slaves -> Nat] /\ Boxes
  BY DEF Inv, Master, SlaveTypes
<1>0. PICK T : inbox \in [Slaves -> Seq(T)] BY <1>t DEF Boxes
<1>1. UNCHANGED <<backlog, live, own>> /\ inbox[s] # << >>
  BY DEF apply_incremental_sync, apply_full_sync, PassHeartbeat
<1>2. UNCHANGED serving \/ Acknowledge(s) BY DEF apply_incremental_sync, apply_full_sync, PassHeartbeat
<1>3. /\ serving'.slave = serving.slave /\ serving'.from = serving.from
      /\ serving'.phase = serving.phase /\ serving'.gone = serving.gone
  BY <1>t, <1>2 DEF Acknowledge, Handles
<1>4. \A t \in Slaves : t # s => inbox'[t] = inbox[t] /\ sequence'[t] = sequence[t]
  <2>1. inbox' = [inbox EXCEPT ![s] = Tail(inbox[s])]
    BY <1>0 DEF apply_incremental_sync, apply_full_sync, PassHeartbeat
  <2>2. UNCHANGED sequence \/ \E x : sequence' = [sequence EXCEPT ![s] = x]
    <3>1. CASE apply_incremental_sync(s)
      <4> DEFINE m == Head(inbox[s])
      <4>1. sequence' = [sequence EXCEPT ![s] = IF last_sequence(m.entries) > 0
                                                THEN last_sequence(m.entries) ELSE sequence[s]]
        BY <1>t, <3>1 DEF apply_incremental_sync
      <4> QED BY <4>1
    <3>2. CASE apply_full_sync(s) BY <3>2 DEF apply_full_sync
    <3>3. CASE PassHeartbeat(s) BY <3>3 DEF PassHeartbeat
    <3> QED BY <3>1, <3>2, <3>3
  <2> QED BY <1>0, <1>t, <2>1, <2>2
<1>5. \A t \in Slaves : Calm(t)
  <2> SUFFICES ASSUME NEW t \in Slaves PROVE Calm(t) OBVIOUS
  <2>1. (Served(t)' <=> Served(t)) /\ (Early(t)' <=> Early(t)) BY <1>3 DEF Served, Early
  <2>2. (inbox'[t] = inbox[t] /\ sequence'[t] = sequence[t]) \/ inbox[t] # << >>
    BY <1>1, <1>4
  <2> QED BY <1>1, <1>3, <2>1, <2>2 DEF Calm
<1> QED BY <1>5, ConnCalm DEF Wired

(* A slave that gives up has no connection any more, the others keep theirs. *)
LEMMA ConnGiveUp ==
  ASSUME Inv, Wired, NEW s \in Slaves,
         \/ SlaveError(s) \/ ConnectionLost(s) \/ SlaveRestart(s)
         \/ (\E k \in 0..MaxWrites : IncrementalFails(s, k))
         \/ (\E D \in SUBSET Docs : FullFails(s, D))
  PROVE  Wired'
<1> USE DEF nodeVars, masterVars, joinVars
<1>t. /\ SlaveTypes /\ serving \in Handles /\ backlog \in Seq(Handles) /\ Len(backlog) \in Nat
      /\ sequence \in [Slaves -> Nat] /\ Boxes
  BY DEF Inv, Master, SlaveTypes
<1>0. PICK T : inbox \in [Slaves -> Seq(T)] BY <1>t DEF Boxes
<1>1. GiveUp(s) /\ UNCHANGED own
  BY DEF SlaveError, ConnectionLost, SlaveRestart, IncrementalFails, FullFails
<1>2. /\ serving' \in Handles /\ serving'.slave = serving.slave /\ serving'.from = serving.from
      /\ serving'.phase = serving.phase /\ serving'.gone = (serving.gone \/ serving.slave = s)
  BY <1>1, <1>t, GaveUp
<1>3. /\ Len(backlog') = Len(backlog)
      /\ \A i \in 1..Len(backlog) :
           /\ backlog'[i].slave = backlog[i].slave /\ backlog'[i].from = backlog[i].from
           /\ backlog'[i].gone = (backlog[i].gone \/ backlog[i].slave = s)
  BY <1>1, <1>t, GaveUp
<1>4. live' = live \ {s} /\ \A t \in Slaves : t # s => inbox'[t] = inbox[t] /\ sequence'[t] = sequence[t]
  <2>1. live' = live \ {s} /\ inbox' = [inbox EXCEPT ![s] = << >>] BY <1>1 DEF GiveUp
  <2>2. UNCHANGED sequence \/ sequence' = [sequence EXCEPT ![s] = 0]
    BY DEF SlaveError, ConnectionLost, SlaveRestart, IncrementalFails, FullFails, slaveVars
  <2> QED BY <1>0, <1>t, <2>1, <2>2
<1>5. Conn(s)'
  <2>1. \A i : ~Open(s, i)' BY <1>3 DEF Open
  <2>2. ~Served(s)' /\ ~Early(s)' /\ s \notin live' BY <1>2, <1>4 DEF Served, Early
  <2> QED BY <2>1, <2>2 DEF Conn
<1>6. ASSUME NEW t \in Slaves, t # s PROVE Conn(t)'
  <2>1. Conn(t) BY DEF Wired
  <2>2. \A i : Open(t, i)' => Open(t, i) /\ backlog'[i].from = backlog[i].from BY <1>3, <1>6 DEF Open
  <2>3. /\ Served(t)' => Served(t)
        /\ Early(t)' => Early(t) /\ serving'.from = serving.from
        /\ t \in live' => t \in live
    BY <1>2, <1>4 DEF Served, Early
  <2>4. inbox'[t] = inbox[t] /\ sequence'[t] = sequence[t] /\ own'[t] = own[t] BY <1>1, <1>4, <1>6
  <2>5. \A i, j : Open(t, i)' /\ Open(t, j)' => i = j BY <2>1, <2>2 DEF Conn
  <2>6. \A i : Open(t, i)' => ~Served(t)' /\ t \notin live' /\ inbox'[t] = << >>
    BY <2>1, <2>2, <2>3, <2>4 DEF Conn
  <2>7. own'[t] = 0 => \A i : Open(t, i)' => backlog'[i].from = sequence'[t]
    BY <2>1, <2>2, <2>4 DEF Conn
  <2>8. /\ Served(t)' => t \notin live'
        /\ Early(t)' => inbox'[t] = << >> /\ (own'[t] = 0 => serving'.from = sequence'[t])
    BY <2>1, <2>3, <2>4 DEF Conn
  <2> QED BY <2>5, <2>6, <2>7, <2>8 DEF Conn
<1> QED BY <1>5, <1>6 DEF Wired

(* A slave that connects had no connection, and says where it is. *)
LEMMA ConnConnect == ASSUME Inv, Wired, NEW s \in Slaves, Connect(s) PROVE Wired'
<1> USE DEF nodeVars, masterVars
<1>t. /\ backlog \in Seq(Handles) /\ Len(backlog) \in Nat /\ sequence[s] \in Nat /\ Boxes
      /\ Follows(s)
  BY DEF Inv, Master, SlaveTypes
<1>0. PICK T : inbox \in [Slaves -> Seq(T)] BY <1>t DEF Boxes
<1> DEFINE c == [Nobody EXCEPT !.slave = s, !.from = sequence[s]]
<1>1. /\ pc[s] = "down" /\ backlog' = Append(backlog, c) /\ inbox' = [inbox EXCEPT ![s] = << >>]
      /\ UNCHANGED <<own, serving, live, sequence>>
  BY DEF Connect
<1>2. c \in Handles /\ c.slave = s /\ c.from = sequence[s] BY <1>t DEF Nobody, Handles, Phases
<1> HIDE DEF c
<1>3. /\ Len(backlog') = Len(backlog) + 1 /\ backlog'[Len(backlog) + 1] = c
      /\ \A i \in 1..Len(backlog) : backlog'[i] = backlog[i]
  BY <1>1, <1>2, <1>t
<1>4. ~Served(s) /\ s \notin live /\ inbox[s] = << >> /\ \A i : ~Open(s, i)
  BY <1>1, <1>t DEF Follows, Cut, Open
<1>5. inbox' = inbox BY <1>0, <1>1, <1>4
<1>6. \A t, i : Open(t, i)' => \/ Open(t, i) /\ backlog'[i] = backlog[i]
                               \/ t = s /\ i = Len(backlog) + 1
  BY <1>2, <1>3, <1>t DEF Open
<1>7. \A t : (Served(t)' <=> Served(t)) /\ (Early(t)' <=> Early(t)) BY <1>1 DEF Served, Early
<1>8. ASSUME NEW t \in Slaves PROVE Conn(t)'
  <2>1. Conn(t) BY DEF Wired
  <2>2. \A i, j : Open(t, i)' /\ Open(t, j)' => i = j BY <1>4, <1>6, <2>1 DEF Conn
  <2>3. \A i : Open(t, i)' => ~Served(t)' /\ t \notin live' /\ inbox'[t] = << >>
    BY <1>1, <1>4, <1>5, <1>6, <1>7, <2>1 DEF Conn
  <2>4. own'[t] = 0 => \A i : Open(t, i)' => backlog'[i].from = sequence'[t]
    BY <1>1, <1>2, <1>3, <1>6, <2>1 DEF Conn
  <2>5. /\ Served(t)' => t \notin live'
        /\ Early(t)' => inbox'[t] = << >> /\ (own'[t] = 0 => serving'.from = sequence'[t])
    BY <1>1, <1>5, <1>7, <2>1 DEF Conn
  <2> QED BY <2>2, <2>3, <2>4, <2>5 DEF Conn
<1> QED BY <1>8 DEF Wired

LEMMA ConnOwnWrite ==
  ASSUME Inv, Wired, NEW s \in Slaves, NEW d \in Docs, handle_write_operation(s, d) PROVE Wired'
<1> USE DEF masterVars, joinVars
<1>1. own \in [Slaves -> Nat] /\ sequence \in [Slaves -> Nat] BY DEF Inv, Master, SlaveTypes
<1>2. own[s] \in Nat BY <1>1
<1>3. /\ own' = [own EXCEPT ![s] = own[s] + 1]
      /\ sequence' = [sequence EXCEPT ![s] = FirstSequence + own[s]]
      /\ UNCHANGED <<backlog, serving, live, inbox>>
  BY <1>1 DEF handle_write_operation
<1>4. own'[s] # 0 /\ \A t \in Slaves : t # s => own'[t] = own[t] /\ sequence'[t] = sequence[t]
  BY <1>1, <1>2, <1>3
<1>5. \A t \in Slaves : Calm(t) BY <1>3, <1>4 DEF Calm, Served, Early
<1> QED BY <1>5, ConnCalm DEF Wired

LEMMA WiredInit == ASSUME Init PROVE Wired
<1>1. ASSUME NEW s \in Slaves PROVE Conn(s)
  <2>1. \A i : ~Open(s, i) BY DEF Init, Open
  <2>2. ~Served(s) /\ ~Early(s) BY NobodyIsHandle DEF Init, Served, Early
  <2> QED BY <2>1, <2>2 DEF Conn
<1> QED BY <1>1 DEF Wired

LEMMA WiredNext == ASSUME Inv, Wired, [Next]_vars PROVE Wired'
<1>1. CASE UNCHANGED vars BY <1>1, ConnListener
<1>2. CASE \E h \in Hosts : HostStep(h) BY <1>2, ConnListener, ConnMessages DEF HostStep
<1>3. CASE \/ (\E h \in Hosts, kind \in {"insert", "update", "delete", "drop"}, d \in Docs :
                 HostWrite(h, kind, d))
           \/ (\E n \in 1..Last + 1 : Compact(n))
           \/ ServingFails \/ (\E n \in 1..gone : cleanup_disconnected(n))
  BY <1>3, ConnListener DEF Kinds
<1>4. CASE Serve BY <1>4, ConnAccept, ConnListener, ConnMessages DEF Serve
<1>5. CASE force_sync BY <1>5, ConnMessages
<1>6. CASE \E s \in Slaves :
             \/ promote_to_master(s) \/ (\E d \in Docs : handle_write_operation(s, d))
             \/ remove_slave(s) \/ SlaveStep(s) \/ ConnectionLost(s) \/ SlaveRestart(s)
             \/ (\E k \in 0..MaxWrites : IncrementalFails(s, k))
             \/ (\E D \in SUBSET Docs : FullFails(s, D))
  <2>1. PICK s \in Slaves :
             \/ promote_to_master(s) \/ (\E d \in Docs : handle_write_operation(s, d))
             \/ remove_slave(s) \/ SlaveStep(s) \/ ConnectionLost(s) \/ SlaveRestart(s)
             \/ (\E k \in 0..MaxWrites : IncrementalFails(s, k))
             \/ (\E D \in SUBSET Docs : FullFails(s, D))
    BY <1>6
  <2>2. CASE promote_to_master(s) \/ remove_slave(s) BY <2>2, ConnListener
  <2>3. CASE \E d \in Docs : handle_write_operation(s, d) BY <2>3, ConnOwnWrite
  <2>4. CASE SlaveStep(s) BY <2>4, ConnConnect, ConnReads, ConnGiveUp DEF SlaveStep
  <2>5. CASE \/ ConnectionLost(s) \/ SlaveRestart(s)
             \/ (\E k \in 0..MaxWrites : IncrementalFails(s, k))
             \/ (\E D \in SUBSET Docs : FullFails(s, D))
    BY <2>5, ConnGiveUp
  <2> QED BY <2>1, <2>2, <2>3, <2>4, <2>5
<1> QED BY <1>1, <1>2, <1>3, <1>4, <1>5, <1>6 DEF Next

-----------------------------------------------------------------------------
(* What an entry does to a document. *)
Effect(e, d, x) ==
  IF e.kind = "drop" \/ (d = e.doc /\ e.kind = "delete") \/ (d = e.doc /\ e.kind = "update" /\ x = Absent)
  THEN Absent
  ELSE IF d = e.doc THEN e.sequence ELSE x

LEMMA EffectOf ==
  ASSUME NEW e \in Entries, NEW ds \in [Docs -> Int]
  PROVE  /\ apply_wal_entry(e, ds) \in [Docs -> Int]
         /\ \A d \in Docs : apply_wal_entry(e, ds)[d] = Effect(e, d, ds[d])
<1>1. e.kind \in Kinds /\ e.doc \in Docs /\ e.sequence \in Int BY DEF Entries
<1>2. Absent \in Int BY DEF Absent
<1> DEFINE after == apply_wal_entry(e, ds)
<1>3. CASE e.kind = "insert"
  <2>1. after = [ds EXCEPT ![e.doc] = e.sequence] BY <1>3 DEF apply_wal_entry
  <2> QED BY <1>1, <1>3, <2>1 DEF Effect
<1>4. CASE e.kind = "update"
  <2>1. after = [ds EXCEPT ![e.doc] = IF ds[e.doc] = Absent THEN Absent ELSE e.sequence]
    BY <1>4 DEF apply_wal_entry
  <2> QED BY <1>1, <1>2, <1>4, <2>1 DEF Effect
<1>5. CASE e.kind = "delete"
  <2>1. after = [ds EXCEPT ![e.doc] = Absent] BY <1>5 DEF apply_wal_entry
  <2> QED BY <1>1, <1>2, <1>5, <2>1 DEF Effect
<1>6. CASE e.kind = "drop"
  <2>1. after = [d \in Docs |-> Absent] BY <1>6 DEF apply_wal_entry, NoDocs
  <2> QED BY <1>1, <1>2, <1>6, <2>1 DEF Effect
<1> QED BY <1>1, <1>3, <1>4, <1>5, <1>6 DEF Kinds

(* A chronicle of the master up to an entry: each entry with the documents after it, first  *)
(* those before the first one.  An update is written only of a document that is there.      *)
Wrote(n, past) ==
  /\ past[n].entry \in Entries /\ past[n].entry.sequence = n
  /\ past[n].docs = apply_wal_entry(past[n].entry, past[n - 1].docs)
  /\ past[n].entry.kind = "update" => past[n - 1].docs[past[n].entry.doc] # Absent
Levels(top) == FirstSequence - 1 .. top
Chronicle(past, top) ==
  /\ top \in Nat /\ top >= FirstSequence
  /\ past[FirstSequence - 1].docs = NoDocs
  /\ \A n \in Levels(top) : past[n].docs \in [Docs -> Int]
  /\ \A n \in FirstSequence..top : Wrote(n, past)

(* A document is as it was after entry m; over: it may be there although it was not then. *)
Resembles(x, m, d, over, past) == x = past[m].docs[d] \/ (past[m].docs[d] = Absent /\ over)

(* Each document is as it was at some time from entry n on. *)
Shows(ds, n, over, past, top) ==
  /\ ds \in [Docs -> Int]
  /\ \A d \in Docs : \E m \in Levels(top) : m >= n /\ Resembles(ds[d], m, d, over, past)

(* Weaker claims. *)
LEMMA ShowsLess ==
  ASSUME NEW ds, NEW n \in Int, NEW k \in Int, k <= n, NEW over, NEW past, NEW top \in Nat,
         Shows(ds, n, over, past, top)
  PROVE  Shows(ds, k, over, past, top)
<1>1. \A m \in Levels(top) : m \in Int BY DEF Levels
<1>2. \A d \in Docs : \E m \in Levels(top) : m >= k /\ Resembles(ds[d], m, d, over, past)
  BY <1>1 DEF Shows
<1> QED BY <1>2 DEF Shows

(* An entry brings documents that show what was before it to what was after it, also *)
(* documents that show more.                                                         *)
LEMMA Reenact ==
  ASSUME NEW past, NEW top, Chronicle(past, top), NEW n \in FirstSequence..top, NEW ds, NEW over,
         Shows(ds, n - 1, over, past, top)
  PROVE  Shows(apply_wal_entry(past[n].entry, ds), n, over, past, top)
<1>t. /\ FirstSequence \in Nat /\ top \in Nat /\ n \in Int /\ n \in Levels(top)
      /\ n - 1 \in Levels(top) /\ Levels(top) \subseteq Int
  BY ReplicationAssumption DEF Levels, Chronicle
<1> DEFINE after == apply_wal_entry(past[n].entry, ds)
<1>1. PICK e \in Entries : e = past[n].entry /\ e.sequence = n BY DEF Chronicle, Wrote
<1>2. /\ ds \in [Docs -> Int] /\ past[n].docs \in [Docs -> Int]
      /\ past[n - 1].docs \in [Docs -> Int]
  BY <1>t DEF Shows, Chronicle
<1>3. /\ after \in [Docs -> Int]
      /\ \A d \in Docs : /\ after[d] = Effect(e, d, ds[d])
                         /\ past[n].docs[d] = Effect(e, d, past[n - 1].docs[d])
  BY <1>1, <1>2, EffectOf DEF Chronicle, Wrote
<1>4. e.kind = "update" => past[n - 1].docs[e.doc] # Absent BY <1>1 DEF Chronicle, Wrote
<1> HIDE DEF after
<1>5. ASSUME NEW d \in Docs
      PROVE \E m \in Levels(top) : m >= n /\ Resembles(after[d], m, d, over, past)
  <2>1. PICK m \in Levels(top) : m >= n - 1 /\ Resembles(ds[d], m, d, over, past) BY DEF Shows
  <2>2. m \in Int BY <1>t
  <2>3. CASE after[d] = past[n].docs[d] BY <1>t, <2>3 DEF Resembles
  <2>4. CASE after[d] # past[n].docs[d]
    <3>1. after[d] = Effect(e, d, ds[d]) /\ past[n].docs[d] = Effect(e, d, past[n - 1].docs[d])
      BY <1>3
    <3>2. CASE m = n - 1
      <4>1. ds[d] = past[n - 1].docs[d] \/ (past[n - 1].docs[d] = Absent /\ over)
        BY <2>1, <3>2 DEF Resembles
      <4>2. past[n].docs[d] = Absent /\ over BY <1>4, <2>4, <3>1, <4>1 DEF Effect
      <4> QED BY <1>t, <4>2 DEF Resembles
    <3>3. CASE m # n - 1
      <4>1. m >= n BY <1>t, <2>1, <2>2, <3>3
      <4>2. after[d] = ds[d] BY <1>4, <2>4, <3>1 DEF Effect
      <4> QED BY <2>1, <4>1, <4>2
    <3> QED BY <3>2, <3>3
  <2> QED BY <2>3, <2>4
<1> QED BY <1>3, <1>5 DEF Shows, after

(* A snapshot shows what was when it was taken.  Where there were documents, they may stay. *)
LEMMA Overwritten ==
  ASSUME NEW past, NEW top, Chronicle(past, top), NEW newest \in FirstSequence..top,
         NEW z, z = past[newest].docs, NEW b \in Int, b <= newest,
         NEW ds, NEW n, NEW over, Shows(ds, n, over, past, top)
  PROVE  Shows(Inserted(ds, z), b, over \/ ds # NoDocs, past, top)
<1>t. newest \in Levels(top) /\ newest \in Int BY ReplicationAssumption DEF Levels, Chronicle
<1>1. z \in [Docs -> Int] /\ ds \in [Docs -> Int] BY <1>t DEF Chronicle, Shows
<1> DEFINE r == Inserted(ds, z)
<1>2. r \in [Docs -> Int] /\ \A d \in Docs : r[d] = IF z[d] = Absent THEN ds[d] ELSE z[d]
  BY <1>1 DEF Inserted
<1> HIDE DEF r
<1>3. ASSUME NEW d \in Docs PROVE Resembles(r[d], newest, d, over \/ ds # NoDocs, past)
  <2>1. r[d] = IF z[d] = Absent THEN ds[d] ELSE z[d] BY <1>2
  <2>2. CASE z[d] = Absent /\ ds = NoDocs
    <3>1. ds[d] = Absent BY <2>2 DEF NoDocs
    <3> QED BY <2>1, <2>2, <3>1 DEF Resembles
  <2>3. CASE z[d] # Absent \/ ds # NoDocs BY <2>1, <2>3 DEF Resembles
  <2> QED BY <2>2, <2>3
<1>4. newest >= b BY <1>t
<1> QED BY <1>t, <1>2, <1>3, <1>4 DEF Shows, r

(* Before all of it is there, the documents show no less than before. *)
LEMMA PartlyOverwritten ==
  ASSUME NEW past, NEW top, Chronicle(past, top), NEW newest \in FirstSequence..top,
         NEW z, z = past[newest].docs, NEW n \in Int, n <= newest,
         NEW ds, NEW over, Shows(ds, n, over, past, top),
         NEW part, \A d \in Docs : part[d] \in {z[d], Absent}
  PROVE  Shows(Inserted(ds, part), n, over \/ ds # NoDocs, past, top)
<1>t. newest \in Levels(top) /\ newest \in Int BY ReplicationAssumption DEF Levels, Chronicle
<1>1. z \in [Docs -> Int] /\ ds \in [Docs -> Int] BY <1>t DEF Chronicle, Shows
<1> DEFINE r == Inserted(ds, part)
<1>2. /\ r \in [Docs -> Int]
      /\ \A d \in Docs : r[d] = ds[d] \/ r[d] = z[d]
  BY <1>1 DEF Inserted
<1> HIDE DEF r
<1>3. ASSUME NEW d \in Docs
      PROVE \E m \in Levels(top) : m >= n /\ Resembles(r[d], m, d, over \/ ds # NoDocs, past)
  <2>1. CASE r[d] = z[d]
    <3>1. newest >= n BY <1>t
    <3> QED BY <1>t, <2>1, <3>1 DEF Resembles
  <2>2. CASE r[d] = ds[d]
    <3>1. PICK m \in Levels(top) : m >= n /\ Resembles(ds[d], m, d, over, past) BY DEF Shows
    <3> QED BY <2>2, <3>1 DEF Resembles
  <2> QED BY <1>2, <2>1, <2>2
<1> QED BY <1>2, <1>3 DEF Shows, r

(* There is a least one. *)
LEMMA Least == ASSUME NEW S, S \subseteq Nat, S # {} PROVE \E m \in S : \A y \in S : m <= y
<1>1. IsWellFoundedOn(OpToRel(<, Nat), Nat) BY NatLessThanWellFounded
<1>2. IsWellFoundedOn(OpToRel(<, Nat), S) BY <1>1, IsWellFoundedOnSubset
<1>3. PICK m \in S : \A y \in S : ~(<<y, m>> \in OpToRel(<, Nat)) BY <1>2, WFMin
<1>4. \A y \in S : m \in Nat /\ y \in Nat /\ ~(y < m) BY <1>3 DEF OpToRel
<1> QED BY <1>4

(* The documents after each of k entries. *)
AfterEach(g, es, ds, k) ==
  /\ g = [i \in 0..k |-> g[i]] /\ g[0] = ds
  /\ \A i \in 1..k : g[i] = apply_wal_entry(es[i], g[i - 1])

LEMMA AfterAll == ASSUME NEW es, NEW ds, NEW k \in Nat PROVE \E g : AfterEach(g, es, ds, k)
<1> DEFINE Without == {j \in Nat : ~\E g : AfterEach(g, es, ds, j)}
<1>1. SUFFICES ASSUME Without # {} PROVE FALSE OBVIOUS
<1>2. PICK m \in Without : \A y \in Without : m <= y BY <1>1, Least
<1>3. m # 0
  <2> DEFINE g == [i \in 0..0 |-> ds]
  <2>1. g = [i \in 0..0 |-> g[i]] /\ g[0] = ds OBVIOUS
  <2>2. \A i \in 1..0 : FALSE OBVIOUS
  <2> HIDE DEF g
  <2> QED BY <2>1, <2>2 DEF AfterEach
<1>4. m \in Nat /\ m - 1 \in Nat /\ m - 1 \notin Without BY <1>2, <1>3
<1>5. PICK g : AfterEach(g, es, ds, m - 1) BY <1>4
<1> DEFINE h == [i \in 0..m |-> IF i = m THEN apply_wal_entry(es[m], g[m - 1]) ELSE g[i]]
<1>6. h = [i \in 0..m |-> h[i]] OBVIOUS
<1>7. h[m] = apply_wal_entry(es[m], g[m - 1]) /\ \A i \in 0..m - 1 : h[i] = g[i] BY <1>4
<1> HIDE DEF h
<1>8. h[0] = ds BY <1>4, <1>5, <1>7 DEF AfterEach
<1>9. ASSUME NEW i \in 1..m PROVE h[i] = apply_wal_entry(es[i], h[i - 1])
  <2>1. i - 1 \in 0..m - 1 BY <1>4
  <2>2. CASE i = m BY <1>7, <2>1, <2>2
  <2>3. CASE i # m
    <3>1. i \in 1..m - 1 /\ i \in 0..m - 1 BY <1>4, <2>3
    <3>2. g[i] = apply_wal_entry(es[i], g[i - 1]) BY <1>5, <3>1 DEF AfterEach
    <3> QED BY <1>7, <2>1, <3>1, <3>2
  <2> QED BY <2>2, <2>3
<1>10. AfterEach(h, es, ds, m) BY <1>6, <1>8, <1>9 DEF AfterEach
<1> QED BY <1>10

LEMMA AppliedLast ==
  ASSUME NEW es \in Seq(Entries), NEW ds
  PROVE  \E g : AfterEach(g, es, ds, Len(es)) /\ Applied(es, ds) = g[Len(es)]
<1> DEFINE after == CHOOSE g : g = [i \in 0..Len(es) |-> IF i = 0 THEN ds ELSE apply_wal_entry(es[i], g[i - 1])]
<1>1. Len(es) \in Nat OBVIOUS
<1>2. PICK g : AfterEach(g, es, ds, Len(es)) BY <1>1, AfterAll
<1>3. g = [i \in 0..Len(es) |-> IF i = 0 THEN ds ELSE apply_wal_entry(es[i], g[i - 1])]
  <2> SUFFICES ASSUME NEW i \in 0..Len(es)
               PROVE  g[i] = IF i = 0 THEN ds ELSE apply_wal_entry(es[i], g[i - 1])
    BY <1>2 DEF AfterEach
  <2>1. CASE i = 0 BY <1>2, <2>1 DEF AfterEach
  <2>2. CASE i # 0
    <3>1. i \in 1..Len(es) BY <1>1, <2>2
    <3> QED BY <1>2, <2>2, <3>1 DEF AfterEach
  <2> QED BY <2>1, <2>2
<1>4. after = [i \in 0..Len(es) |-> IF i = 0 THEN ds ELSE apply_wal_entry(es[i], after[i - 1])]
  BY <1>3, Zenon
<1>5. Applied(es, ds) = after[Len(es)] BY DEF Applied
<1> HIDE DEF after
<1>6. after = [i \in 0..Len(es) |-> after[i]] BY <1>4
<1>7. after[0] = ds
  <2>1. 0 \in 0..Len(es) BY <1>1
  <2> QED BY <1>4, <2>1
<1>8. ASSUME NEW i \in 1..Len(es) PROVE after[i] = apply_wal_entry(es[i], after[i - 1])
  <2>1. i \in 0..Len(es) /\ i # 0 BY <1>1
  <2> QED BY <1>4, <2>1
<1>9. AfterEach(after, es, ds, Len(es)) BY <1>6, <1>7, <1>8 DEF AfterEach
<1> QED BY <1>5, <1>9

(* A stretch of the log, from entry f on. *)
StretchFrom(es, f, past, top) ==
  /\ es \in Seq(Entries) /\ f \in FirstSequence..top + 1 /\ f + Len(es) - 1 <= top
  /\ \A i \in 1..Len(es) : es[i] = past[f + i - 1].entry

LEMMA ReenactAll ==
  ASSUME NEW past, NEW top, Chronicle(past, top), NEW f, NEW es, StretchFrom(es, f, past, top),
         NEW ds, NEW over, Shows(ds, f - 1, over, past, top)
  PROVE  Shows(Applied(es, ds), f + Len(es) - 1, over, past, top)
<1>1. /\ FirstSequence \in Nat /\ top \in Nat /\ f \in Nat /\ f >= FirstSequence
      /\ es \in Seq(Entries) /\ Len(es) \in Nat /\ f + Len(es) - 1 <= top
  BY ReplicationAssumption DEF StretchFrom, Chronicle
<1>2. PICK g : AfterEach(g, es, ds, Len(es)) /\ Applied(es, ds) = g[Len(es)] BY <1>1, AppliedLast
<1> DEFINE Without == {k \in 0..Len(es) : ~Shows(g[k], f + k - 1, over, past, top)}
<1>3. Without = {}
  <2>1. SUFFICES ASSUME Without # {} PROVE FALSE OBVIOUS
  <2>2. Without \subseteq Nat BY <1>1
  <2>3. PICK k \in Without : \A y \in Without : k <= y
    <3> HIDE DEF Without
    <3> QED BY <2>1, <2>2, Least
  <2>4. k # 0
    <3>1. f + 0 - 1 = f - 1 /\ g[0] = ds BY <1>1, <1>2 DEF AfterEach
    <3>2. Shows(g[0], f + 0 - 1, over, past, top) BY <3>1
    <3> QED BY <3>2
  <2>5. /\ k \in 1..Len(es) /\ k - 1 \in 0..Len(es) /\ k - 1 \notin Without
        /\ f + k - 1 \in FirstSequence..top /\ f + (k - 1) - 1 = (f + k - 1) - 1
    BY <1>1, <2>3, <2>4
  <2>6. Shows(g[k - 1], (f + k - 1) - 1, over, past, top) BY <2>5
  <2>7. PICK n \in FirstSequence..top : n = f + k - 1 BY <2>5
  <2>8. Shows(apply_wal_entry(past[n].entry, g[k - 1]), n, over, past, top) BY <2>6, <2>7, Reenact
  <2>9. g[k] = apply_wal_entry(past[n].entry, g[k - 1])
    BY <1>2, <2>5, <2>7 DEF AfterEach, StretchFrom
  <2> QED BY <2>3, <2>7, <2>8, <2>9
<1>4. Shows(g[Len(es)], f + Len(es) - 1, over, past, top) BY <1>1, <1>3
<1> QED BY <1>2, <1>4

-----------------------------------------------------------------------------
(* How far messages bring a slave: a stretch of the log begins where the slave is, or   *)
(* with the entry it had last; a snapshot is not older than the slave, and not newer    *)
(* than it says.                                                                        *)
Link(m, a, b, past, top) ==
  \/ m.type = "heartbeat" /\ b = a
  \/ /\ m.type = "incremental" /\ m.entries # << >>
     /\ \E f \in {a, a + 1} : StretchFrom(m.entries, f, past, top) /\ b = f + Len(m.entries) - 1
  \/ /\ m.type = "full" /\ m.header = b /\ b <= m.newest /\ a <= m.newest
     /\ m.newest \in FirstSequence..top /\ m.docs = past[m.newest].docs
Leads(q, lv, past, top) ==
  /\ \A i \in 0..Len(q) : lv[i] \in 0..top
  /\ \A i \in 1..Len(q) : Link(q[i], lv[i - 1], lv[i], past, top)
Brings(q, a, b, past, top) == \E lv : Leads(q, lv, past, top) /\ lv[0] = a /\ lv[Len(q)] = b

LEMMA BringsNone ==
  ASSUME NEW past, NEW top, NEW a \in 0..top PROVE Brings(<< >>, a, a, past, top)
<1> DEFINE lv == [i \in 0..0 |-> a]
<1>1. lv[0] = a /\ \A i \in 0..0 : lv[i] \in 0..top OBVIOUS
<1>2. \A i \in 1..0 : FALSE OBVIOUS
<1> HIDE DEF lv
<1>3. Leads(<< >>, lv, past, top) BY <1>1, <1>2 DEF Leads
<1> QED BY <1>1, <1>3 DEF Brings

LEMMA BringsWithin ==
  ASSUME NEW past, NEW top, NEW T, NEW q \in Seq(T), NEW a, NEW b, Brings(q, a, b, past, top)
  PROVE  a \in 0..top /\ b \in 0..top
<1>1. 0 \in 0..Len(q) /\ Len(q) \in 0..Len(q) OBVIOUS
<1> QED BY <1>1 DEF Brings, Leads

LEMMA BringsAppend ==
  ASSUME NEW past, NEW top, NEW T, NEW q \in Seq(T), NEW a, NEW b, Brings(q, a, b, past, top),
         NEW m, NEW c \in 0..top, Link(m, b, c, past, top), NEW r, Len(r) = Len(q) + 1,
         r[Len(q) + 1] = m, \A i \in 1..Len(q) : r[i] = q[i]
  PROVE  Brings(r, a, c, past, top)
<1>1. PICK lv : Leads(q, lv, past, top) /\ lv[0] = a /\ lv[Len(q)] = b BY DEF Brings
<1>2. PICK k \in Nat : k = Len(q) OBVIOUS
<1> DEFINE lw == [i \in 0..k + 1 |-> IF i = k + 1 THEN c ELSE lv[i]]
<1>3. lw[k + 1] = c /\ (\A i \in 0..k : lw[i] = lv[i]) /\ lw[0] = a /\ lw[k] = b BY <1>1, <1>2
<1> HIDE DEF lw
<1>4. \A i \in 0..k + 1 : lw[i] \in 0..top
  <2>1. \A i \in 0..k + 1 : i = k + 1 \/ i \in 0..k BY <1>2
  <2> QED BY <1>1, <1>2, <1>3, <2>1 DEF Leads
<1>5. ASSUME NEW i \in 1..k + 1 PROVE Link(r[i], lw[i - 1], lw[i], past, top)
  <2>1. CASE i = k + 1
    <3>1. i - 1 = k BY <1>2, <2>1
    <3> QED BY <1>2, <1>3, <2>1, <3>1
  <2>2. CASE i # k + 1
    <3>1. i \in 1..k /\ i \in 0..k /\ i - 1 \in 0..k BY <1>2, <2>2
    <3>2. Link(q[i], lv[i - 1], lv[i], past, top) BY <1>1, <1>2, <3>1 DEF Leads
    <3>3. r[i] = q[i] /\ lw[i] = lv[i] /\ lw[i - 1] = lv[i - 1] BY <1>2, <1>3, <3>1
    <3> QED BY <3>2, <3>3
  <2> QED BY <2>1, <2>2
<1>6. Leads(r, lw, past, top) BY <1>2, <1>4, <1>5 DEF Leads
<1> QED BY <1>2, <1>3, <1>6 DEF Brings

LEMMA BringsTail ==
  ASSUME NEW past, NEW top, NEW T, NEW q \in Seq(T), q # << >>, NEW a, NEW b,
         Brings(q, a, b, past, top)
  PROVE  \E c \in 0..top : Link(q[1], a, c, past, top) /\ Brings(Tail(q), c, b, past, top)
<1>1. PICK lv : Leads(q, lv, past, top) /\ lv[0] = a /\ lv[Len(q)] = b BY DEF Brings
<1>2. PICK r : r = Tail(q) OBVIOUS
<1>3. PICK k \in Nat : k = Len(r) /\ Len(q) = k + 1 BY <1>2
<1>4. \A i \in 1..k : r[i] = q[i + 1] BY <1>2, <1>3
<1> DEFINE lw == [i \in 0..k |-> lv[i + 1]]
<1>5. \A i \in 0..k : lw[i] = lv[i + 1] OBVIOUS
<1> HIDE DEF lw
<1>6. /\ 0 \in 0..k /\ k \in 0..k /\ 0 + 1 = 1 /\ 1 - 1 = 0 /\ 1 \in 1..k + 1 /\ 1 \in 0..k + 1
      /\ \A i \in 0..k : i + 1 \in 0..k + 1
  BY <1>3
<1>7. ASSUME NEW i \in 1..k PROVE Link(r[i], lw[i - 1], lw[i], past, top)
  <2>1. i \in 0..k /\ i - 1 \in 0..k /\ i + 1 \in 1..k + 1 /\ (i + 1) - 1 = i /\ (i - 1) + 1 = i
    BY <1>3
  <2>2. Link(q[i + 1], lv[(i + 1) - 1], lv[i + 1], past, top) BY <1>1, <1>3, <2>1 DEF Leads
  <2>3. lw[i - 1] = lv[i] /\ lw[i] = lv[i + 1] BY <1>5, <2>1
  <2> QED BY <1>4, <2>1, <2>2, <2>3
<1>8. \A i \in 0..k : lw[i] \in 0..top BY <1>1, <1>3, <1>5, <1>6 DEF Leads
<1>9. Leads(r, lw, past, top) BY <1>3, <1>7, <1>8 DEF Leads
<1>10. lw[0] = lv[1] /\ lw[k] = b BY <1>1, <1>3, <1>5, <1>6
<1>11. Brings(r, lv[1], b, past, top) BY <1>3, <1>9, <1>10 DEF Brings
<1>12. Link(q[1], lv[0], lv[1], past, top) /\ lv[1] \in 0..top
  BY <1>1, <1>3, <1>6 DEF Leads
<1> QED BY <1>1, <1>2, <1>11, <1>12

(* A longer chronicle. *)
Longer(next, past, top) == \A n \in Levels(top) : next[n] = past[n]

LEMMA StretchLonger ==
  ASSUME NEW past, NEW next, NEW top \in Nat, Longer(next, past, top), NEW es, NEW f,
         StretchFrom(es, f, past, top)
  PROVE  StretchFrom(es, f, next, top + 1)
<1>1. /\ es \in Seq(Entries) /\ Len(es) \in Nat /\ f \in Int /\ f >= FirstSequence /\ f <= top + 1
      /\ f + Len(es) - 1 <= top /\ FirstSequence \in Nat
  BY ReplicationAssumption DEF StretchFrom
<1>2. ASSUME NEW i \in 1..Len(es) PROVE es[i] = next[f + i - 1].entry
  <2>1. f + i - 1 \in Levels(top) BY <1>1 DEF Levels
  <2> QED BY <2>1 DEF StretchFrom, Longer
<1>3. f \in FirstSequence..(top + 1) + 1 /\ f + Len(es) - 1 <= top + 1 BY <1>1
<1> QED BY <1>1, <1>2, <1>3 DEF StretchFrom

LEMMA LinkLonger ==
  ASSUME NEW past, NEW next, NEW top \in Nat, Longer(next, past, top), NEW m, NEW a, NEW b,
         Link(m, a, b, past, top)
  PROVE  Link(m, a, b, next, top + 1)
<1>1. CASE m.type = "heartbeat" /\ b = a BY <1>1 DEF Link
<1>2. CASE m.type = "incremental"
  <2>1. PICK f \in {a, a + 1} : StretchFrom(m.entries, f, past, top) /\ b = f + Len(m.entries) - 1
    BY <1>2 DEF Link
  <2>2. StretchFrom(m.entries, f, next, top + 1) BY <2>1, StretchLonger
  <2>3. m.entries # << >> BY <1>2 DEF Link
  <2> QED BY <1>2, <2>1, <2>2, <2>3 DEF Link
<1>3. CASE m.type = "full"
  <2>1. /\ m.header = b /\ b <= m.newest /\ a <= m.newest
        /\ m.newest \in FirstSequence..top /\ m.docs = past[m.newest].docs
    BY <1>3 DEF Link
  <2>2. FirstSequence \in Nat BY ReplicationAssumption
  <2>3. m.newest \in FirstSequence..top + 1 /\ m.newest \in Levels(top)
    <3> DEFINE n == m.newest
    <3>1. n \in FirstSequence..top BY <2>1
    <3> HIDE DEF n
    <3>2. n \in FirstSequence..top + 1 /\ n \in Levels(top) BY <2>2, <3>1 DEF Levels
    <3> QED BY <3>2 DEF n
  <2>4. m.docs = next[m.newest].docs BY <2>1, <2>3 DEF Longer
  <2> QED BY <1>3, <2>1, <2>3, <2>4 DEF Link
<1> QED BY <1>1, <1>2, <1>3 DEF Link

LEMMA BringsLonger ==
  ASSUME NEW past, NEW next, NEW top \in Nat, Longer(next, past, top), NEW q, NEW a, NEW b,
         Brings(q, a, b, past, top)
  PROVE  Brings(q, a, b, next, top + 1)
<1>1. PICK lv : Leads(q, lv, past, top) /\ lv[0] = a /\ lv[Len(q)] = b BY DEF Brings
<1>2. \A i \in 0..Len(q) : lv[i] \in 0..top + 1
  <2>1. \A x : x \in 0..top => x \in 0..top + 1 OBVIOUS
  <2> QED BY <1>1, <2>1 DEF Leads
<1>3. \A i \in 1..Len(q) : Link(q[i], lv[i - 1], lv[i], next, top + 1)
  BY <1>1, LinkLonger DEF Leads
<1>4. Leads(q, lv, next, top + 1) BY <1>2, <1>3 DEF Leads
<1> QED BY <1>1, <1>4 DEF Brings

LEMMA ShowsLonger ==
  ASSUME NEW past, NEW next, NEW top \in Nat, Longer(next, past, top), NEW ds, NEW n, NEW over,
         Shows(ds, n, over, past, top)
  PROVE  Shows(ds, n, over, next, top + 1)
<1>1. Levels(top) \subseteq Levels(top + 1) BY ReplicationAssumption DEF Levels
<1>2. ASSUME NEW d \in Docs
      PROVE  \E m \in Levels(top + 1) : m >= n /\ Resembles(ds[d], m, d, over, next)
  <2>1. PICK m \in Levels(top) : m >= n /\ Resembles(ds[d], m, d, over, past) BY DEF Shows
  <2>2. Resembles(ds[d], m, d, over, next) BY <2>1 DEF Resembles, Longer
  <2> QED BY <1>1, <2>1, <2>2
<1> QED BY <1>2 DEF Shows

(* Another entry is written. *)
LEMMA ChronicleGoesOn ==
  ASSUME NEW past, NEW top, Chronicle(past, top), NEW e \in Entries, e.sequence = top + 1,
         e.kind = "update" => past[top].docs[e.doc] # Absent
  PROVE  \E next : /\ Longer(next, past, top) /\ Chronicle(next, top + 1)
                   /\ next[top + 1].entry = e
                   /\ next[top + 1].docs = apply_wal_entry(e, past[top].docs)
<1>t. /\ FirstSequence \in Nat /\ top \in Nat /\ top >= FirstSequence /\ top \in Levels(top)
      /\ FirstSequence - 1 \in Levels(top) /\ top + 1 \notin Levels(top)
      /\ Levels(top + 1) = Levels(top) \cup {top + 1} /\ (top + 1) - 1 = top
  BY ReplicationAssumption DEF Levels, Chronicle
<1> DEFINE z == apply_wal_entry(e, past[top].docs)
           next == [n \in Levels(top + 1) |-> IF n = top + 1 THEN [entry |-> e, docs |-> z] ELSE past[n]]
<1>1. z \in [Docs -> Int] BY <1>t, EffectOf DEF Chronicle
<1> HIDE DEF z
<1>2. Longer(next, past, top) BY <1>t DEF Longer
<1>3. next[top + 1].entry = e /\ next[top + 1].docs = z BY <1>t
<1> HIDE DEF next
<1>4. next[FirstSequence - 1].docs = NoDocs BY <1>2, <1>t DEF Chronicle, Longer
<1>5. ASSUME NEW n \in Levels(top + 1) PROVE next[n].docs \in [Docs -> Int]
  <2>1. CASE n = top + 1 BY <1>1, <1>3, <2>1
  <2>2. CASE n \in Levels(top) BY <1>2, <2>2 DEF Chronicle, Longer
  <2> QED BY <1>t, <2>1, <2>2
<1>6. ASSUME NEW n \in FirstSequence..top + 1 PROVE Wrote(n, next)
  <2>1. CASE n = top + 1
    <3>1. next[n - 1] = past[top] BY <1>2, <1>t, <2>1 DEF Longer
    <3> QED BY <1>3, <2>1, <3>1 DEF Wrote, z
  <2>2. CASE n # top + 1
    <3>1. n \in FirstSequence..top /\ n \in Levels(top) /\ n - 1 \in Levels(top)
      BY <1>t, <2>2 DEF Levels
    <3>2. next[n] = past[n] /\ next[n - 1] = past[n - 1] BY <1>2, <3>1 DEF Longer
    <3>3. Wrote(n, past) BY <3>1 DEF Chronicle
    <3> QED BY <3>2, <3>3 DEF Wrote
  <2> QED BY <2>1, <2>2
<1>7. Chronicle(next, top + 1) BY <1>4, <1>5, <1>6, <1>t DEF Chronicle
<1> QED BY <1>2, <1>3, <1>7 DEF z

-----------------------------------------------------------------------------
(* The number that a broadcast is about is the counter's. *)
Current ==
  /\ current_sequence \in {Last - 1, Last}
  /\ (\A h \in Hosts : host[h].do # "update") => current_sequence = Last
(* A snapshot reaches as far as every slave with the manager was sent. *)
Headed == serving.phase = "scan" => serving.header >= Sent
History(past) ==
  /\ Chronicle(past, Last) /\ past[Last].docs = docs
  /\ \A n \in FirstSequence..Last : past[n].entry = Logged(n)

Reaches(s, b) == s \in live \/ Synced(s) => b >= Sent
(* The slave shows the master's documents from where it says it is, and its messages bring *)
(* it to where the others are.                                                             *)
Mirror(s, past) ==
  own[s] = 0 =>
    /\ Shows(replica[s], sequence[s], s \in overwrote, past, Last)
    /\ \E b : Brings(inbox[s], sequence[s], b, past, Last) /\ Reaches(s, b)
Mirrors ==
  /\ \E T : replica \in [Slaves -> T]
  /\ Careful => /\ Current /\ Headed
                /\ \E past : History(past) /\ \A s \in Slaves : Mirror(s, past)

LEMMA MirrorsKept ==
  ASSUME Mirrors, UNCHANGED <<discipline, log, docs>>, \E T : replica' \in [Slaves -> T],
         Careful => Current' /\ Headed',
         Careful => \A past : History(past) => \A s \in Slaves : Mirror(s, past) => Mirror(s, past)'
  PROVE  Mirrors'
<1>1. CASE Careful
  <2>1. PICK past : History(past) /\ \A s \in Slaves : Mirror(s, past) BY <1>1 DEF Mirrors
  <2>2. Last' = Last /\ \A n : Logged(n)' = Logged(n) BY DEF Last, Logged
  <2>3. History(past)' BY <2>1, <2>2 DEF History
  <2>4. \A s \in Slaves : Mirror(s, past)' BY <1>1, <2>1
  <2> QED BY <1>1, <2>3, <2>4 DEF Mirrors
<1>2. CASE ~Careful
  <2>1. ~Careful' BY <1>2 DEF Careful
  <2> QED BY <2>1 DEF Mirrors
<1> QED BY <1>1, <1>2

(* A slave that a step leaves alone. *)
LEMMA MirrorKept ==
  ASSUME NEW s, NEW past, Mirror(s, past), UNCHANGED log, own'[s] = 0 => own[s] = 0,
         replica'[s] = replica[s], sequence'[s] = sequence[s], inbox'[s] = inbox[s],
         s \in overwrote' <=> s \in overwrote,
         s \in live' \/ Synced(s)' => Sent' = Sent /\ (s \in live \/ Synced(s))
  PROVE  Mirror(s, past)'
<1>1. Last' = Last BY DEF Last
<1>2. SUFFICES ASSUME own'[s] = 0 PROVE Mirror(s, past)' BY DEF Mirror
<1>3. Shows(replica'[s], sequence'[s], s \in overwrote', past, Last')
  <2>1. (s \in overwrote') = (s \in overwrote) OBVIOUS
  <2> QED BY <1>1, <1>2, <2>1 DEF Mirror
<1>4. PICK b : Brings(inbox[s], sequence[s], b, past, Last) /\ Reaches(s, b) BY <1>2 DEF Mirror
<1>5. Brings(inbox'[s], sequence'[s], b, past, Last') BY <1>1, <1>4
<1>6. Reaches(s, b)' BY <1>4 DEF Reaches
<1> QED BY <1>3, <1>5, <1>6 DEF Mirror

LEMMA LogTypes ==
  ASSUME MasterTypes
  PROVE  /\ FirstSequence \in Nat /\ Last \in Nat /\ Last >= FirstSequence
         /\ \A n \in FirstSequence..Last : Logged(n) \in Entries /\ Logged(n).sequence = n
<1>1. FirstSequence \in Nat /\ Len(log) \in Nat /\ Len(log) > 0 BY ReplicationAssumption DEF MasterTypes
<1>2. Last \in Nat /\ Last >= FirstSequence BY <1>1 DEF Last
<1>3. ASSUME NEW n \in FirstSequence..Last PROVE Logged(n) \in Entries /\ Logged(n).sequence = n
  <2> DEFINE i == n - FirstSequence + 1
  <2>1. i \in 1..Len(log) /\ FirstSequence + i - 1 = n BY <1>1 DEF Last
  <2>2. Logged(n) = log[i] BY DEF Logged
  <2> HIDE DEF i
  <2>3. log[i] \in Entries /\ log[i].sequence = FirstSequence + i - 1 BY <2>1 DEF MasterTypes
  <2> QED BY <2>1, <2>2, <2>3
<1> QED BY <1>1, <1>2, <1>3

(* A write: the chronicle goes on. *)
LEMMA MirrorsWrite ==
  ASSUME Inv, Mirrors, NEW h \in Hosts, NEW kind \in Kinds, NEW d \in Docs, HostWrite(h, kind, d)
  PROVE  Mirrors'
<1> DEFINE e == Entry(Last + 1, kind, d)
           w == [do |-> "update", n |-> Last + 1]
<1>t. /\ log \in Seq(Entries) /\ Len(log) \in Nat /\ MasterTypes
      /\ host \in [Hosts -> [do : {"idle", "update", "broadcast"}, n : Nat]]
  BY DEF Inv, Master, MasterTypes
<1>l. FirstSequence \in Nat /\ Last \in Nat /\ Last >= FirstSequence BY <1>t, LogTypes
<1>1. /\ Careful => \A i \in Hosts : host[i].do = "idle"
      /\ kind = "update" => docs[d] # Absent
      /\ log' = Append(log, e) /\ docs' = apply_wal_entry(e, docs) /\ host' = [host EXCEPT ![h] = w]
      /\ UNCHANGED <<discipline, own, current_sequence, serving, live, inbox, sequence, replica,
                     overwrote>>
  BY DEF HostWrite, nodeVars, joinVars, slaveVars
<1>2. e \in Entries /\ e.sequence = Last + 1 /\ e.kind = kind /\ e.doc = d
  BY <1>l DEF Entry, Entries
<1> HIDE DEF e
<1>3. /\ Len(log') = Len(log) + 1 /\ log'[Len(log) + 1] = e
      /\ \A i \in 1..Len(log) : log'[i] = log[i]
  BY <1>1, <1>2, <1>t
<1>4. Last' = Last + 1 BY <1>3, <1>t, <1>l DEF Last
<1>5. ASSUME NEW n \in FirstSequence..Last PROVE Logged(n)' = Logged(n)
  <2>1. n - FirstSequence + 1 \in 1..Len(log) BY <1>t, <1>l DEF Last
  <2> QED BY <1>3, <2>1 DEF Logged
<1>7. CASE Careful
  <2>1. PICK past : History(past) /\ \A s \in Slaves : Mirror(s, past) BY <1>7 DEF Mirrors
  <2>2. Chronicle(past, Last) /\ past[Last].docs = docs BY <2>1 DEF History
  <2>3. PICK next : /\ Longer(next, past, Last) /\ Chronicle(next, Last + 1)
                    /\ next[Last + 1].entry = e
                    /\ next[Last + 1].docs = apply_wal_entry(e, docs)
    BY <1>1, <1>2, <2>2, ChronicleGoesOn
  <2>4. History(next)'
    <3>1. ASSUME NEW n \in FirstSequence..Last' PROVE next[n].entry = Logged(n)'
      <4>1. CASE n = Last + 1
        <5>1. Logged(n)' = e
          <6>1. n - FirstSequence + 1 = Len(log) + 1 BY <1>t, <1>l, <4>1 DEF Last
          <6> QED BY <1>3, <6>1 DEF Logged
        <5> QED BY <2>3, <4>1, <5>1
      <4>2. CASE n # Last + 1
        <5>1. n \in FirstSequence..Last /\ n \in Levels(Last) BY <1>4, <1>l, <4>2 DEF Levels
        <5>2. Logged(n)' = Logged(n) BY <1>5, <5>1
        <5> QED BY <2>1, <2>3, <5>1, <5>2 DEF History, Longer
      <4> QED BY <4>1, <4>2
    <3> QED BY <1>1, <1>4, <2>3, <3>1 DEF History
  <2>5. Sent = Last /\ Sent' = Last
    <3>1. Sent = Last BY <1>1, <1>7 DEF Sent
    <3>2. host'[h].do = "update" BY <1>1, <1>t
    <3>3. Sent' = Last' - 1 BY <3>2 DEF Sent
    <3> QED BY <1>4, <1>l, <3>1, <3>3
  <2>6. Current'
    <3>1. current_sequence = Last
      <4>1. \A i \in Hosts : host[i].do # "update" BY <1>1, <1>7
      <4> QED BY <1>7, <4>1 DEF Mirrors, Current
    <3>2. host'[h].do = "update" BY <1>1, <1>t
    <3>3. current_sequence' = Last' - 1 BY <1>1, <1>4, <1>l, <3>1
    <3> QED BY <3>2, <3>3 DEF Current
  <2>7. Headed' BY <1>1, <1>7, <2>5 DEF Mirrors, Headed
  <2>8. ASSUME NEW s \in Slaves PROVE Mirror(s, next)'
    <3>1. SUFFICES ASSUME own'[s] = 0 PROVE Mirror(s, next)' BY DEF Mirror
    <3>2. Mirror(s, past) /\ own[s] = 0 BY <1>1, <2>1, <3>1
    <3>3. PICK b : Brings(inbox[s], sequence[s], b, past, Last) /\ Reaches(s, b)
      BY <3>2 DEF Mirror
    <3>4. Shows(replica[s], sequence[s], s \in overwrote, past, Last) BY <3>2 DEF Mirror
    <3>5. Brings(inbox[s], sequence[s], b, next, Last + 1) BY <1>l, <2>3, <3>3, BringsLonger
    <3>6. Shows(replica[s], sequence[s], s \in overwrote, next, Last + 1)
      BY <1>l, <2>3, <3>4, ShowsLonger
    <3>7. Reaches(s, b)' BY <1>1, <2>5, <3>3 DEF Reaches, Synced
    <3> QED BY <1>1, <1>4, <3>5, <3>6, <3>7 DEF Mirror
  <2>9. \E T : replica' \in [Slaves -> T] BY <1>1 DEF Mirrors
  <2> QED BY <2>4, <2>6, <2>7, <2>8, <2>9 DEF Mirrors
<1>8. CASE ~Careful
  <2>1. ~Careful' BY <1>1, <1>8 DEF Careful
  <2> QED BY <1>1, <2>1 DEF Mirrors
<1> QED BY <1>7, <1>8

(* update_sequence: the number is the last one. *)
LEMMA MirrorsUpdate == ASSUME Inv, Mirrors, NEW h \in Hosts, HostUpdate(h) PROVE Mirrors'
<1> DEFINE w == [host[h] EXCEPT !.do = "broadcast"]
<1>t. host \in [Hosts -> [do : {"idle", "update", "broadcast"}, n : Nat]] /\ (Careful => CareTaken)
  BY DEF Inv, Master, MasterTypes
<1>1. /\ host[h].do = "update" /\ current_sequence' = host[h].n /\ host' = [host EXCEPT ![h] = w]
      /\ UNCHANGED <<discipline, own, log, docs, serving, live, inbox, sequence, replica, overwrote>>
  BY DEF HostUpdate, nodeVars, joinVars, slaveVars
<1>2. w.do = "broadcast" /\ w \in [do : {"idle", "update", "broadcast"}, n : Nat]
  <2>1. host[h] \in [do : {"idle", "update", "broadcast"}, n : Nat] BY <1>t
  <2> QED BY <2>1
<1> HIDE DEF w
<1>3. host'[h].do = "broadcast" /\ \A i \in Hosts : i # h => host'[i] = host[i] BY <1>1, <1>2, <1>t
<1>4. Last' = Last BY <1>1 DEF Last
<1>5. Sent' = Sent
  <2>1. ~(\A i \in Hosts : host[i].do = "idle") BY <1>1
  <2>2. ~(\A i \in Hosts : host'[i].do = "idle") BY <1>3
  <2> QED BY <1>4, <2>1, <2>2 DEF Sent
<1>6. Careful => Current' /\ Headed'
  <2>1. Careful => host[h].n = Last BY <1>1, <1>t DEF CareTaken
  <2> QED BY <1>1, <1>4, <1>5, <2>1 DEF Mirrors, Current, Headed
<1>7. \A past : \A s \in Slaves : Mirror(s, past) => Mirror(s, past)'
  <2>1. \A s \in Slaves : Synced(s)' <=> Synced(s) BY <1>1 DEF Synced
  <2> QED BY <1>1, <1>5, <2>1, MirrorKept
<1>8. \E T : replica' \in [Slaves -> T] BY <1>1 DEF Mirrors
<1> QED BY <1>1, <1>6, <1>7, <1>8, MirrorsKept

(* Steps of the listener, of the administrator, and compaction. *)
LEMMA MirrorsListener ==
  ASSUME Inv, Mirrors,
         \/ \E n \in 1..Last + 1 : Compact(n)
         \/ Accept \/ Decide \/ ReadHeader \/ ReceiveAck
         \/ add_slave \/ ServingFails \/ (\E n \in 1..gone : cleanup_disconnected(n))
         \/ (\E s \in Slaves : remove_slave(s) \/ promote_to_master(s)) \/ UNCHANGED vars
  PROVE  Mirrors'
<1> USE DEF nodeVars, masterVars, joinVars, slaveVars, vars
<1>t. /\ serving \in Handles /\ backlog \in Seq(Handles)
      /\ current_sequence \in Nat /\ Last \in Nat /\ MasterTypes
  BY LogTypes DEF Inv, Master, SlaveTypes, MasterTypes
<1>1. UNCHANGED <<discipline, own, log, docs, current_sequence, host, inbox, sequence, replica, overwrote>>
  BY DEF Compact, Accept, Decide, ReadHeader, ReceiveAck, add_slave, ServingFails,
     cleanup_disconnected, remove_slave, promote_to_master
<1>2. Last' = Last /\ Sent' = Sent BY <1>1 DEF Last, Sent
<1>3. /\ serving'.phase = "scan" =>
           \/ serving.phase = "scan" /\ serving'.header = serving.header
           \/ serving'.header = current_sequence
      /\ \A s \in Slaves : s \in live' \/ Synced(s)' => s \in live \/ Synced(s)
  <2>1. CASE Accept
    <3> DEFINE c == backlog[1]
    <3>1. c \in Handles BY <1>t, <2>1 DEF Accept
    <3>2. serving' = [c EXCEPT !.phase = "decide"] /\ UNCHANGED live BY <1>t, <2>1 DEF Accept
    <3> HIDE DEF c
    <3>3. serving'.phase = "decide" BY <3>1, <3>2 DEF Handles
    <3> QED BY <3>2, <3>3 DEF Synced
  <2>2. CASE Decide
    <3> DEFINE p == IF needs_full_sync(serving.from) THEN "header" ELSE "read"
    <3>1. serving' = [serving EXCEPT !.phase = p] /\ UNCHANGED live BY <2>2 DEF Decide, Phase
    <3>2. p \in {"header", "read"} OBVIOUS
    <3> HIDE DEF p
    <3>3. serving'.phase = p BY <1>t, <3>1 DEF Handles
    <3> QED BY <3>1, <3>2, <3>3 DEF Synced
  <2>3. CASE ReadHeader
    <3>1. /\ serving'.phase = "scan" /\ serving'.header = current_sequence /\ UNCHANGED live
      BY <1>t, <2>3 DEF ReadHeader, Handles
    <3> QED BY <3>1 DEF Synced
  <2>4. CASE ReceiveAck
    <3>1. /\ serving.phase = "ack" /\ serving'.phase = "add" /\ serving'.slave = serving.slave
          /\ serving'.gone = serving.gone /\ UNCHANGED live
      BY <1>t, <2>4 DEF ReceiveAck, Phase, Handles
    <3> QED BY <3>1 DEF Synced
  <2>5. CASE add_slave
    <3>1. serving' = Nobody /\ serving.phase = "add" BY <2>5 DEF add_slave
    <3>2. \A s \in live' : s \in live \/ (s = serving.slave /\ ~serving.gone) BY <2>5 DEF add_slave
    <3> QED BY <3>1, <3>2, NobodyIsHandle DEF Synced
  <2>6. CASE ServingFails BY <2>6, NobodyIsHandle DEF ServingFails, Synced
  <2>7. CASE \/ (\E n \in 1..Last + 1 : Compact(n)) \/ (\E n \in 1..gone : cleanup_disconnected(n))
             \/ (\E s \in Slaves : remove_slave(s) \/ promote_to_master(s)) \/ UNCHANGED vars
    <3>1. UNCHANGED serving /\ live' \subseteq live
      BY <2>7 DEF Compact, cleanup_disconnected, remove_slave, promote_to_master
    <3> QED BY <3>1 DEF Synced
  <2> QED BY <2>1, <2>2, <2>3, <2>4, <2>5, <2>6, <2>7
<1>4. Careful => current_sequence >= Sent
  <2>1. SUFFICES ASSUME Careful PROVE current_sequence >= Sent OBVIOUS
  <2>2. CASE \A i \in Hosts : host[i].do = "idle"
    <3>1. \A i \in Hosts : host[i].do # "update" BY <2>2
    <3>2. current_sequence = Last /\ Sent = Last BY <2>1, <2>2, <3>1 DEF Mirrors, Current, Sent
    <3> QED BY <1>t, <3>2
  <2>3. CASE ~\A i \in Hosts : host[i].do = "idle"
    <3>1. current_sequence \in {Last - 1, Last} /\ Sent = Last - 1
      BY <2>1, <2>3 DEF Mirrors, Current, Sent
    <3> QED BY <1>t, <3>1
  <2> QED BY <2>2, <2>3
<1>5. Careful => Current' /\ Headed'
  <2>1. Careful => Current' BY <1>1, <1>2 DEF Mirrors, Current
  <2>2. Careful => Headed' BY <1>2, <1>3, <1>4 DEF Mirrors, Headed
  <2> QED BY <2>1, <2>2
<1>6. \A past : \A s \in Slaves : Mirror(s, past) => Mirror(s, past)'
  BY <1>1, <1>2, <1>3, MirrorKept
<1>7. \E T : replica' \in [Slaves -> T] BY <1>1 DEF Mirrors
<1> QED BY <1>1, <1>5, <1>6, <1>7, MirrorsKept

(* Connecting, and a write on a promoted slave. *)
LEMMA MirrorsConnect == ASSUME Inv, Mirrors, NEW s \in Slaves, Connect(s) PROVE Mirrors'
<1> USE DEF nodeVars, masterVars
<1>0. Boxes /\ Follows(s) BY DEF Inv
<1>t. PICK T : inbox \in [Slaves -> Seq(T)] BY <1>0 DEF Boxes
<1>1. /\ pc[s] = "down" /\ inbox' = [inbox EXCEPT ![s] = << >>]
      /\ UNCHANGED <<discipline, own, log, docs, current_sequence, host, serving, live, sequence,
                     replica, overwrote>>
  BY DEF Connect
<1>2. inbox[s] = << >> BY <1>0, <1>1 DEF Follows, Cut
<1>3. inbox' = inbox BY <1>1, <1>2, <1>t
<1>4. Last' = Last /\ Sent' = Sent BY <1>1 DEF Last, Sent
<1>5. Careful => Current' /\ Headed' BY <1>1, <1>4 DEF Mirrors, Current, Headed
<1>6. \A past : \A t \in Slaves : Mirror(t, past) => Mirror(t, past)'
  <2>1. \A t \in Slaves : Synced(t)' <=> Synced(t) BY <1>1 DEF Synced
  <2> QED BY <1>1, <1>3, <1>4, <2>1, MirrorKept
<1>7. \E V : replica' \in [Slaves -> V] BY <1>1 DEF Mirrors
<1> QED BY <1>1, <1>5, <1>6, <1>7, MirrorsKept

LEMMA MirrorsOwnWrite ==
  ASSUME Inv, Mirrors, NEW s \in Slaves, NEW d \in Docs, handle_write_operation(s, d) PROVE Mirrors'
<1> USE DEF masterVars, joinVars
<1>t. own \in [Slaves -> Nat] /\ sequence \in [Slaves -> Nat] BY DEF Inv, Master, SlaveTypes
<1>0. PICK T : replica \in [Slaves -> T] BY DEF Mirrors
<1> DEFINE r == [replica[s] EXCEPT ![d] = Absent - 1 - own[s]]
<1>1. /\ own' = [own EXCEPT ![s] = own[s] + 1]
      /\ sequence' = [sequence EXCEPT ![s] = FirstSequence + own[s]]
      /\ replica' = [replica EXCEPT ![s] = r]
      /\ UNCHANGED <<discipline, log, docs, current_sequence, host, serving, live, inbox, overwrote>>
  BY <1>t DEF handle_write_operation
<1> HIDE DEF r
<1>2. own[s] \in Nat BY <1>t
<1>3. /\ own'[s] # 0
      /\ \A t \in Slaves : t # s => /\ own'[t] = own[t] /\ sequence'[t] = sequence[t]
                                    /\ replica'[t] = replica[t]
  BY <1>0, <1>1, <1>2, <1>t
<1>4. Last' = Last /\ Sent' = Sent BY <1>1 DEF Last, Sent
<1>5. Careful => Current' /\ Headed' BY <1>1, <1>4 DEF Mirrors, Current, Headed
<1>6. ASSUME NEW past, NEW t \in Slaves, Mirror(t, past) PROVE Mirror(t, past)'
  <2>1. CASE t = s BY <1>3, <2>1 DEF Mirror
  <2>2. CASE t # s
    <3>1. Synced(t)' <=> Synced(t) BY <1>1 DEF Synced
    <3> QED BY <1>1, <1>3, <1>4, <1>6, <2>2, <3>1, MirrorKept
  <2> QED BY <2>1, <2>2
<1>7. \E V : replica' \in [Slaves -> V]
  <2>1. replica' \in [Slaves -> T \cup {r}] BY <1>0, <1>1
  <2> QED BY <2>1
<1> QED BY <1>1, <1>5, <1>6, <1>7, MirrorsKept

(* What is sent to a slave brings it to the last entry that is sent, and leaves the others. *)
LEMMA MirrorSent ==
  ASSUME Inv, NEW s \in Slaves, NEW past, Mirror(s, past), NEW m, NEW c \in 0..Last,
         inbox'[s] = Append(inbox[s], m),
         own[s] = 0 => \A b : Brings(inbox[s], sequence[s], b, past, Last) /\ Reaches(s, b) =>
                         Link(m, b, c, past, Last),
         s \in live' \/ Synced(s)' => c >= Sent',
         UNCHANGED <<log, own, replica, sequence, overwrote>>
  PROVE  Mirror(s, past)'
<1>1. Last' = Last BY DEF Last
<1>2. SUFFICES ASSUME own[s] = 0 PROVE Mirror(s, past)' BY DEF Mirror
<1>3. Shows(replica'[s], sequence'[s], s \in overwrote', past, Last') BY <1>1, <1>2 DEF Mirror
<1>4. PICK b : Brings(inbox[s], sequence[s], b, past, Last) /\ Reaches(s, b) BY <1>2 DEF Mirror
<1>5. Link(m, b, c, past, Last) BY <1>2, <1>4
<1>6. PICK T : inbox \in [Slaves -> Seq(T)] BY DEF Inv, Boxes
<1>7. PICK q \in Seq(T) : q = inbox[s] BY <1>6
<1>8. PICK r : r = Append(q, m) OBVIOUS
<1>9. q \in Seq(T \cup {m}) BY <1>7
<1>10. Len(r) = Len(q) + 1 /\ r[Len(q) + 1] = m /\ \A i \in 1..Len(q) : r[i] = q[i]
  BY <1>8, <1>9
<1>11. Brings(r, sequence[s], c, past, Last) BY <1>4, <1>5, <1>7, <1>10, BringsAppend
<1>12. Brings(inbox'[s], sequence'[s], c, past, Last') BY <1>1, <1>7, <1>8, <1>11
<1>13. Reaches(s, c)' BY DEF Reaches
<1> QED BY <1>3, <1>12, <1>13 DEF Mirror

LEMMA BringsNothing ==
  ASSUME NEW past, NEW top, NEW a, NEW b, Brings(<< >>, a, b, past, top) PROVE a = b
BY DEF Brings

(* broadcast_wal_entry: the entry of the one write under way, which is the last. *)
LEMMA MirrorsEntry == ASSUME Inv, Mirrors, NEW h \in Hosts, broadcast_wal_entry(h) PROVE Mirrors'
<1>t. /\ host \in [Hosts -> [do : {"idle", "update", "broadcast"}, n : Nat]] /\ MasterTypes
      /\ (Careful => CareTaken) /\ Boxes
  BY DEF Inv, Master, MasterTypes
<1>l. FirstSequence \in Nat /\ Last \in Nat /\ Last >= FirstSequence BY <1>t, LogTypes
<1>0. PICK T : inbox \in [Slaves -> Seq(T)] BY <1>t DEF Boxes
<1> DEFINE m == Incremental(<<Logged(host[h].n)>>)
<1>1. /\ host[h].do = "broadcast" /\ serving = Nobody /\ Broadcast(m)
      /\ host' = [host EXCEPT ![h] = Resting]
      /\ UNCHANGED <<discipline, own, log, docs, current_sequence, serving, live, sequence,
                     replica, overwrote>>
  BY DEF broadcast_wal_entry, nodeVars, joinVars, Unlocked
<1>2. m.type = "incremental" /\ m.entries = <<Logged(host[h].n)>> BY DEF Incremental
<1> HIDE DEF m
<1>3. Last' = Last BY <1>1 DEF Last
<1>4. Careful => /\ host[h].n = Last /\ (\A i \in Hosts : i # h => host[i].do = "idle")
  BY <1>1, <1>t DEF CareTaken
<1>5. Resting.do = "idle" BY DEF Resting
<1>6. Careful => Sent = Last - 1 /\ Sent' = Last /\ \A i \in Hosts : host[i].do # "update"
  <2>1. \A i \in Hosts : host'[i] = IF i = h THEN Resting ELSE host[i] BY <1>1, <1>t
  <2>2. Careful => \A i \in Hosts : host'[i].do = "idle" BY <1>4, <1>5, <2>1
  <2>3. Careful => Sent' = Last BY <1>3, <2>2 DEF Sent
  <2>4. Sent = Last - 1 BY <1>1 DEF Sent
  <2> QED BY <1>1, <1>4, <2>3, <2>4
<1>7. Careful => Current' /\ Headed'
  <2>1. Careful => current_sequence = Last BY <1>6 DEF Mirrors, Current
  <2>2. Careful => Current' BY <1>1, <1>3, <2>1 DEF Current
  <2>3. Headed' BY <1>1, NobodyIsHandle DEF Headed
  <2> QED BY <2>2, <2>3
<1>8. ASSUME Careful, NEW past, History(past), NEW s \in Slaves, Mirror(s, past)
      PROVE  Mirror(s, past)'
  <2>1. ~Synced(s)' BY <1>1, NobodyIsHandle DEF Synced
  <2>2. CASE s \notin live
    <3>1. inbox'[s] = inbox[s] /\ s \notin live' BY <1>1, <2>2 DEF Broadcast
    <3> QED BY <1>1, <1>8, <2>1, <3>1, MirrorKept
  <2>3. CASE s \in live
    <3>1. inbox'[s] = Append(inbox[s], m) BY <1>1, <2>3 DEF Broadcast
    <3>2. ASSUME NEW b, Brings(inbox[s], sequence[s], b, past, Last), Reaches(s, b)
          PROVE  Link(m, b, Last, past, Last)
      <4>1. PICK e : e = Logged(Last) OBVIOUS
      <4>2. e \in Entries /\ past[Last].entry = e
        <5>1. Last \in FirstSequence..Last BY <1>l
        <5> QED BY <1>8, <1>t, <4>1, <5>1, LogTypes DEF History
      <4>3. b \in 0..Last /\ b >= Last - 1
        <5>1. b \in 0..Last BY <1>0, <3>2, BringsWithin
        <5> QED BY <1>6, <1>8, <2>3, <3>2, <5>1 DEF Reaches
      <4>4. m.entries = <<e>> BY <1>2, <1>4, <1>8, <4>1
      <4>5. StretchFrom(<<e>>, Last, past, Last)
        <5>1. <<e>> \in Seq(Entries) /\ Len(<<e>>) = 1 /\ <<e>>[1] = e BY <4>2
        <5>2. Last \in FirstSequence..Last + 1 /\ Last + 1 - 1 = Last BY <1>l
        <5>3. \A i \in 1..1 : i = 1 OBVIOUS
        <5> QED BY <1>l, <4>2, <5>1, <5>2, <5>3 DEF StretchFrom
      <4>6. Last \in {b, b + 1} /\ Last = Last + 1 - 1 BY <1>l, <4>3
      <4>7. Len(<<e>>) = 1 /\ <<e>> # << >> OBVIOUS
      <4> QED BY <1>2, <4>4, <4>5, <4>6, <4>7 DEF Link
    <3>3. Last \in 0..Last /\ Last >= Sent' BY <1>6, <1>8, <1>l
    <3> QED BY <1>1, <1>8, <2>1, <3>1, <3>2, <3>3, MirrorSent
  <2> QED BY <2>2, <2>3
<1>9. \E V : replica' \in [Slaves -> V] BY <1>1 DEF Mirrors
<1> QED BY <1>1, <1>7, <1>8, <1>9, MirrorsKept

LEMMA MirrorsForce == ASSUME Inv, Mirrors, force_sync PROVE Mirrors'
<1>0. PICK T : inbox \in [Slaves -> Seq(T)] BY DEF Inv, Boxes
<1>1. /\ Broadcast(Heartbeat)
      /\ UNCHANGED <<discipline, own, log, docs, current_sequence, host, serving, live, sequence,
                     replica, overwrote>>
  BY DEF force_sync, nodeVars, masterVars, joinVars
<1>2. Heartbeat.type = "heartbeat" BY DEF Heartbeat
<1>3. Last' = Last /\ Sent' = Sent BY <1>1 DEF Last, Sent
<1>4. Careful => Current' /\ Headed' BY <1>1, <1>3 DEF Mirrors, Current, Headed
<1>5. ASSUME NEW past, NEW s \in Slaves, Mirror(s, past) PROVE Mirror(s, past)'
  <2>1. Synced(s)' <=> Synced(s) BY <1>1 DEF Synced
  <2>2. CASE s \notin live
    <3>1. inbox'[s] = inbox[s] BY <1>1, <2>2 DEF Broadcast
    <3> QED BY <1>1, <1>3, <1>5, <2>1, <3>1, MirrorKept
  <2>3. CASE s \in live
    <3>1. SUFFICES ASSUME own[s] = 0 PROVE Mirror(s, past)' BY <1>1 DEF Mirror
    <3>2. inbox'[s] = Append(inbox[s], Heartbeat) BY <1>1, <2>3 DEF Broadcast
    <3>3. PICK b : Brings(inbox[s], sequence[s], b, past, Last) /\ Reaches(s, b)
      BY <1>5, <3>1 DEF Mirror
    <3>4. PICK q \in Seq(T) : q = inbox[s] BY <1>0
    <3>5. PICK r : r = Append(q, Heartbeat) OBVIOUS
    <3>6. q \in Seq(T \cup {Heartbeat}) BY <3>4
    <3>7. Len(r) = Len(q) + 1 /\ r[Len(q) + 1] = Heartbeat /\ \A i \in 1..Len(q) : r[i] = q[i]
      BY <3>5, <3>6
    <3>8. Link(Heartbeat, b, b, past, Last) /\ b \in 0..Last
      <4>1. b \in 0..Last BY <3>3, <3>4, BringsWithin
      <4> QED BY <1>2, <4>1 DEF Link
    <3>9. Brings(r, sequence[s], b, past, Last) BY <3>3, <3>4, <3>7, <3>8, BringsAppend
    <3>10. Brings(inbox'[s], sequence'[s], b, past, Last') BY <1>1, <1>3, <3>2, <3>4, <3>5, <3>9
    <3>11. Reaches(s, b)' BY <1>1, <1>3, <2>1, <3>3 DEF Reaches
    <3>12. Shows(replica'[s], sequence'[s], s \in overwrote', past, Last')
      BY <1>1, <1>3, <1>5, <3>1 DEF Mirror
    <3> QED BY <3>10, <3>11, <3>12 DEF Mirror
  <2> QED BY <2>2, <2>3
<1>6. \E V : replica' \in [Slaves -> V] BY <1>1 DEF Mirrors
<1> QED BY <1>1, <1>4, <1>5, <1>6, MirrorsKept

(* The slave being served has read nothing since it said where it is. *)
LEMMA EarlyStays ==
  ASSUME Wired, NEW s \in Slaves, Early(s), own[s] = 0, NEW past, NEW b,
         Brings(inbox[s], sequence[s], b, past, Last)
  PROVE  serving.from = sequence[s] /\ b = serving.from
<1>1. Conn(s) BY DEF Wired
<1>2. serving.from = sequence[s] /\ inbox[s] = << >> BY <1>1 DEF Conn
<1>3. Brings(<< >>, sequence[s], b, past, Last) BY <1>2
<1> QED BY <1>2, <1>3, BringsNothing

(* perform_full_sync *)
LEMMA MirrorsFull == ASSUME Inv, Wired, Mirrors, perform_full_sync PROVE Mirrors'
<1>t. /\ serving \in Handles /\ MasterTypes /\ (serving.phase = "scan" => serving.header <= Last)
  BY DEF Inv, Master, SlaveTypes
<1>l. FirstSequence \in Nat /\ Last \in Nat /\ Last >= FirstSequence BY <1>t, LogTypes
<1>0. PICK T : inbox \in [Slaves -> Seq(T)] BY DEF Inv, Boxes
<1> DEFINE m == Full(serving.header, docs)
<1>1. /\ serving.phase = "scan" /\ serving' = [serving EXCEPT !.phase = "ack"] /\ Send(m)
      /\ UNCHANGED <<discipline, own, log, docs, current_sequence, host, live, sequence,
                     replica, overwrote>>
  BY DEF perform_full_sync, Phase, nodeVars, masterVars
<1>2. m.type = "full" /\ m.header = serving.header /\ m.docs = docs /\ m.newest = Last BY DEF Full
<1> HIDE DEF m
<1>3. /\ serving'.phase = "ack" /\ serving'.slave = serving.slave /\ serving'.gone = serving.gone
      /\ serving.header \in 0..Last
  <2>1. serving.header \in Nat /\ serving.header <= Last BY <1>1, <1>t DEF Handles
  <2>2. serving.header \in 0..Last BY <1>l, <2>1
  <2> QED BY <1>1, <1>t, <2>2 DEF Handles
<1>4. Last' = Last /\ Sent' = Sent BY <1>1 DEF Last, Sent
<1>5. Careful => Current' /\ Headed' /\ serving.header >= Sent
  BY <1>1, <1>3, <1>4 DEF Mirrors, Current, Headed
<1>6. ASSUME Careful, NEW past, History(past), NEW s \in Slaves, Mirror(s, past)
      PROVE  Mirror(s, past)'
  <2>1. CASE serving.slave = s /\ ~serving.gone
    <3>1. inbox'[s] = Append(inbox[s], m) BY <1>0, <1>1, <2>1 DEF Send
    <3>2. Early(s) BY <1>1, <2>1 DEF Early, Served
    <3>3. ASSUME NEW b, Brings(inbox[s], sequence[s], b, past, Last)
          PROVE  Link(m, b, serving.header, past, Last)
      <4>1. b \in 0..Last BY <1>0, <3>3, BringsWithin
      <4>2. m.docs = past[Last].docs BY <1>2, <1>6 DEF History
      <4>3. b <= Last /\ Last \in FirstSequence..Last /\ serving.header <= Last
        BY <1>3, <1>l, <4>1
      <4> QED BY <1>2, <4>2, <4>3 DEF Link
    <3>4. serving.header >= Sent' BY <1>4, <1>5, <1>6
    <3> QED BY <1>1, <1>3, <1>6, <3>1, <3>3, <3>4, MirrorSent
  <2>2. CASE ~(serving.slave = s /\ ~serving.gone)
    <3>1. inbox'[s] = inbox[s] BY <1>0, <1>1, <2>2 DEF Send
    <3>2. ~Synced(s)' BY <1>3, <2>2 DEF Synced
    <3> QED BY <1>1, <1>4, <1>6, <3>1, <3>2, MirrorKept
  <2> QED BY <2>1, <2>2
<1>7. \E V : replica' \in [Slaves -> V] BY <1>1 DEF Mirrors
<1> QED BY <1>1, <1>5, <1>6, <1>7, MirrorsKept

(* perform_incremental_sync *)
LEMMA MirrorsIncremental ==
  ASSUME Inv, Wired, Mirrors, NEW flushed \in FirstSequence..Last, perform_incremental_sync(flushed)
  PROVE  Mirrors'
<1>t. serving \in Handles /\ MasterTypes /\ (Careful => CareTaken)
  BY DEF Inv, Master, SlaveTypes
<1>l. FirstSequence \in Nat /\ Last \in Nat /\ Last >= FirstSequence BY <1>t, LogTypes
<1>0. PICK T : inbox \in [Slaves -> Seq(T)] BY DEF Inv, Boxes
<1> DEFINE from == serving.from
           es == get_wal_entries_since(from, flushed)
           m == Incremental(es)
           p == IF es = << >> THEN "add" ELSE "ack"
<1>1. /\ Careful => flushed = Last
      /\ serving.phase = "read" /\ serving' = [serving EXCEPT !.phase = p]
      /\ IF es = << >> THEN UNCHANGED inbox ELSE Send(m)
      /\ UNCHANGED <<discipline, own, log, docs, current_sequence, host, live, sequence,
                     replica, overwrote>>
  BY DEF perform_incremental_sync, Phase, nodeVars, masterVars
<1>2. m.type = "incremental" /\ m.entries = es BY DEF Incremental
<1>3. p \in {"ack", "add"} OBVIOUS
<1>f. from \in Nat BY <1>t DEF Handles
<1>4. Careful => /\ from >= min_sequence /\ es \in Seq(Entries)
                 /\ es = << >> => from >= Last
                 /\ es # << >> => from + Len(es) = Last
                 /\ \A i \in 1..Len(es) : es[i] = Logged(from + i)
  <2>1. Careful => from >= min_sequence /\ flushed = Last BY <1>1, <1>t DEF CareTaken
  <2> QED BY <1>f, <1>t, <2>1, StretchOf
<1>5. min_sequence \in Nat /\ min_sequence >= FirstSequence BY <1>t DEF MasterTypes
<1> HIDE DEF m, p, es
<1>6. serving'.phase \in {"ack", "add"} /\ serving'.slave = serving.slave /\ serving'.gone = serving.gone
  BY <1>1, <1>3, <1>t DEF Handles
<1> HIDE DEF from
<1>7. Last' = Last /\ Sent' = Sent BY <1>1 DEF Last, Sent
<1>s. Sent <= Last /\ Sent \in Int BY <1>l DEF Sent
<1>8. Careful => Current' /\ Headed' BY <1>1, <1>6, <1>7 DEF Mirrors, Current, Headed
<1>9. ASSUME Careful, NEW past, History(past), NEW s \in Slaves, Mirror(s, past)
      PROVE  Mirror(s, past)'
  <2>1. CASE ~(serving.slave = s /\ ~serving.gone)
    <3>1. inbox'[s] = inbox[s] BY <1>0, <1>1, <2>1 DEF Send
    <3>2. ~Synced(s)' BY <1>6, <2>1 DEF Synced
    <3> QED BY <1>1, <1>7, <1>9, <3>1, <3>2, MirrorKept
  <2>2. CASE serving.slave = s /\ ~serving.gone /\ es # << >>
    <3>1. inbox'[s] = Append(inbox[s], m) BY <1>0, <1>1, <2>2 DEF Send
    <3>2. Early(s) BY <1>1, <2>2 DEF Early, Served
    <3>3. ASSUME own[s] = 0, NEW b, Brings(inbox[s], sequence[s], b, past, Last)
          PROVE  Link(m, b, Last, past, Last)
      <4>1. b = from BY <3>2, <3>3, EarlyStays DEF from
      <4>2. /\ Len(es) \in Nat /\ es \in Seq(Entries) /\ from >= FirstSequence /\ from + Len(es) = Last
            /\ from \in Int
        BY <1>4, <1>5, <1>9, <1>f, <1>l, <2>2
      <4>3. ASSUME NEW i \in 1..Len(es) PROVE es[i] = past[from + 1 + i - 1].entry
        <5>1. from + i \in FirstSequence..Last /\ from + 1 + i - 1 = from + i BY <1>l, <4>2
        <5>2. es[i] = Logged(from + i) BY <1>4, <1>9
        <5> QED BY <1>9, <5>1, <5>2 DEF History
      <4>4. from + 1 \in FirstSequence..Last + 1 /\ from + 1 + Len(es) - 1 = Last /\ Last <= Last
        BY <1>l, <4>2
      <4>5. StretchFrom(es, from + 1, past, Last) BY <4>2, <4>3, <4>4 DEF StretchFrom
      <4> QED BY <1>2, <2>2, <4>1, <4>4, <4>5 DEF Link
    <3>4. Last \in 0..Last /\ Last >= Sent' BY <1>7, <1>l, <1>s
    <3> QED BY <1>1, <1>9, <3>1, <3>3, <3>4, MirrorSent
  <2>3. CASE serving.slave = s /\ ~serving.gone /\ es = << >>
    <3>1. SUFFICES ASSUME own[s] = 0 PROVE Mirror(s, past)' BY <1>1 DEF Mirror
    <3>2. Early(s) BY <1>1, <2>3 DEF Early, Served
    <3>3. PICK b : Brings(inbox[s], sequence[s], b, past, Last) /\ Reaches(s, b)
      BY <1>9, <3>1 DEF Mirror
    <3>4. b = from BY <3>1, <3>2, <3>3, EarlyStays DEF from
    <3>5. b >= Sent BY <1>4, <1>9, <1>f, <1>l, <1>s, <2>3, <3>4
    <3>6. Reaches(s, b)' BY <1>7, <3>5 DEF Reaches
    <3>7. UNCHANGED inbox BY <1>1, <2>3
    <3>8. Brings(inbox'[s], sequence'[s], b, past, Last') BY <1>1, <1>7, <3>3, <3>7
    <3>9. Shows(replica'[s], sequence'[s], s \in overwrote', past, Last')
      BY <1>1, <1>7, <1>9, <3>1 DEF Mirror
    <3> QED BY <3>6, <3>8, <3>9 DEF Mirror
  <2> QED BY <2>1, <2>2, <2>3
<1>10. \E V : replica' \in [Slaves -> V] BY <1>1 DEF Mirrors
<1> QED BY <1>1, <1>8, <1>9, <1>10, MirrorsKept

(* A step of one slave after which it still has, or has given up, its connection. *)
LEMMA MirrorsTask ==
  ASSUME Inv, Mirrors, NEW s \in Slaves, UNCHANGED <<discipline, log, docs, current_sequence, host>>,
         serving'.slave = serving.slave, serving'.phase = serving.phase,
         serving'.header = serving.header,
         serving.gone => serving'.gone, live' \subseteq live,
         \E T : replica' \in [Slaves -> T],
         \A t \in Slaves : t # s =>
            /\ own'[t] = own[t] /\ replica'[t] = replica[t] /\ sequence'[t] = sequence[t]
            /\ inbox'[t] = inbox[t] /\ (t \in overwrote' <=> t \in overwrote),
         Careful => \A past : History(past) /\ Mirror(s, past) => Mirror(s, past)'
  PROVE  Mirrors'
<1>1. Last' = Last /\ Sent' = Sent BY DEF Last, Sent
<1>2. Careful => Current' /\ Headed' BY <1>1 DEF Mirrors, Current, Headed
<1>3. ASSUME Careful, NEW past, History(past), NEW t \in Slaves, Mirror(t, past)
      PROVE  Mirror(t, past)'
  <2>1. CASE t = s BY <1>3, <2>1
  <2>2. CASE t # s
    <3>1. Synced(t)' => Synced(t) BY DEF Synced
    <3> QED BY <1>1, <1>3, <2>2, <3>1, MirrorKept
  <2> QED BY <2>1, <2>2
<1> QED BY <1>2, <1>3, MirrorsKept

(* A slave that has taken the first message is where that message brings it. *)
LEMMA MirrorTaken ==
  ASSUME Boxes, NEW s \in Slaves, NEW past, Mirror(s, past), inbox[s] # << >>,
         inbox'[s] = Tail(inbox[s]), own'[s] = own[s], UNCHANGED <<log, host, live>>,
         Synced(s)' => Synced(s),
         own[s] = 0 /\ Shows(replica[s], sequence[s], s \in overwrote, past, Last) =>
           \A c \in 0..Last : Link(inbox[s][1], sequence[s], c, past, Last) =>
              sequence'[s] = c /\ Shows(replica'[s], c, s \in overwrote', past, Last)
  PROVE  Mirror(s, past)'
<1>1. Last' = Last /\ Sent' = Sent BY DEF Last, Sent
<1>2. SUFFICES ASSUME own[s] = 0 PROVE Mirror(s, past)' BY DEF Mirror
<1>3. /\ Shows(replica[s], sequence[s], s \in overwrote, past, Last)
      /\ \E b : Brings(inbox[s], sequence[s], b, past, Last) /\ Reaches(s, b)
  BY <1>2 DEF Mirror
<1>4. PICK b : Brings(inbox[s], sequence[s], b, past, Last) /\ Reaches(s, b) BY <1>3
<1>5. PICK T : inbox \in [Slaves -> Seq(T)] BY DEF Boxes
<1>6. PICK q \in Seq(T) : q = inbox[s] BY <1>5
<1>7. PICK c \in 0..Last : Link(q[1], sequence[s], c, past, Last) /\ Brings(Tail(q), c, b, past, Last)
  <2>1. q # << >> /\ Brings(q, sequence[s], b, past, Last) BY <1>4, <1>6
  <2> QED BY <2>1, BringsTail
<1>8. sequence'[s] = c /\ Shows(replica'[s], c, s \in overwrote', past, Last)
  BY <1>2, <1>3, <1>6, <1>7
<1>9. Brings(inbox'[s], sequence'[s], b, past, Last') BY <1>1, <1>6, <1>7, <1>8
<1>10. Reaches(s, b)' BY <1>1, <1>4 DEF Reaches
<1> QED BY <1>1, <1>8, <1>9, <1>10 DEF Mirror

(* What a stretch of the log does to the documents and to the counter. *)
LEMMA StretchTaken ==
  ASSUME NEW past, NEW top, Chronicle(past, top), NEW a \in 0..top, NEW m, NEW c \in 0..top,
         Link(m, a, c, past, top), m.type = "incremental", NEW ds, NEW over,
         Shows(ds, a, over, past, top)
  PROVE  /\ Shows(Applied(m.entries, ds), c, over, past, top)
         /\ (IF last_sequence(m.entries) > 0 THEN last_sequence(m.entries) ELSE a) = c
<1>1. PICK f \in {a, a + 1} : StretchFrom(m.entries, f, past, top) /\ c = f + Len(m.entries) - 1
  BY DEF Link
<1>2. PICK es \in Seq(Entries) : es = m.entries /\ es # << >> BY <1>1 DEF Link, StretchFrom
<1>3. /\ top \in Nat /\ FirstSequence \in Nat /\ f \in Int /\ a \in Nat /\ f - 1 <= a
      /\ f \in FirstSequence..top + 1 /\ Len(es) \in Nat /\ Len(es) >= 1
      /\ c = f + Len(es) - 1 /\ c <= top
  BY <1>1, <1>2, ReplicationAssumption DEF StretchFrom, Chronicle
<1>4. Shows(ds, f - 1, over, past, top) BY <1>3, ShowsLess
<1>5. Shows(Applied(es, ds), c, over, past, top) BY <1>1, <1>2, <1>4, ReenactAll
<1>6. last_sequence(es) = c
  <2>1. Len(es) \in 1..Len(es) /\ c \in FirstSequence..top BY <1>3
  <2>2. es[Len(es)] = past[c].entry BY <1>1, <1>2, <2>1 DEF StretchFrom
  <2>3. past[c].entry.sequence = c BY <2>1 DEF Chronicle, Wrote
  <2> QED BY <2>2, <2>3 DEF last_sequence
<1>7. (IF c > 0 THEN c ELSE a) = c
  <2>1. c >= a BY <1>3
  <2> QED BY <1>3, <2>1
<1> QED BY <1>2, <1>5, <1>6, <1>7

(* A part of it leaves the documents no older than they were. *)
LEMMA StretchPartly ==
  ASSUME NEW past, NEW top, Chronicle(past, top), NEW a \in 0..top, NEW m, NEW c \in 0..top,
         Link(m, a, c, past, top), m.type = "incremental", NEW ds, NEW over,
         Shows(ds, a, over, past, top), NEW k \in Nat, k < Len(m.entries)
  PROVE  Shows(Applied(SubSeq(m.entries, 1, k), ds), a, over, past, top)
<1>1. PICK f \in {a, a + 1} : StretchFrom(m.entries, f, past, top) /\ c = f + Len(m.entries) - 1
  BY DEF Link
<1>2. PICK es \in Seq(Entries) : es = m.entries BY <1>1 DEF StretchFrom
<1>3. /\ top \in Nat /\ FirstSequence \in Nat /\ f \in Int /\ a \in Nat /\ f - 1 <= a /\ a <= top
      /\ f \in FirstSequence..top + 1 /\ Len(es) \in Nat /\ f + Len(es) - 1 <= top /\ k < Len(es)
  BY <1>1, <1>2, ReplicationAssumption DEF StretchFrom, Chronicle
<1> DEFINE part == SubSeq(es, 1, k)
<1>4. part \in Seq(Entries) /\ Len(part) = k /\ \A i \in 1..k : part[i] = es[i]
  <2>1. 1 \in Int /\ k \in Int OBVIOUS
  <2>2. \A i \in 1..k : es[i] \in Entries
    <3>1. \A i \in 1..k : i \in 1..Len(es) BY <1>3
    <3> QED BY <3>1
  <2>3. /\ part \in Seq(Entries) /\ Len(part) = IF 1 <= k THEN k - 1 + 1 ELSE 0
        /\ \A i \in 1..k - 1 + 1 : part[i] = es[1 + i - 1]
    BY <2>1, <2>2, SubSeqProperties
  <2>4. k - 1 + 1 = k /\ \A i \in 1..k : 1 + i - 1 = i OBVIOUS
  <2>5. (IF 1 <= k THEN k - 1 + 1 ELSE 0) = k OBVIOUS
  <2> QED BY <2>3, <2>4, <2>5
<1> HIDE DEF part
<1>5. CASE k = 0
  <2>1. \A i \in 1..0 : FALSE OBVIOUS
  <2>2. PICK g \in Int : g = a + 1 BY <1>3
  <2>3. /\ g \in FirstSequence..top + 1 /\ g + 0 - 1 <= top /\ g - 1 = a /\ g + 0 - 1 = a
    BY <1>3, <2>2
  <2>4. StretchFrom(part, g, past, top) BY <1>4, <1>5, <2>1, <2>3 DEF StretchFrom
  <2>5. Shows(ds, g - 1, over, past, top) BY <2>3
  <2>6. Shows(Applied(part, ds), g + Len(part) - 1, over, past, top) BY <2>4, <2>5, ReenactAll
  <2> QED BY <1>2, <1>4, <1>5, <2>3, <2>6 DEF part
<1>6. CASE k # 0
  <2>1. f + k - 1 <= top /\ f + k - 1 \in Int /\ a <= f + k - 1 BY <1>3, <1>6
  <2>2. \A i \in 1..k : part[i] = past[f + i - 1].entry
    <3>1. \A i \in 1..k : i \in 1..Len(es) BY <1>3
    <3> QED BY <1>1, <1>2, <1>4, <3>1 DEF StretchFrom
  <2>3. StretchFrom(part, f, past, top) BY <1>3, <1>4, <2>1, <2>2 DEF StretchFrom
  <2>4. Shows(ds, f - 1, over, past, top) BY <1>3, ShowsLess
  <2>5. Shows(Applied(part, ds), f + Len(part) - 1, over, past, top) BY <2>3, <2>4, ReenactAll
  <2>6. Shows(Applied(part, ds), f + k - 1, over, past, top) BY <1>4, <2>5
  <2>7. Shows(Applied(part, ds), a, over, past, top) BY <1>3, <2>1, <2>6, ShowsLess
  <2> QED BY <1>2, <2>7 DEF part
<1> QED BY <1>5, <1>6

(* The steps of a slave that read its connection. *)
LEMMA MirrorsReads ==
  ASSUME Inv, Mirrors, NEW s \in Slaves,
         apply_incremental_sync(s) \/ apply_full_sync(s) \/ PassHeartbeat(s)
  PROVE  Mirrors'
<1> USE DEF nodeVars, masterVars, joinVars
<1>t. /\ serving \in Handles /\ sequence \in [Slaves -> Nat] /\ Boxes /\ MasterTypes
  BY DEF Inv, Master, SlaveTypes
<1>0. PICK T : inbox \in [Slaves -> Seq(T)] BY <1>t DEF Boxes
<1>r. PICK R : replica \in [Slaves -> R] BY DEF Mirrors
<1>1. /\ inbox[s] # << >> /\ inbox' = [inbox EXCEPT ![s] = Tail(inbox[s])]
      /\ UNCHANGED <<discipline, own, log, docs, current_sequence, host, live>>
      /\ UNCHANGED serving \/ Acknowledge(s)
  BY <1>0 DEF apply_incremental_sync, apply_full_sync, PassHeartbeat
<1>2. /\ serving'.slave = serving.slave /\ serving'.phase = serving.phase
      /\ serving'.header = serving.header /\ serving'.gone = serving.gone
  BY <1>1, <1>t DEF Acknowledge, Handles
<1>3. inbox'[s] = Tail(inbox[s]) /\ \A t \in Slaves : t # s => inbox'[t] = inbox[t] BY <1>0, <1>1
<1>4. PICK m : m = inbox[s][1] OBVIOUS
<1>5. Head(inbox[s]) = m
  <2>1. inbox[s] \in Seq(T) BY <1>0
  <2> QED BY <1>1, <1>4, <2>1
<1>6. Synced(s)' => Synced(s) BY <1>2 DEF Synced
<1>7. CASE apply_incremental_sync(s)
  <2>1. PICK x : x = Applied(m.entries, replica[s]) OBVIOUS
  <2>2. PICK n : n = IF last_sequence(m.entries) > 0 THEN last_sequence(m.entries) ELSE sequence[s]
    OBVIOUS
  <2>3. /\ m.type = "incremental" /\ replica' = [replica EXCEPT ![s] = x]
        /\ sequence' = [sequence EXCEPT ![s] = n] /\ UNCHANGED overwrote
    BY <1>5, <1>7, <1>r, <1>t, <2>1, <2>2 DEF apply_incremental_sync
  <2>4. /\ replica'[s] = x /\ sequence'[s] = n
        /\ \A t \in Slaves : t # s => replica'[t] = replica[t] /\ sequence'[t] = sequence[t]
    BY <1>r, <1>t, <2>3
  <2>5. ASSUME Careful, NEW past, History(past), Mirror(s, past) PROVE Mirror(s, past)'
    <3>1. ASSUME own[s] = 0, Shows(replica[s], sequence[s], s \in overwrote, past, Last),
                 NEW c \in 0..Last, Link(inbox[s][1], sequence[s], c, past, Last)
          PROVE  sequence'[s] = c /\ Shows(replica'[s], c, s \in overwrote', past, Last)
      <4>1. PICK b : Brings(inbox[s], sequence[s], b, past, Last) BY <2>5, <3>1 DEF Mirror
      <4>2. PICK a \in 0..Last : a = sequence[s] BY <1>0, <4>1, BringsWithin
      <4>3. Chronicle(past, Last) BY <2>5 DEF History
      <4>4. Link(m, a, c, past, Last) /\ Shows(replica[s], a, s \in overwrote, past, Last)
        BY <1>4, <3>1, <4>2
      <4>5. /\ Shows(Applied(m.entries, replica[s]), c, s \in overwrote, past, Last)
            /\ (IF last_sequence(m.entries) > 0 THEN last_sequence(m.entries) ELSE a) = c
        BY <2>3, <4>3, <4>4, StretchTaken
      <4> QED BY <2>1, <2>2, <2>3, <2>4, <4>2, <4>5
    <3> QED BY <1>1, <1>3, <1>6, <1>t, <2>5, <3>1, MirrorTaken
  <2>6. \E V : replica' \in [Slaves -> V]
    <3>1. replica' \in [Slaves -> R \cup {x}] BY <1>r, <2>3
    <3> QED BY <3>1
  <2> QED BY <1>1, <1>2, <1>3, <2>3, <2>4, <2>5, <2>6, MirrorsTask
<1>8. CASE apply_full_sync(s)
  <2>1. PICK x : x = Inserted(replica[s], m.docs) OBVIOUS
  <2>2. PICK n : n = m.header OBVIOUS
  <2>3. /\ m.type = "full" /\ replica' = [replica EXCEPT ![s] = x]
        /\ sequence' = [sequence EXCEPT ![s] = n]
        /\ overwrote' = IF replica[s] # NoDocs THEN overwrote \cup {s} ELSE overwrote
    BY <1>5, <1>8, <1>r, <1>t, <2>1, <2>2 DEF apply_full_sync
  <2>4. /\ replica'[s] = x /\ sequence'[s] = n
        /\ \A t \in Slaves : t # s => replica'[t] = replica[t] /\ sequence'[t] = sequence[t]
    BY <1>r, <1>t, <2>3
  <2>o. /\ (s \in overwrote') = (s \in overwrote \/ replica[s] # NoDocs)
        /\ \A t \in Slaves : t # s => (t \in overwrote' <=> t \in overwrote)
    BY <2>3
  <2>5. ASSUME Careful, NEW past, History(past), Mirror(s, past) PROVE Mirror(s, past)'
    <3>1. ASSUME own[s] = 0, Shows(replica[s], sequence[s], s \in overwrote, past, Last),
                 NEW c \in 0..Last, Link(inbox[s][1], sequence[s], c, past, Last)
          PROVE  sequence'[s] = c /\ Shows(replica'[s], c, s \in overwrote', past, Last)
      <4>1. Chronicle(past, Last) BY <2>5 DEF History
      <4>2. PICK newest \in FirstSequence..Last :
              m.header = c /\ c <= newest /\ m.docs = past[newest].docs
        BY <1>4, <2>3, <3>1 DEF Link
      <4>3. sequence[s] \in Int /\ c \in Int BY <1>t
      <4>4. PICK o : o = (s \in overwrote) OBVIOUS
      <4>5. Shows(replica[s], sequence[s], o, past, Last) BY <3>1, <4>4
      <4>6. PICK z : z = m.docs OBVIOUS
      <4>7. Shows(Inserted(replica[s], z), c, o \/ replica[s] # NoDocs, past, Last)
        BY <4>1, <4>2, <4>3, <4>5, <4>6, Overwritten
      <4> QED BY <2>1, <2>2, <2>4, <2>o, <4>2, <4>4, <4>6, <4>7
    <3> QED BY <1>1, <1>3, <1>6, <1>t, <2>5, <3>1, MirrorTaken
  <2>6. \E V : replica' \in [Slaves -> V]
    <3>1. replica' \in [Slaves -> R \cup {x}] BY <1>r, <2>3
    <3> QED BY <3>1
  <2> QED BY <1>1, <1>2, <1>3, <2>4, <2>5, <2>6, <2>o, MirrorsTask
<1>9. CASE PassHeartbeat(s)
  <2>1. m.type = "heartbeat" /\ UNCHANGED <<sequence, replica, overwrote>>
    BY <1>5, <1>9 DEF PassHeartbeat, Heartbeat
  <2>2. ASSUME Careful, NEW past, History(past), Mirror(s, past) PROVE Mirror(s, past)'
    <3>1. ASSUME own[s] = 0, Shows(replica[s], sequence[s], s \in overwrote, past, Last),
                 NEW c \in 0..Last, Link(inbox[s][1], sequence[s], c, past, Last)
          PROVE  sequence'[s] = c /\ Shows(replica'[s], c, s \in overwrote', past, Last)
      <4>1. c = sequence[s] BY <1>4, <2>1, <3>1 DEF Link
      <4> QED BY <2>1, <3>1, <4>1
    <3> QED BY <1>1, <1>3, <1>6, <1>t, <2>2, <3>1, MirrorTaken
  <2>3. \E V : replica' \in [Slaves -> V] BY <1>r, <2>1
  <2> QED BY <1>1, <1>2, <1>3, <2>1, <2>2, <2>3, MirrorsTask
<1> QED BY <1>7, <1>8, <1>9

(* A slave that gives up keeps what it shows, and nothing is on its way. *)
LEMMA MirrorsGiveUp ==
  ASSUME Inv, Mirrors, NEW s \in Slaves,
         \/ SlaveError(s) \/ ConnectionLost(s) \/ SlaveRestart(s)
         \/ (\E k \in 0..MaxWrites : IncrementalFails(s, k))
         \/ (\E D \in SUBSET Docs : FullFails(s, D))
  PROVE  Mirrors'
<1> USE DEF nodeVars, masterVars
<1>t. /\ SlaveTypes /\ serving \in Handles /\ sequence \in [Slaves -> Nat] /\ Boxes /\ MasterTypes
  BY DEF Inv, Master, SlaveTypes
<1>l. FirstSequence \in Nat /\ Last \in Nat BY <1>t, LogTypes
<1>0. PICK T : inbox \in [Slaves -> Seq(T)] BY <1>t DEF Boxes
<1>r. PICK R : replica \in [Slaves -> R] BY DEF Mirrors
<1>1. GiveUp(s) /\ UNCHANGED <<discipline, own, log, docs, current_sequence, host>>
  BY DEF SlaveError, ConnectionLost, SlaveRestart, IncrementalFails, FullFails
<1>2. /\ serving'.slave = serving.slave /\ serving'.phase = serving.phase
      /\ serving'.header = serving.header /\ serving'.gone = (serving.gone \/ serving.slave = s)
  BY <1>1, <1>t, GaveUp
<1>3. /\ inbox'[s] = << >> /\ live' = live \ {s}
      /\ \A t \in Slaves : t # s => inbox'[t] = inbox[t]
  <2>1. inbox' = [inbox EXCEPT ![s] = << >>] /\ live' = live \ {s} BY <1>1 DEF GiveUp
  <2> QED BY <1>0, <2>1
<1>4. Last' = Last BY <1>1 DEF Last
<1>5. PICK m : m = inbox[s][1] OBVIOUS
<1>6. inbox[s] # << >> => Head(inbox[s]) = m
  <2>1. inbox[s] \in Seq(T) BY <1>0
  <2> QED BY <1>5, <2>1
(* It is enough to show that the documents are no older than the counter says. *)
<1>7. ASSUME NEW past, Mirror(s, past), sequence'[s] \in {0, sequence[s]},
             own[s] = 0 /\ Shows(replica[s], sequence[s], s \in overwrote, past, Last) =>
               Shows(replica'[s], sequence[s], s \in overwrote', past, Last)
      PROVE  Mirror(s, past)'
  <2>1. SUFFICES ASSUME own[s] = 0 PROVE Mirror(s, past)' BY <1>1 DEF Mirror
  <2>2. PICK b : Brings(inbox[s], sequence[s], b, past, Last) BY <1>7, <2>1 DEF Mirror
  <2>3. sequence[s] \in 0..Last BY <1>0, <2>2, BringsWithin
  <2>4. PICK a \in 0..Last : a = sequence'[s] /\ a <= sequence[s] BY <1>7, <1>l, <2>3
  <2>5. Shows(replica'[s], sequence[s], s \in overwrote', past, Last) BY <1>7, <2>1 DEF Mirror
  <2>6. Shows(replica'[s], a, s \in overwrote', past, Last)
    <3>1. PICK n \in Int : n = sequence[s] /\ a \in Int BY <1>t
    <3>2. PICK o : o = (s \in overwrote') OBVIOUS
    <3>3. PICK x : x = replica'[s] OBVIOUS
    <3>4. Shows(x, n, o, past, Last) /\ a <= n BY <2>4, <2>5, <3>1, <3>2, <3>3
    <3>5. Shows(x, a, o, past, Last) BY <1>l, <3>1, <3>4, ShowsLess
    <3> QED BY <3>2, <3>3, <3>5
  <2>7. Brings(<< >>, a, a, past, Last) BY BringsNone
  <2>8. Brings(inbox'[s], sequence'[s], a, past, Last') BY <1>3, <1>4, <2>4, <2>7
  <2>9. Reaches(s, a)' BY <1>2, <1>3 DEF Reaches, Synced
  <2> QED BY <1>4, <2>4, <2>6, <2>8, <2>9 DEF Mirror
<1>8. CASE SlaveError(s) \/ ConnectionLost(s) \/ SlaveRestart(s)
  <2>1. UNCHANGED <<replica, overwrote>> BY <1>8 DEF SlaveError, ConnectionLost, SlaveRestart
  <2>2. sequence' = sequence \/ sequence' = [sequence EXCEPT ![s] = 0]
    BY <1>8 DEF SlaveError, ConnectionLost, SlaveRestart
  <2>3. /\ sequence'[s] \in {0, sequence[s]}
        /\ \A t \in Slaves : t # s => sequence'[t] = sequence[t]
    BY <1>t, <2>2
  <2>4. \A past : Mirror(s, past) => Mirror(s, past)' BY <1>7, <2>1, <2>3
  <2>5. \E V : replica' \in [Slaves -> V] BY <1>r, <2>1
  <2> QED BY <1>1, <1>2, <1>3, <2>1, <2>3, <2>4, <2>5, MirrorsTask
<1>9. CASE \E k \in 0..MaxWrites : IncrementalFails(s, k)
  <2>0. PICK k \in 0..MaxWrites : IncrementalFails(s, k) BY <1>9
  <2>1. PICK x : x = Applied(SubSeq(m.entries, 1, k), replica[s]) OBVIOUS
  <2>2. inbox[s] # << >> BY <2>0 DEF IncrementalFails
  <2>3. /\ m.type = "incremental" /\ k < Len(m.entries) /\ k \in Nat
        /\ replica' = [replica EXCEPT ![s] = x] /\ UNCHANGED <<sequence, overwrote>>
    <3>1. k \in Nat BY ReplicationAssumption
    <3> QED BY <1>6, <1>r, <2>0, <2>1, <2>2, <3>1 DEF IncrementalFails
  <2>4. replica'[s] = x /\ \A t \in Slaves : t # s => replica'[t] = replica[t] BY <1>r, <2>3
  <2>5. ASSUME NEW past, History(past), Mirror(s, past) PROVE Mirror(s, past)'
    <3>1. ASSUME own[s] = 0, Shows(replica[s], sequence[s], s \in overwrote, past, Last)
          PROVE  Shows(replica'[s], sequence[s], s \in overwrote', past, Last)
      <4>1. PICK b : Brings(inbox[s], sequence[s], b, past, Last) BY <2>5, <3>1 DEF Mirror
      <4>2. PICK a \in 0..Last : a = sequence[s] BY <1>0, <4>1, BringsWithin
      <4>3. PICK q \in Seq(T) : q = inbox[s] /\ q # << >> BY <1>0, <2>2
      <4>4. Brings(q, a, b, past, Last) BY <4>1, <4>2, <4>3
      <4>5. PICK c \in 0..Last : Link(q[1], a, c, past, Last) BY <4>3, <4>4, BringsTail
      <4>6. Link(m, a, c, past, Last) /\ Shows(replica[s], a, s \in overwrote, past, Last)
        BY <1>5, <3>1, <4>2, <4>3, <4>5
      <4>7. Chronicle(past, Last) BY <2>5 DEF History
      <4>8. Shows(Applied(SubSeq(m.entries, 1, k), replica[s]), a, s \in overwrote, past, Last)
        BY <2>3, <4>6, <4>7, StretchPartly
      <4> QED BY <2>1, <2>3, <2>4, <4>2, <4>8
    <3>2. sequence'[s] \in {0, sequence[s]} BY <2>3
    <3> QED BY <1>7, <2>5, <3>1, <3>2
  <2>6. \E V : replica' \in [Slaves -> V]
    <3>1. replica' \in [Slaves -> R \cup {x}] BY <1>r, <2>3
    <3> QED BY <3>1
  <2> QED BY <1>1, <1>2, <1>3, <2>3, <2>4, <2>5, <2>6, MirrorsTask
<1>10. CASE \E D \in SUBSET Docs : FullFails(s, D)
  <2>0. PICK D \in SUBSET Docs : FullFails(s, D) BY <1>10
  <2>1. PICK x : x = Inserted(replica[s], [d \in Docs |-> IF d \in D THEN m.docs[d] ELSE Absent])
    OBVIOUS
  <2>2. inbox[s] # << >> BY <2>0 DEF FullFails
  <2>3. /\ m.type = "full" /\ replica' = [replica EXCEPT ![s] = x] /\ UNCHANGED sequence
        /\ overwrote' = IF replica[s] # NoDocs THEN overwrote \cup {s} ELSE overwrote
    BY <1>6, <1>r, <2>0, <2>1, <2>2 DEF FullFails
  <2>4. replica'[s] = x /\ \A t \in Slaves : t # s => replica'[t] = replica[t] BY <1>r, <2>3
  <2>o. /\ (s \in overwrote') = (s \in overwrote \/ replica[s] # NoDocs)
        /\ \A t \in Slaves : t # s => (t \in overwrote' <=> t \in overwrote)
    BY <2>3
  <2>5. ASSUME NEW past, History(past), Mirror(s, past) PROVE Mirror(s, past)'
    <3>1. ASSUME own[s] = 0, Shows(replica[s], sequence[s], s \in overwrote, past, Last)
          PROVE  Shows(replica'[s], sequence[s], s \in overwrote', past, Last)
      <4>1. PICK b : Brings(inbox[s], sequence[s], b, past, Last) BY <2>5, <3>1 DEF Mirror
      <4>2. PICK a \in 0..Last : a = sequence[s] /\ a \in Int BY <1>0, <4>1, BringsWithin
      <4>3. PICK q \in Seq(T) : q = inbox[s] /\ q # << >> BY <1>0, <2>2
      <4>4. Brings(q, a, b, past, Last) BY <4>1, <4>2, <4>3
      <4>5. PICK c \in 0..Last : Link(q[1], a, c, past, Last) BY <4>3, <4>4, BringsTail
      <4>6. PICK newest \in FirstSequence..Last : a <= newest /\ m.docs = past[newest].docs
        BY <1>5, <2>3, <4>3, <4>5 DEF Link
      <4>7. Chronicle(past, Last) BY <2>5 DEF History
      <4>8. PICK o : o = (s \in overwrote) OBVIOUS
      <4>9. Shows(replica[s], a, o, past, Last) BY <3>1, <4>2, <4>8
      <4>10. PICK z : z = m.docs OBVIOUS
      <4>11. PICK part : part = [d \in Docs |-> IF d \in D THEN z[d] ELSE Absent] OBVIOUS
      <4>12. \A d \in Docs : part[d] \in {z[d], Absent} BY <4>11
      <4>13. Shows(Inserted(replica[s], part), a, o \/ replica[s] # NoDocs, past, Last)
        BY <4>2, <4>6, <4>7, <4>9, <4>10, <4>12, PartlyOverwritten
      <4> QED BY <2>1, <2>4, <2>o, <4>2, <4>8, <4>10, <4>11, <4>13
    <3>2. sequence'[s] \in {0, sequence[s]} BY <2>3
    <3> QED BY <1>7, <2>5, <3>1, <3>2
  <2>6. \E V : replica' \in [Slaves -> V]
    <3>1. replica' \in [Slaves -> R \cup {x}] BY <1>r, <2>3
    <3> QED BY <3>1
  <2> QED BY <1>1, <1>2, <1>3, <2>3, <2>4, <2>5, <2>6, <2>o, MirrorsTask
<1> QED BY <1>8, <1>9, <1>10

-----------------------------------------------------------------------------
(* A slave begins with the documents of before the first entry, and says 0. *)
LEMMA MirrorsInit == ASSUME Init, FirstSequence > 0 PROVE Mirrors
<1> DEFINE f == FirstSequence
<1>1. f \in Nat /\ f - 1 \in Nat /\ Docs # {} BY ReplicationAssumption
<1>2. PICK d \in Docs : d = CHOOSE x \in Docs : TRUE BY <1>1
<1>3. PICK e : e = Entry(f, "insert", d) OBVIOUS
<1>4. e \in Entries /\ e.sequence = f /\ e.kind = "insert" BY <1>1, <1>3 DEF Entry, Entries, Kinds
<1>5. Start = <<e>> BY <1>2, <1>3 DEF Start
<1>6. PICK es \in Seq(Entries) : es = <<e>> /\ Len(es) = 1 /\ es[1] = e
  <2>1. <<e>> \in Seq(Entries) /\ Len(<<e>>) = 1 /\ <<e>>[1] = e BY <1>4
  <2> QED BY <2>1
<1>7. log = es /\ docs = Applied(es, NoDocs) BY <1>5, <1>6 DEF Init
<1>8. Last = f /\ Logged(f) = e
  <2>1. Len(log) = 1 /\ log[1] = e BY <1>6, <1>7
  <2>2. f - f + 1 = 1 /\ f + 1 - 1 = f BY <1>1
  <2> QED BY <2>1, <2>2 DEF Last, Logged
<1>9. NoDocs \in [Docs -> Int] BY DEF NoDocs, Absent
<1>10. docs = apply_wal_entry(e, NoDocs)
  <2>1. PICK g : AfterEach(g, es, NoDocs, Len(es)) /\ Applied(es, NoDocs) = g[Len(es)] BY AppliedLast
  <2>2. 1 \in 1..1 /\ 1 - 1 = 0 OBVIOUS
  <2>3. g[1] = apply_wal_entry(es[1], g[1 - 1]) /\ g[0] = NoDocs BY <1>6, <2>1, <2>2 DEF AfterEach
  <2> QED BY <1>6, <1>7, <2>1, <2>2, <2>3
<1>11. docs \in [Docs -> Int] BY <1>4, <1>9, <1>10, EffectOf
<1> DEFINE past == [n \in f - 1..f |-> [entry |-> e, docs |-> IF n = f THEN docs ELSE NoDocs]]
<1>12. /\ past[f].docs = docs /\ past[f].entry = e /\ past[f - 1].docs = NoDocs
       /\ f # f - 1 /\ \A n \in f - 1..f : n = f \/ n = f - 1
  BY <1>1
<1> HIDE DEF past
<1>13. Chronicle(past, f)
  <2>1. \A n \in Levels(f) : past[n].docs \in [Docs -> Int] BY <1>9, <1>11, <1>12 DEF Levels
  <2>2. Wrote(f, past) BY <1>4, <1>10, <1>12 DEF Wrote
  <2>3. \A n \in f..f : n = f BY <1>1
  <2>4. f \in Nat /\ f >= f BY <1>1
  <2> QED BY <1>12, <2>1, <2>2, <2>3, <2>4 DEF Chronicle
<1>14. History(past)
  <2>1. \A n \in f..f : n = f BY <1>1
  <2> QED BY <1>8, <1>12, <1>13, <2>1 DEF History
<1>15. ASSUME NEW s \in Slaves PROVE Mirror(s, past)
  <2>1. /\ replica[s] = NoDocs /\ sequence[s] = 0 /\ inbox[s] = << >> /\ live = {}
        /\ serving = Nobody
    BY DEF Init
  <2>2. Shows(NoDocs, 0, s \in overwrote, past, f)
    <3>1. f - 1 \in Levels(f) /\ f - 1 >= 0 BY <1>1 DEF Levels
    <3>2. \A x \in Docs : Resembles(NoDocs[x], f - 1, x, s \in overwrote, past)
      BY <1>12 DEF Resembles
    <3> QED BY <1>9, <3>1, <3>2 DEF Shows
  <2>3. 0 \in 0..f BY <1>1
  <2>4. Brings(<< >>, 0, 0, past, f) BY <2>3, BringsNone
  <2>5. Reaches(s, 0) BY <2>1, NobodyIsHandle DEF Reaches, Synced
  <2> QED BY <1>8, <2>1, <2>2, <2>4, <2>5 DEF Mirror
<1>16. Current /\ Headed
  <2>1. current_sequence = f /\ serving = Nobody BY DEF Init
  <2> QED BY <1>8, <2>1, NobodyIsHandle DEF Current, Headed
<1>17. \E T : replica \in [Slaves -> T] BY <1>9 DEF Init
<1> QED BY <1>14, <1>15, <1>16, <1>17 DEF Mirrors

LEMMA MirrorsNext == ASSUME Inv, Wired, Mirrors, [Next]_vars PROVE Mirrors'
<1>1. CASE UNCHANGED vars BY <1>1, MirrorsListener
<1>2. CASE \E h \in Hosts : HostStep(h) BY <1>2, MirrorsUpdate, MirrorsEntry DEF HostStep
<1>3. CASE \E h \in Hosts, kind \in {"insert", "update", "delete", "drop"}, d \in Docs :
             HostWrite(h, kind, d)
  BY <1>3, MirrorsWrite DEF Kinds
<1>4. CASE \/ (\E n \in 1..Last + 1 : Compact(n))
           \/ ServingFails \/ (\E n \in 1..gone : cleanup_disconnected(n))
  BY <1>4, MirrorsListener
<1>5. CASE Serve BY <1>5, MirrorsListener, MirrorsFull, MirrorsIncremental DEF Serve
<1>6. CASE force_sync BY <1>6, MirrorsForce
<1>7. CASE \E s \in Slaves :
             \/ promote_to_master(s) \/ (\E d \in Docs : handle_write_operation(s, d))
             \/ remove_slave(s) \/ SlaveStep(s) \/ ConnectionLost(s) \/ SlaveRestart(s)
             \/ (\E k \in 0..MaxWrites : IncrementalFails(s, k))
             \/ (\E D \in SUBSET Docs : FullFails(s, D))
  <2>1. PICK s \in Slaves :
             \/ promote_to_master(s) \/ (\E d \in Docs : handle_write_operation(s, d))
             \/ remove_slave(s) \/ SlaveStep(s) \/ ConnectionLost(s) \/ SlaveRestart(s)
             \/ (\E k \in 0..MaxWrites : IncrementalFails(s, k))
             \/ (\E D \in SUBSET Docs : FullFails(s, D))
    BY <1>7
  <2>2. CASE promote_to_master(s) \/ remove_slave(s) BY <2>2, MirrorsListener
  <2>3. CASE \E d \in Docs : handle_write_operation(s, d) BY <2>3, MirrorsOwnWrite
  <2>4. CASE SlaveStep(s) BY <2>4, MirrorsConnect, MirrorsReads, MirrorsGiveUp DEF SlaveStep
  <2>5. CASE \/ ConnectionLost(s) \/ SlaveRestart(s)
             \/ (\E k \in 0..MaxWrites : IncrementalFails(s, k))
             \/ (\E D \in SUBSET Docs : FullFails(s, D))
    BY <2>5, MirrorsGiveUp
  <2> QED BY <2>1, <2>2, <2>3, <2>4, <2>5
<1> QED BY <1>1, <1>2, <1>3, <1>4, <1>5, <1>6, <1>7 DEF Next

(* What a settled slave shows is the last of the chronicle. *)
LEMMA SettledShows == ASSUME Inv, Mirrors PROVE SettledAgrees
<1>1. SUFFICES ASSUME Careful, NEW s \in Slaves, Settled(s), own[s] = 0, NEW d \in Docs
               PROVE  replica[s][d] = docs[d] \/ (docs[d] = Absent /\ s \in overwrote)
  BY DEF SettledAgrees
<1>2. MasterTypes /\ sequence[s] \in Nat BY DEF Inv, Master, SlaveTypes
<1>l. FirstSequence \in Nat /\ Last \in Nat BY <1>2, LogTypes
<1>3. PICK past : History(past) /\ Mirror(s, past) BY <1>1 DEF Mirrors
<1>4. /\ Shows(replica[s], sequence[s], s \in overwrote, past, Last)
      /\ \E b : Brings(inbox[s], sequence[s], b, past, Last) /\ Reaches(s, b)
  BY <1>1, <1>3 DEF Mirror
<1>5. PICK b : Brings(inbox[s], sequence[s], b, past, Last) /\ Reaches(s, b) BY <1>4
<1>6. s \in live /\ inbox[s] = << >> /\ Sent = Last BY <1>1 DEF Settled, Sent
<1>7. b = sequence[s] BY <1>5, <1>6, BringsNothing
<1>8. sequence[s] >= Last BY <1>5, <1>6, <1>7 DEF Reaches
<1>9. PICK m \in Levels(Last) : m >= sequence[s] /\ Resembles(replica[s][d], m, d, s \in overwrote, past)
  BY <1>4 DEF Shows
<1>10. m = Last BY <1>2, <1>8, <1>9, <1>l DEF Levels
<1> QED BY <1>3, <1>9, <1>10 DEF Resembles, History

(* When nothing is on its way, a slave that follows the stream has the master's documents:  *)
(* under a careful host, whatever connections broke and however it joined, until it takes   *)
(* writes of its own; one that took a snapshot over other documents may have more.  The     *)
(* oldest entry is not entry 0, which a slave that has nothing does not ask for.            *)
THEOREM SettledIsEqual == FirstSequence > 0 /\ Spec => []SettledAgrees
<1>1. FirstSequence > 0 /\ Init => Inv /\ Wired /\ Mirrors BY InvInit, WiredInit, MirrorsInit
<1>2. Inv /\ Wired /\ Mirrors /\ [Next]_vars => (Inv /\ Wired /\ Mirrors)'
  BY InvNext, WiredNext, MirrorsNext
<1>3. Inv /\ Wired /\ Mirrors => SettledAgrees BY SettledShows
<1> QED BY <1>1, <1>2, <1>3, PTL DEF Spec
=============================================================================
