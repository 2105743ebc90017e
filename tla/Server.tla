------------------------------- MODULE Server -------------------------------
(***************************************************************************)
(* The TCP server: ConnectionManager with the users it authenticates and   *)
(* the persistent layer it writes to.  The server registers no schema, so  *)
(* its document commands reach the persistent layer directly.  A task      *)
(* serves one connection; it can be interrupted by other tasks between two *)
(* accesses to the database and wherever it waits for a lock.              *)
(*                                                                         *)
(* The program is built with RocksDB or, as the Dockerfile does, without.  *)
(* Without it the persistent layer and the users are hash maps: an access  *)
(* cannot fail, a deletion is one access, and a restart empties them.      *)
(*                                                                         *)
(* A document is a record with the two fields a filter of the legacy       *)
(* translation looks at.  Filters are equalities on them.                  *)
(***************************************************************************)
EXTENDS Naturals, FiniteSets

CONSTANTS
    Conns,           \* connections a client may open
    Ids,             \* document ids
    Keys,            \* values of the field "key"
    Names,           \* user names
    IndexNames,      \* names of index definitions
    MaxConnections,  \* MAX_CONNECTIONS
    MaxCommands,     \* bound: commands read in a behaviour
    MaxTime,         \* bound: steps of the clock
    MaxRestarts,     \* bound: restarts of the server
    None

\* An absent field never equals the value of a filter.
Documents == [key: Keys \cup {None}, version: {None, 0}]

ASSUME ServerAssumption ==
    /\ MaxConnections \in Nat \ {0}
    /\ "admin" \in Names
    /\ None \notin Keys \cup Ids \cup Names
    /\ None \notin Documents
    /\ IsFiniteSet(Ids)  \* a collection has finitely many documents

VARIABLES
    task,      \* per connection: the task that serves it
    sessions,  \* ConnectionManager.sessions
    sweep,     \* cleanup_expired_sessions: "idle" or "waits" for connections.write
    users,     \* the users column family: name -> role or None
    tokens,    \* tokens handed out: [user, at]
    durable,   \* the build: with the feature rocksdb-storage
    docs,      \* documents of the collection: id -> document or None
    indexes,   \* metadata "indexes:<collection>"
    now,       \* the clock: it advances when a session timeout has passed
    read,      \* number of commands read so far
    restarts,
    met,       \* history: tasks whose last command met another one on documents
    defined,   \* history: acknowledged index definitions, not dropped since
    raced      \* history: those of them that two commands raced for

vars == <<task, sessions, sweep, users, tokens, durable, docs, indexes, now, read, restarts,
          met, defined, raced>>

-----------------------------------------------------------------------------
Roles == {"admin", "read_write", "read_only"}

DocOps == {"InsertDoc", "UpdateDoc", "DeleteDoc", "DropCollection"}

\* Commands of protocol version 2.  A broken filter asks for the key or for a regular
\* expression that does not compile.  The update None is a value that is not an object.
V2 ==
    {[op |-> "Auth", name |-> n, with |-> w] : n \in Names, w \in {"good", "bad", "token"}}
    \cup {[op |-> "InsertDoc", id |-> i, doc |-> d] :
             i \in Ids, d \in {e \in Documents : e.key # None}}
    \cup {[op |-> "Query", filter |-> [key |-> k]] : k \in Keys}
    \cup {[op |-> "DeleteDoc", filter |-> [key |-> k], broken |-> b] : k \in Keys, b \in BOOLEAN}
    \cup {[op |-> "UpdateDoc", filter |-> [key |-> k], broken |-> b, doc |-> d] :
             k \in Keys, b \in BOOLEAN, d \in [key: Keys, version: {None}] \cup {None}}
    \cup {[op |-> o, name |-> n] : o \in {"CreateIndex", "DropIndex"}, n \in IndexNames}
    \cup {[op |-> o, name |-> n, role |-> r] :
             o \in {"CreateUser", "UpdateUserRole"}, n \in Names, r \in {"admin", "guest"}}
    \cup {[op |-> "DeleteUser", name |-> n] : n \in Names}
    \cup {[op |-> o] : o \in {"DropCollection", "Info", "Ping"}}

\* Commands of protocol version 1.
V1 == {[op |-> o, key |-> k] : o \in {"Set", "Get", "Del", "Cas"}, k \in Keys}
      \cup {[op |-> o] : o \in {"Fetch", "Ping", "Auth"}}

\* A SET always inserts, under a new id.
TranslateSet(k, id) ==
    [op |-> "InsertDoc", id |-> id, doc |-> [key |-> k, version |-> None]]

TranslateGet(k) == [op |-> "Query", filter |-> [key |-> k]]

TranslateDel(k) == [op |-> "DeleteDoc", filter |-> [key |-> k], broken |-> FALSE]

\* The version to compare with is looked for in a field "version".  The operators of the
\* update become the new fields, so neither "key" nor "version" is left.
TranslateCas(k) ==
    [op |-> "UpdateDoc", filter |-> [key |-> k, version |-> 0], broken |-> FALSE,
     doc |-> [key |-> None, version |-> None]]

TranslateFetch == [op |-> "Query", filter |-> <<>>]

\* translate_command: what is left of version 1, AUTH among it, is refused.
Translate(cmd, id) ==
    CASE cmd.op = "Set" -> TranslateSet(cmd.key, id)
      [] cmd.op = "Get" -> TranslateGet(cmd.key)
      [] cmd.op = "Del" -> TranslateDel(cmd.key)
      [] cmd.op = "Cas" -> TranslateCas(cmd.key)
      [] cmd.op = "Fetch" -> TranslateFetch
      [] cmd.op = "Ping" -> cmd
      [] OTHER -> [op |-> "Invalid"]

\* QueryExecutor::matches_filter for a conjunction of equalities.
Matches(doc, filter) == \A f \in DOMAIN filter : doc[f] = filter[f]

Present == {i \in Ids : docs[i] # None}

Scan(filter) == {i \in Present : Matches(docs[i], filter)}

Admins == {n \in Names : users[n] = "admin"}

\* Role::from_str(..).unwrap_or(Role::ReadOnly)
FromStr(r) == IF r \in Roles THEN r ELSE "read_only"

Off == [pc |-> "off", pooled |-> FALSE, user |-> None, cmd |-> None, todo |-> {},
        checked |-> None, count |-> 0, found |-> {}, failed |-> {}, spoiled |-> FALSE,
        list |-> {}, answer |-> "none"]

\* A task between two commands.
Idle(c) == [Off EXCEPT !.pc = "loop", !.pooled = task[c].pooled, !.user = task[c].user]

Live == {c \in Conns : task[c].pc # "off"}

-----------------------------------------------------------------------------
\* AuthSystem::initialize makes the default admin when there are no users.
Initialize(u) == IF \A n \in Names : u[n] = None
                 THEN [u EXCEPT !["admin"] = "admin"] ELSE u

Init ==
    /\ task = [c \in Conns |-> Off]
    /\ sessions = {} /\ tokens = {} /\ sweep = "idle"
    /\ users = Initialize([n \in Names |-> None])
    /\ durable \in BOOLEAN
    /\ docs = [i \in Ids |-> None] /\ indexes = {}
    /\ now = 0 /\ read = 0 /\ restarts = 0
    /\ met = {} /\ defined = {} /\ raced = {}

\* connections.read() and .write(): the lock is fair, so nobody passes a waiting writer.
\* Only get_stats keeps it while it waits for another lock.
StatsHold == {c \in Conns : task[c].pc = "stats"}
CanRead == sweep = "idle"
CanWrite == sweep = "idle" /\ StatsHold = {}

Go(c, pc) == task' = [task EXCEPT ![c].pc = pc]

\* The response is ready: what the handler worked on is gone.
Answer(c, a) == task' = [task EXCEPT ![c] = [Idle(c) EXCEPT !.pc = "reply", !.answer = a]]

db == <<docs, indexes>>
auth == <<users, tokens>>
bounds == <<now, read, restarts, durable>>
acked == <<defined, raced>>
history == <<met, acked>>

\* listen and the first half of handle_connection: without a permit the stream is dropped.
Accept(c) ==
    /\ task[c].pc = "off" /\ Cardinality(Live) < MaxConnections
    /\ CanWrite
    /\ task' = [task EXCEPT ![c] = [Off EXCEPT !.pc = "loop", !.pooled = TRUE]]
    /\ UNCHANGED <<sessions, sweep, auth, db, bounds, history>>

\* The head of connection_loop: a connection that is no longer in the pool ends.
Loop(c) ==
    /\ task[c].pc = "loop" /\ CanRead
    /\ Go(c, IF task[c].pooled THEN "read" ELSE "leave")
    /\ UNCHANGED <<sessions, sweep, auth, db, bounds, history>>

\* What a client may send, as process_command sees it: a SET gets an id of its own.
Received == V2 \cup {Translate(v, i) : v \in V1, i \in Ids \ Present}

\* read_command returns a command; process_command first translates it.
Read(c) ==
    /\ task[c].pc = "read" /\ read < MaxCommands
    /\ \E cmd \in Received :
         task' = [task EXCEPT ![c] =
                    [@ EXCEPT !.pc = IF cmd.op = "Invalid" THEN "reply" ELSE "check",
                              !.cmd = cmd,
                              !.answer = IF cmd.op = "Invalid" THEN "error" ELSE "none"]]
    /\ read' = read + 1
    /\ UNCHANGED <<sessions, sweep, auth, db, now, restarts, durable, history>>

\* read_command or write_response fails: the client is gone or 30 seconds are over.
StreamFails(c) ==
    /\ task[c].pc \in {"read", "reply"}
    /\ task' = [task EXCEPT ![c] = [Idle(c) EXCEPT !.pc = "leave"]]
    /\ UNCHANGED <<sessions, sweep, auth, db, bounds, history>>

\* The rest of handle_connection; the permit is dropped with the task.
Leave(c) ==
    /\ task[c].pc = "leave" /\ CanWrite
    /\ task' = [task EXCEPT ![c] = Off]
    /\ UNCHANGED <<sessions, sweep, auth, db, bounds, history>>

Reply(c) ==
    /\ task[c].pc = "reply"
    /\ task' = [task EXCEPT ![c] = Idle(c)]
    /\ UNCHANGED <<sessions, sweep, auth, db, bounds, history>>

\* Mutant: any connection of the pool.
IsAuthenticatedPooled(c) == task[c].pooled

\* is_authenticated looks the connection up in the pool.
IsAuthenticated(c) == task[c].pooled /\ task[c].user # None

\* The tasks in the middle of another command on documents.
Meets(c) == {d \in Conns \ {c} : task[d].pc = "run" /\ task[d].cmd.op \in DocOps}

\* process_command: all commands but AUTH need an authenticated connection.
Check(c) ==
    /\ task[c].pc = "check" /\ CanRead
    /\ IF task[c].cmd.op # "Auth" /\ ~IsAuthenticated(c)
         THEN Answer(c, "auth_required") /\ UNCHANGED met
         ELSE /\ Go(c, "run")
              /\ met' = IF task[c].cmd.op \in DocOps /\ Meets(c) # {}
                        THEN met \cup Meets(c) \cup {c} ELSE met \ {c}
    /\ UNCHANGED <<sessions, sweep, auth, db, bounds, acked>>

Running(c, ops) == task[c].pc = "run" /\ task[c].cmd.op \in ops

\* verify_token, and verify_password up to the hash itself.
Expired(at) == now > at
TokenOk(n) == \E t \in tokens : t.user = n /\ ~Expired(t.at)
PasswordOk(c) == task[c].cmd.with = "good" /\ users[task[c].cmd.name] # None

\* generate_token
Issued(n) == tokens \cup {[user |-> n, at |-> now]}

\* handle_auth, under the lock of the AuthSystem: the password or the token is verified,
\* then the user is looked up.  The token that authenticate makes is thrown away.
HandleAuth(c) ==
    /\ Running(c, {"Auth"})
    /\ LET n == task[c].cmd.name
           ok == \/ PasswordOk(c)
                 \/ task[c].cmd.with = "token" /\ TokenOk(n) /\ users[n] # None
       IN  IF ok THEN Go(c, "login") ELSE Answer(c, "auth_failed")
    /\ UNCHANGED <<sessions, sweep, auth, db, bounds, history>>

\* handle_auth finds the connection and changes its state ...
Login(c) ==
    /\ task[c].pc = "login" /\ CanRead
    /\ IF task[c].pooled
         THEN task' = [task EXCEPT ![c].pc = "store", ![c].user = task[c].cmd.name]
         ELSE Answer(c, "error")
    /\ UNCHANGED <<sessions, sweep, auth, db, bounds, history>>

\* ... and stores a copy of the session, which nothing refreshes.
StoreSession(c) ==
    /\ task[c].pc = "store" /\ sweep = "idle"
    /\ sessions' = sessions \cup {[user |-> task[c].user, at |-> now]}
    /\ tokens' = Issued(task[c].user)
    /\ Answer(c, "ok")
    /\ UNCHANGED <<sweep, users, db, bounds, history>>

\* The user commands hold the lock of the AuthSystem.  A refusal is an answer, too.
CreateUser(c) ==
    /\ Running(c, {"CreateUser"})
    /\ LET n == task[c].cmd.name
       IN  users' = IF users[n] # None THEN users
                    ELSE [users EXCEPT ![n] = FromStr(task[c].cmd.role)]
    /\ Answer(c, "ok")
    /\ UNCHANGED <<sessions, sweep, tokens, db, bounds, history>>

\* delete_user counts the administrators before it deletes one.
LastAdmin(n) == Admins = {n}

DeleteUser(c) ==
    /\ Running(c, {"DeleteUser"})
    /\ LET n == task[c].cmd.name
       IN  users' = IF LastAdmin(n) THEN users ELSE [users EXCEPT ![n] = None]
    /\ Answer(c, "ok")
    /\ UNCHANGED <<sessions, sweep, tokens, db, bounds, history>>

UpdateUserRole(c) ==
    /\ Running(c, {"UpdateUserRole"})
    /\ LET n == task[c].cmd.name
           r == FromStr(task[c].cmd.role)
       IN  users' = IF users[n] = None THEN users ELSE [users EXCEPT ![n] = r]
    /\ Answer(c, "ok")
    /\ UNCHANGED <<sessions, sweep, tokens, db, bounds, history>>

\* INSERT_DOC writes the document under the id it carries, whatever is there.
InsertDoc(c) ==
    /\ Running(c, {"InsertDoc"})
    /\ docs' = [docs EXCEPT ![task[c].cmd.id] = task[c].cmd.doc]
    /\ Answer(c, "ok")
    /\ UNCHANGED <<sessions, sweep, auth, indexes, bounds, history>>

\* PING answers; QUERY answers with one scan.
Query(c) ==
    /\ Running(c, {"Ping", "Query"})
    /\ Answer(c, "ok")
    /\ UNCHANGED <<sessions, sweep, auth, db, bounds, history>>

\* An access to RocksDB fails and ends the command; the loops below go on.
StorageFails(c) ==
    /\ durable
    /\ \/ Running(c, {"InsertDoc", "Query", "DropCollection", "CreateIndex", "DropIndex"})
       \/ Running(c, {"UpdateDoc", "DeleteDoc"}) /\ task[c].answer = "none"
    /\ Answer(c, "error")
    /\ UNCHANGED <<sessions, sweep, auth, db, bounds, history>>

\* UPDATE_DOC, DELETE_DOC and DROP_COLLECTION collect the documents first.  Whether a
\* document that does not match has the field of the broken filter is left open.
ScanFor(c) ==
    /\ Running(c, {"UpdateDoc", "DeleteDoc", "DropCollection"}) /\ task[c].answer = "none"
    /\ task[c].cmd.op = "DropCollection" => durable
    /\ LET drop == task[c].cmd.op = "DropCollection"
           hits == IF drop THEN Present ELSE Scan(task[c].cmd.filter)
       IN  \E spoiled \in {FALSE} \cup {~drop /\ task[c].cmd.broken /\ hits # Present} :
             task' = [task EXCEPT ![c].todo = hits, ![c].found = hits,
                                  ![c].spoiled = spoiled, ![c].answer = "ok"]
    /\ UNCHANGED <<sessions, sweep, auth, db, bounds, history>>

\* matches_filter fails at a document and ends the loop: nothing is undone.
FilterFails(c) ==
    /\ Running(c, {"UpdateDoc", "DeleteDoc"})
    /\ task[c].answer = "ok" /\ task[c].checked = None /\ task[c].spoiled
    /\ Answer(c, "error")
    /\ UNCHANGED <<sessions, sweep, auth, db, bounds, history>>

\* The loop of UPDATE_DOC: update_document overwrites without looking.  An update that is
\* no object is passed over, an error is logged.
UpdateNext(c) ==
    /\ Running(c, {"UpdateDoc"}) /\ task[c].answer = "ok"
    /\ \E i \in task[c].todo :
         \/ /\ task[c].cmd.doc # None
            /\ docs' = [docs EXCEPT ![i] = task[c].cmd.doc]
            /\ task' = [task EXCEPT ![c].todo = @ \ {i}, ![c].count = @ + 1]
         \/ /\ task[c].cmd.doc # None /\ durable
            /\ task' = [task EXCEPT ![c].todo = @ \ {i}, ![c].failed = @ \cup {i}]
            /\ UNCHANGED docs
         \/ /\ task[c].cmd.doc = None
            /\ task' = [task EXCEPT ![c].todo = @ \ {i}]
            /\ UNCHANGED docs
    /\ UNCHANGED <<sessions, sweep, auth, indexes, bounds, history>>

\* Mutant: a document that is there is passed over.
DeleteLookOne(c) ==
    /\ durable /\ Running(c, {"DeleteDoc"}) /\ task[c].answer = "ok" /\ task[c].checked = None
    /\ \E i \in task[c].todo :
         task' = [task EXCEPT ![c].todo = {}, ![c].checked = IF i \in Present THEN i ELSE None]
    /\ UNCHANGED <<sessions, sweep, auth, db, bounds, history>>

\* The loop of DELETE_DOC: delete_document looks whether the document exists ...
DeleteLook(c) ==
    /\ durable /\ Running(c, {"DeleteDoc"}) /\ task[c].answer = "ok" /\ task[c].checked = None
    /\ \E i \in task[c].todo :
         \/ task' = [task EXCEPT ![c].todo = @ \ {i},
                                 ![c].checked = IF i \in Present THEN i ELSE None]
         \/ task' = [task EXCEPT ![c].todo = @ \ {i}, ![c].failed = @ \cup {i}]
    /\ UNCHANGED <<sessions, sweep, auth, db, bounds, history>>

\* ... then deletes it and counts it, or logs an error ...
DeleteNow(c) ==
    /\ Running(c, {"DeleteDoc"}) /\ task[c].checked # None
    /\ \/ /\ docs' = [docs EXCEPT ![task[c].checked] = None]
          /\ task' = [task EXCEPT ![c].checked = None, ![c].count = @ + 1]
       \/ /\ task' = [task EXCEPT ![c].checked = None, ![c].failed = @ \cup {task[c].checked}]
          /\ UNCHANGED docs
    /\ UNCHANGED <<sessions, sweep, auth, indexes, bounds, history>>

\* ... without RocksDB both at once, under the lock of the map.
DeleteAtOnce(c) ==
    /\ ~durable /\ Running(c, {"DeleteDoc"}) /\ task[c].answer = "ok"
    /\ \E i \in task[c].todo :
         /\ docs' = [docs EXCEPT ![i] = None]
         /\ task' = [task EXCEPT ![c].todo = @ \ {i},
                                 ![c].count = IF i \in Present THEN @ + 1 ELSE @]
    /\ UNCHANGED <<sessions, sweep, auth, indexes, bounds, history>>

\* DROP_COLLECTION deletes the keys it collected one after the other ...
DropNext(c) ==
    /\ Running(c, {"DropCollection"}) /\ task[c].answer = "ok"
    /\ \E i \in task[c].todo :
         /\ docs' = [docs EXCEPT ![i] = None]
         /\ task' = [task EXCEPT ![c].todo = @ \ {i}]
    /\ UNCHANGED <<sessions, sweep, auth, indexes, bounds, history>>

\* ... without RocksDB all at once ...
DropAtOnce(c) ==
    /\ ~durable /\ Running(c, {"DropCollection"}) /\ task[c].answer = "none"
    /\ docs' = [i \in Ids |-> None]
    /\ task' = [task EXCEPT ![c].answer = "ok"]
    /\ UNCHANGED <<sessions, sweep, auth, indexes, bounds, history>>

\* ... and at the end the index definitions.
DropIndexes(c) ==
    /\ Running(c, {"DropCollection"}) /\ task[c].answer = "ok" /\ task[c].todo = {}
    /\ indexes' = {} /\ defined' = {} /\ raced' = {}
    /\ Answer(c, "ok")
    /\ UNCHANGED <<sessions, sweep, auth, docs, bounds, met>>

\* The loop is through all documents of the scan.
Through(c) ==
    /\ Running(c, {"UpdateDoc", "DeleteDoc"}) /\ task[c].answer = "ok"
    /\ task[c].todo = {} /\ task[c].checked = None /\ ~task[c].spoiled

Finish(c) ==
    /\ Through(c)
    /\ Answer(c, "ok")
    /\ UNCHANGED <<sessions, sweep, auth, db, bounds, history>>

\* create_index and drop_index read the list of definitions ...
GetIndexes(c) ==
    /\ Running(c, {"CreateIndex", "DropIndex"}) /\ task[c].answer = "none"
    /\ task' = [task EXCEPT ![c].list = indexes, ![c].answer = "ok"]
    /\ UNCHANGED <<sessions, sweep, auth, db, bounds, history>>

\* Another task has read the list and will write it back.
Rewriting(c) == \E d \in Conns \ {c} :
                    Running(d, {"CreateIndex", "DropIndex"}) /\ task[d].answer = "ok"

\* The command is acknowledged.  A definition is raced for when another task is about to
\* write back the list it had, or when it was found in a list that has lost it since.
Acknowledge(c) ==
    LET n == task[c].cmd.name
        race == Rewriting(c) \/ (n \in task[c].list /\ n \notin indexes)
        create == task[c].cmd.op = "CreateIndex"
    IN  /\ defined' = IF create THEN defined \cup {n} ELSE defined \ {n}
        /\ raced' = IF create /\ race THEN raced \cup {n} ELSE raced \ {n}

\* Mutant: the list is replaced by the new definition.
SaveIndexesAlone(c) ==
    /\ Running(c, {"CreateIndex", "DropIndex"}) /\ task[c].answer = "ok"
    /\ indexes' = IF task[c].cmd.op = "CreateIndex" THEN {task[c].cmd.name}
                  ELSE task[c].list \ {task[c].cmd.name}
    /\ Acknowledge(c) /\ Answer(c, "ok")
    /\ UNCHANGED <<sessions, sweep, auth, docs, bounds, met>>

\* ... and write it back if the command changes it.
SaveIndexes(c) ==
    /\ Running(c, {"CreateIndex", "DropIndex"}) /\ task[c].answer = "ok"
    /\ LET n == task[c].cmd.name
           create == task[c].cmd.op = "CreateIndex"
           list == task[c].list
       IN  indexes' = IF create = (n \in list) THEN indexes
                      ELSE IF create THEN list \cup {n} ELSE list \ {n}
    /\ Acknowledge(c) /\ Answer(c, "ok")
    /\ UNCHANGED <<sessions, sweep, auth, docs, bounds, met>>

\* INFO: get_stats takes connections.read(), then waits for sessions.read().
TakeStats(c) ==
    /\ Running(c, {"Info"}) /\ CanRead
    /\ Go(c, "stats")
    /\ UNCHANGED <<sessions, sweep, auth, db, bounds, history>>

\* Mutant: the statistics are stored under connections.write() as well.
GiveStatsUpgrade(c) ==
    /\ task[c].pc = "stats" /\ CanWrite
    /\ Answer(c, "ok")
    /\ UNCHANGED <<sessions, sweep, auth, db, bounds, history>>

GiveStats(c) ==
    /\ task[c].pc = "stats" /\ sweep = "idle"
    /\ Answer(c, "ok")
    /\ UNCHANGED <<sessions, sweep, auth, db, bounds, history>>

\* cleanup_expired_sessions takes sessions.write(), then waits for connections.write().
SweepSessions ==
    /\ sweep = "idle"
    /\ \E s \in sessions : Expired(s.at)
    /\ sweep' = "waits"
    /\ UNCHANGED <<task, sessions, auth, db, bounds, history>>

\* Every connection leaves the pool when one session has expired.
SweepConnections ==
    /\ sweep = "waits" /\ StatsHold = {}
    /\ sessions' = {s \in sessions : ~Expired(s.at)}
    /\ task' = [c \in Conns |-> [task[c] EXCEPT !.pooled = FALSE]]
    /\ sweep' = "idle"
    /\ UNCHANGED <<auth, db, bounds, history>>

Tick ==
    /\ now < MaxTime
    /\ now' = now + 1
    /\ UNCHANGED <<task, sessions, sweep, auth, db, read, restarts, durable, history>>

\* The process ends at any point.  The JWT secret is a constant of the program; what else
\* the next process finds depends on the build.
Restart ==
    /\ restarts < MaxRestarts
    /\ restarts' = restarts + 1
    /\ task' = [c \in Conns |-> Off] /\ sessions' = {} /\ sweep' = "idle"
    /\ IF durable
         THEN users' = Initialize(users) /\ UNCHANGED <<db, acked>>
         ELSE /\ users' = Initialize([n \in Names |-> None])
              /\ docs' = [i \in Ids |-> None] /\ indexes' = {}
              /\ defined' = {} /\ raced' = {}
    /\ UNCHANGED <<tokens, durable, now, read, met>>

Step(c) ==
    \/ Loop(c) \/ Leave(c) \/ Reply(c) \/ Check(c)
    \/ HandleAuth(c) \/ Login(c) \/ StoreSession(c)
    \/ CreateUser(c) \/ DeleteUser(c) \/ UpdateUserRole(c)
    \/ InsertDoc(c) \/ Query(c) \/ ScanFor(c) \/ UpdateNext(c) \/ DeleteLook(c)
    \/ DeleteNow(c) \/ DeleteAtOnce(c) \/ DropNext(c) \/ DropAtOnce(c) \/ DropIndexes(c)
    \/ StorageFails(c) \/ FilterFails(c) \/ Finish(c)
    \/ GetIndexes(c) \/ SaveIndexes(c) \/ TakeStats(c) \/ GiveStats(c)

Next ==
    \/ \E c \in Conns : Accept(c) \/ Read(c) \/ StreamFails(c) \/ Step(c)
    \/ SweepSessions \/ SweepConnections \/ Tick \/ Restart

Spec == Init /\ [][Next]_vars

-----------------------------------------------------------------------------
\* Every variable keeps its type.
TypeOK ==
    /\ \A c \in Conns :
         /\ task[c].pc \in {"off", "loop", "read", "check", "run", "login", "store",
                            "stats", "reply", "leave"}
         /\ task[c].pooled \in BOOLEAN
         /\ task[c].user \in Names \cup {None}
         /\ task[c].todo \cup task[c].found \cup task[c].failed \subseteq Ids
         /\ task[c].list \subseteq IndexNames
    /\ users \in [Names -> Roles \cup {None}]
    /\ docs \in [Ids -> Documents \cup {None}]
    /\ indexes \subseteq IndexNames
    /\ sweep \in {"idle", "waits"}

\* No command but AUTH changes or reads anything for a connection that has not logged in,
\* through every order of logins, sweeps, reconnections and restarts: whoever acts has a
\* token, which only a verified login leaves behind (connection.rs:415-430, 1299-1408).
NoGuest ==
    \A c \in Conns : task[c].pc \in {"run", "stats"} /\ task[c].cmd.op # "Auth" =>
        \E t \in tokens : t.user = task[c].user

\* UPDATE_DOC reports exactly the documents of its scan that the storage took, none when the
\* update is no object; DELETE_DOC the ones it removed, and leaves no match but those the
\* storage refused.  What another command on documents did at the same time is excepted, not
\* what it did before or after (connection.rs:575-665).
CountsExact ==
    \A c \in Conns : Through(c) =>
        LET t == task[c]
            kept == t.found \ t.failed
        IN  /\ t.cmd.op = "UpdateDoc" =>
                 /\ t.count = IF t.cmd.doc = None THEN 0 ELSE Cardinality(kept)
                 /\ c \in met \/ t.cmd.doc = None \/ \A i \in kept : docs[i] = t.cmd.doc
            /\ t.cmd.op = "DeleteDoc" /\ c \notin met =>
                 t.count = Cardinality(kept) /\ Scan(t.cmd.filter) \subseteq t.failed

\* An acknowledged index definition stays until it is dropped, or until the build without
\* RocksDB is restarted, whatever other commands rewrite the list before and after it.  Only
\* a definition that was acknowledged while another task was about to write back the list it
\* had read may be lost (persistent.rs:447-510).
DefinitionsKept == defined \ raced \subseteq indexes

Circle == sweep = "waits" /\ StatsHold # {}

\* A task that has read a command can always go on, and so can the sweep, unless a sweep and
\* an INFO wait for each other: cleanup_expired_sessions takes sessions before connections,
\* get_stats takes them the other way round (connection.rs:1421, 1452).
StuckOnlyInCircle ==
    Circle \/ /\ \A c \in Conns : task[c].pc \in {"check", "run", "login", "store", "stats", "reply"} =>
                     sweep = "waits" \/ ENABLED Step(c)
              /\ sweep = "waits" => ENABLED SweepConnections
=============================================================================
