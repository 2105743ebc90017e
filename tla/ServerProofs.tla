---------------------------- MODULE ServerProofs ----------------------------
(***************************************************************************)
(* What Server promises for any number of connections, documents, users    *)
(* and index names, any number of commands and any number of restarts.     *)
(***************************************************************************)
EXTENDS Server, FiniteSetTheorems, TLAPS

Pcs == {"off", "loop", "read", "check", "run", "login", "store", "stats", "reply", "leave"}
Answers == {"none", "ok", "error", "auth_required", "auth_failed"}
Commands == V2 \cup {Translate(v, i) : v \in V1, i \in Ids}
Records ==
  [pc : Pcs, pooled : BOOLEAN, user : Names \cup {None}, cmd : Commands \cup {None},
   todo : SUBSET Ids, checked : Ids \cup {None}, count : Nat, found : SUBSET Ids,
   failed : SUBSET Ids, spoiled : BOOLEAN, list : SUBSET IndexNames, answer : Answers]

(* The types that the steps rely on. *)
Types ==
  /\ task \in [Conns -> Records]
  /\ users \in [Names -> Roles \cup {None}]
  /\ docs \in [Ids -> Documents \cup {None}]
  /\ indexes \subseteq IndexNames
  /\ sweep \in {"idle", "waits"}

(* A task that has got beyond read_command has a command; one that logs in has AUTH. *)
HasCommand ==
  \A c \in Conns :
    /\ task[c].pc \in {"check", "run", "login", "store", "stats"} => task[c].cmd \in Commands
    /\ task[c].pc = "login" => task[c].cmd.op = "Auth"

(* What the loops of a command leave behind is gone when the next command starts. *)
Fresh ==
  \A c \in Conns :
    /\ task[c].pc \in {"loop", "read", "check"} => task[c].answer = "none"
    /\ task[c].pc = "run" => task[c].answer \in {"none", "ok"}
    /\ task[c].pc \in {"loop", "read", "check", "run"} /\ task[c].answer = "none" =>
         /\ task[c].todo = {} /\ task[c].count = 0 /\ task[c].checked = None
         /\ task[c].failed = {}

(* Between Login and StoreSession a connection has its user but no token yet. *)
LoggedIn ==
  \A c \in Conns :
    /\ task[c].user # None /\ task[c].pc # "store" => \E t \in tokens : t.user = task[c].user
    /\ task[c].pc \in {"run", "stats"} /\ task[c].cmd.op # "Auth" => task[c].user # None

(* Two tasks that run commands on documents have been noticed. *)
Exclusive ==
  \A c, d \in Conns :
    /\ c # d /\ task[c].pc = "run" /\ task[d].pc = "run"
    /\ task[c].cmd.op \in DocOps /\ task[d].cmd.op \in DocOps
    => c \in met

(* A list that create_index or drop_index has read and not yet written back holds every      *)
(* acknowledged definition but those that were raced for.                                    *)
Holds(c) == Running(c, {"CreateIndex", "DropIndex"}) /\ task[c].answer = "ok"
ListsHold == \A c \in Conns : Holds(c) => defined \ raced \subseteq task[c].list

(* Every document found by the scan of an update is still to do, refused or counted, and the *)
(* counted ones carry the update unless another command on documents came between.           *)
Updating(c) == Running(c, {"UpdateDoc"}) /\ task[c].answer = "ok"
Unsaved(c) == task[c].failed \cup task[c].todo
UpdateCounted(c) ==
  Updating(c) =>
    /\ task[c].checked = None /\ task[c].todo \subseteq task[c].found
    /\ task[c].failed \cap task[c].todo = {}
    /\ task[c].count = IF task[c].cmd.doc = None THEN 0
                       ELSE Cardinality(task[c].found \ Unsaved(c))
UpdateWritten(c) ==
  Updating(c) /\ c \notin met /\ task[c].cmd.doc # None =>
    \A i \in task[c].found \ Unsaved(c) : docs[i] = task[c].cmd.doc

(* Every document found by the scan of a deletion is still to do, looked at, refused or      *)
(* counted, and the first three are all that matches; those not refused are there.           *)
Deleting(c) == Running(c, {"DeleteDoc"}) /\ task[c].answer = "ok"
Left(c) == task[c].todo \cup task[c].failed \cup {task[c].checked}
DeleteCounted(c) ==
  Deleting(c) /\ c \notin met =>
    /\ task[c].todo \subseteq Present /\ task[c].todo \subseteq task[c].found
    /\ task[c].checked # None => task[c].checked \in task[c].found
    /\ task[c].todo \cap (task[c].failed \cup {task[c].checked}) = {}
    /\ task[c].checked \notin task[c].failed
    /\ Scan(task[c].cmd.filter) \subseteq Left(c)
    /\ task[c].count = Cardinality(task[c].found \ Left(c))

-----------------------------------------------------------------------------
(* What the commands carry. *)
LEMMA CommandsTyped ==
  ASSUME NEW cmd \in Commands
  PROVE  /\ cmd.op = "InsertDoc" => cmd.id \in Ids /\ cmd.doc \in Documents
         /\ cmd.op = "UpdateDoc" => cmd.doc \in Documents \cup {None}
         /\ cmd.op \in {"CreateIndex", "DropIndex"} => cmd.name \in IndexNames
         /\ cmd.op \in {"Auth", "CreateUser", "UpdateUserRole", "DeleteUser"} =>
              cmd.name \in Names
<1>1. CASE cmd \in V2
  BY <1>1 DEF V2, Documents
<1>2. ASSUME NEW v \in V1, NEW i \in Ids, cmd = Translate(v, i) PROVE
         /\ cmd.op = "InsertDoc" => cmd.id \in Ids /\ cmd.doc \in Documents
         /\ cmd.op = "UpdateDoc" => cmd.doc \in Documents \cup {None}
         /\ cmd.op \notin {"CreateIndex", "DropIndex", "Auth", "CreateUser",
                           "UpdateUserRole", "DeleteUser"}
  BY <1>2 DEF V1, Translate, TranslateSet, TranslateGet, TranslateDel, TranslateCas,
              TranslateFetch, Documents
<1> QED BY <1>1, <1>2 DEF Commands

(* Everything a task remembers besides its program counter and its answer. *)
Rest(r) == <<r.pooled, r.user, r.cmd, r.todo, r.checked, r.count, r.found, r.failed, r.spoiled,
             r.list>>
Others(c) == \A d \in Conns \ {c} : task'[d] = task[d]

(* A step that only moves a task on changes nothing else of it and no other task. *)
LEMMA GoShape ==
  ASSUME Types, NEW c \in Conns, NEW pc \in Pcs, Go(c, pc)
  PROVE  /\ task' \in [Conns -> Records] /\ Others(c)
         /\ task'[c].pc = pc /\ task'[c].answer = task[c].answer
         /\ Rest(task'[c]) = Rest(task[c])
<1>1. task[c] \in Records BY DEF Types
<1>2. task' = [task EXCEPT ![c] = [task[c] EXCEPT !.pc = pc]] BY DEF Go
<1>3. [task[c] EXCEPT !.pc = pc] \in Records BY <1>1 DEF Records
<1> QED BY <1>1, <1>2, <1>3 DEF Types, Records, Rest, Others

(* A step that answers leaves the user of the task alone, and every other task. *)
LEMMA AnswerShape ==
  ASSUME Types, NEW c \in Conns, NEW a \in Answers, Answer(c, a)
  PROVE  /\ task' \in [Conns -> Records] /\ Others(c)
         /\ task'[c].pc = "reply" /\ task'[c].user = task[c].user
<1>1. task[c] \in Records BY DEF Types
<1> DEFINE r == [Off EXCEPT !.pc = "reply", !.pooled = task[c].pooled, !.user = task[c].user,
                            !.answer = a]
<1>2. task' = [task EXCEPT ![c] = r] BY DEF Answer, Idle, Off
<1>3. r \in Records /\ r.pc = "reply" /\ r.user = task[c].user
   BY <1>1 DEF Records, Pcs, Off
<1> HIDE DEF r
<1> QED BY <1>1, <1>2, <1>3 DEF Types, Others

(* A step that replaces the record of one task keeps the types and the other tasks. *)
LEMMA PutShape ==
  ASSUME Types, NEW c \in Conns, NEW r \in Records, task' = [task EXCEPT ![c] = r]
  PROVE  task' \in [Conns -> Records] /\ Others(c) /\ task'[c] = r
BY DEF Types, Others

(* The loops of a command change what the task works on, never the command. *)
Same(c) ==
  /\ task'[c].pc = task[c].pc /\ task'[c].cmd = task[c].cmd /\ task'[c].user = task[c].user

(* The scan before the loop of a command: the hits are all to do, none is counted. *)
LEMMA ScanShape ==
  ASSUME Types, NEW c \in Conns, ScanFor(c)
  PROVE  /\ task' \in [Conns -> Records] /\ Others(c) /\ Same(c)
         /\ task'[c].todo = IF task[c].cmd.op = "DropCollection" THEN Present
                            ELSE Scan(task[c].cmd.filter)
         /\ task'[c].found = task'[c].todo /\ task'[c].answer = "ok"
         /\ task'[c].count = task[c].count /\ task'[c].checked = task[c].checked
         /\ task'[c].failed = task[c].failed
<1> DEFINE hits == IF task[c].cmd.op = "DropCollection" THEN Present
                   ELSE Scan(task[c].cmd.filter)
<1>1. PICK b \in BOOLEAN :
        task' = [task EXCEPT ![c].todo = hits, ![c].found = hits, ![c].spoiled = b,
                             ![c].answer = "ok"]
  BY DEF ScanFor
<1> DEFINE r == [task[c] EXCEPT !.todo = hits, !.found = hits, !.spoiled = b, !.answer = "ok"]
<1>2. hits \in SUBSET Ids BY DEF Scan, Present
<1>4. task[c] \in Records BY DEF Types
<1>8. hits = IF task[c].cmd.op = "DropCollection" THEN Present ELSE Scan(task[c].cmd.filter)
  OBVIOUS
<1> HIDE DEF hits
<1>5. task' = [task EXCEPT ![c] = r] BY <1>1, <1>4
<1>6. /\ r \in Records /\ r.pc = task[c].pc /\ r.cmd = task[c].cmd /\ r.user = task[c].user
      /\ r.todo = hits /\ r.found = hits /\ r.answer = "ok"
      /\ r.count = task[c].count /\ r.checked = task[c].checked /\ r.failed = task[c].failed
  BY <1>2, <1>4 DEF Records, Answers
<1> HIDE DEF r
<1>7. task' \in [Conns -> Records] /\ Others(c) /\ task'[c] = r BY <1>5, <1>6, PutShape
<1> QED BY <1>6, <1>7, <1>8 DEF Same

(* One turn of the loop of UPDATE_DOC: a document is written and counted, refused, or passed *)
(* over because the update is no object.                                                     *)
LEMMA UpdateShape ==
  ASSUME Types, NEW c \in Conns, UpdateNext(c)
  PROVE  /\ task' \in [Conns -> Records] /\ Others(c) /\ Same(c)
         /\ task'[c].found = task[c].found /\ task'[c].checked = task[c].checked
         /\ task'[c].answer = task[c].answer
         /\ \E i \in task[c].todo :
              /\ task'[c].todo = task[c].todo \ {i}
              /\ \/ /\ task[c].cmd.doc # None
                    /\ docs' = [docs EXCEPT ![i] = task[c].cmd.doc]
                    /\ task'[c].count = task[c].count + 1 /\ task'[c].failed = task[c].failed
                 \/ /\ task[c].cmd.doc # None /\ UNCHANGED docs
                    /\ task'[c].count = task[c].count
                    /\ task'[c].failed = task[c].failed \cup {i}
                 \/ /\ task[c].cmd.doc = None /\ UNCHANGED docs
                    /\ task'[c].count = task[c].count /\ task'[c].failed = task[c].failed
<1>1. PICK i \in task[c].todo :
        \/ /\ task[c].cmd.doc # None
           /\ docs' = [docs EXCEPT ![i] = task[c].cmd.doc]
           /\ task' = [task EXCEPT ![c].todo = @ \ {i}, ![c].count = @ + 1]
        \/ /\ task[c].cmd.doc # None /\ UNCHANGED docs
           /\ task' = [task EXCEPT ![c].todo = @ \ {i}, ![c].failed = @ \cup {i}]
        \/ /\ task[c].cmd.doc = None /\ UNCHANGED docs
           /\ task' = [task EXCEPT ![c].todo = @ \ {i}]
  BY DEF UpdateNext
<1>2. task[c] \in Records BY DEF Types
<1>3. /\ task[c].todo \ {i} \in SUBSET Ids /\ task[c].checked \in Ids \cup {None}
      /\ task[c].failed \in SUBSET Ids /\ task[c].failed \cup {i} \in SUBSET Ids
      /\ task[c].count \in Nat /\ task[c].count + 1 \in Nat
  BY <1>1, <1>2 DEF Records
<1>4. CASE /\ task[c].cmd.doc # None
           /\ docs' = [docs EXCEPT ![i] = task[c].cmd.doc]
           /\ task' = [task EXCEPT ![c].todo = @ \ {i}, ![c].count = @ + 1]
  <2> DEFINE r == [task[c] EXCEPT !.todo = task[c].todo \ {i}, !.count = task[c].count + 1]
  <2>1. /\ r \in Records /\ r.pc = task[c].pc /\ r.cmd = task[c].cmd /\ r.user = task[c].user
        /\ r.todo = task[c].todo \ {i} /\ r.checked = task[c].checked
        /\ r.failed = task[c].failed /\ r.count = task[c].count + 1
        /\ r.found = task[c].found /\ r.answer = task[c].answer
    BY <1>2, <1>3 DEF Records
  <2>2. task' = [task EXCEPT ![c] = r] BY <1>2, <1>4
  <2> HIDE DEF r
  <2>3. task' \in [Conns -> Records] /\ Others(c) /\ task'[c] = r BY <2>1, <2>2, PutShape
  <2> QED BY <1>4, <2>1, <2>3 DEF Same
<1>5. CASE /\ task[c].cmd.doc # None /\ UNCHANGED docs
           /\ task' = [task EXCEPT ![c].todo = @ \ {i}, ![c].failed = @ \cup {i}]
  <2> DEFINE r == [task[c] EXCEPT !.todo = task[c].todo \ {i}, !.failed = task[c].failed \cup {i}]
  <2>1. /\ r \in Records /\ r.pc = task[c].pc /\ r.cmd = task[c].cmd /\ r.user = task[c].user
        /\ r.todo = task[c].todo \ {i} /\ r.checked = task[c].checked
        /\ r.failed = task[c].failed \cup {i} /\ r.count = task[c].count
        /\ r.found = task[c].found /\ r.answer = task[c].answer
    BY <1>2, <1>3 DEF Records
  <2>2. task' = [task EXCEPT ![c] = r] BY <1>2, <1>5
  <2> HIDE DEF r
  <2>3. task' \in [Conns -> Records] /\ Others(c) /\ task'[c] = r BY <2>1, <2>2, PutShape
  <2> QED BY <1>5, <2>1, <2>3 DEF Same
<1>6. CASE /\ task[c].cmd.doc = None /\ UNCHANGED docs
           /\ task' = [task EXCEPT ![c].todo = @ \ {i}]
  <2> DEFINE r == [task[c] EXCEPT !.todo = task[c].todo \ {i}]
  <2>1. /\ r \in Records /\ r.pc = task[c].pc /\ r.cmd = task[c].cmd /\ r.user = task[c].user
        /\ r.todo = task[c].todo \ {i} /\ r.checked = task[c].checked
        /\ r.failed = task[c].failed /\ r.count = task[c].count
        /\ r.found = task[c].found /\ r.answer = task[c].answer
    BY <1>2, <1>3 DEF Records
  <2>2. task' = [task EXCEPT ![c] = r] BY <1>2, <1>6
  <2> HIDE DEF r
  <2>3. task' \in [Conns -> Records] /\ Others(c) /\ task'[c] = r BY <2>1, <2>2, PutShape
  <2> QED BY <1>6, <2>1, <2>3 DEF Same
<1> QED BY <1>1, <1>4, <1>5, <1>6

(* The first half of delete_document: a document is looked at, or refused. *)
LEMMA LookShape ==
  ASSUME Types, NEW c \in Conns, DeleteLook(c)
  PROVE  /\ task' \in [Conns -> Records] /\ Others(c) /\ Same(c)
         /\ task'[c].count = task[c].count /\ task'[c].answer = task[c].answer
         /\ task'[c].found = task[c].found
         /\ \E i \in task[c].todo :
              /\ task'[c].todo = task[c].todo \ {i}
              /\ \/ /\ task'[c].checked = IF i \in Present THEN i ELSE None
                    /\ task'[c].failed = task[c].failed
                 \/ task'[c].checked = None /\ task'[c].failed = task[c].failed \cup {i}
<1>1. PICK i \in task[c].todo :
        \/ task' = [task EXCEPT ![c].todo = @ \ {i},
                                ![c].checked = IF i \in Present THEN i ELSE None]
        \/ task' = [task EXCEPT ![c].todo = @ \ {i}, ![c].failed = @ \cup {i}]
  BY DEF DeleteLook
<1> DEFINE seen == IF i \in Present THEN i ELSE None
<1>2. task[c] \in Records /\ task[c].checked = None BY DEF Types, DeleteLook
<1>3. /\ task[c].todo \ {i} \in SUBSET Ids /\ seen \in Ids \cup {None}
      /\ task[c].failed \in SUBSET Ids /\ task[c].failed \cup {i} \in SUBSET Ids
      /\ task[c].count \in Nat
  BY <1>1, <1>2 DEF Records
<1>6. seen = IF i \in Present THEN i ELSE None OBVIOUS
<1>7. \/ task' = [task EXCEPT ![c].todo = @ \ {i}, ![c].checked = seen]
      \/ task' = [task EXCEPT ![c].todo = @ \ {i}, ![c].failed = @ \cup {i}]
  BY <1>1
<1> HIDE DEF seen
<1>4. CASE task' = [task EXCEPT ![c].todo = @ \ {i}, ![c].checked = seen]
  <2> DEFINE r == [task[c] EXCEPT !.todo = task[c].todo \ {i}, !.checked = seen]
  <2>1. /\ r \in Records /\ r.pc = task[c].pc /\ r.cmd = task[c].cmd /\ r.user = task[c].user
        /\ r.todo = task[c].todo \ {i} /\ r.checked = seen
        /\ r.failed = task[c].failed /\ r.count = task[c].count
        /\ r.found = task[c].found /\ r.answer = task[c].answer
    BY <1>2, <1>3 DEF Records
  <2>2. task' = [task EXCEPT ![c] = r] BY <1>2, <1>4
  <2> HIDE DEF r
  <2>3. task' \in [Conns -> Records] /\ Others(c) /\ task'[c] = r BY <2>1, <2>2, PutShape
  <2> QED BY <1>6, <2>1, <2>3 DEF Same
<1>5. CASE task' = [task EXCEPT ![c].todo = @ \ {i}, ![c].failed = @ \cup {i}]
  <2> DEFINE r == [task[c] EXCEPT !.todo = task[c].todo \ {i}, !.checked = None,
                                !.failed = task[c].failed \cup {i}]
  <2>1. /\ r \in Records /\ r.pc = task[c].pc /\ r.cmd = task[c].cmd /\ r.user = task[c].user
        /\ r.todo = task[c].todo \ {i} /\ r.checked = None
        /\ r.failed = task[c].failed \cup {i} /\ r.count = task[c].count
        /\ r.found = task[c].found /\ r.answer = task[c].answer
    BY <1>2, <1>3 DEF Records
  <2>2. task' = [task EXCEPT ![c] = r] BY <1>2, <1>5
  <2> HIDE DEF r
  <2>3. task' \in [Conns -> Records] /\ Others(c) /\ task'[c] = r BY <2>1, <2>2, PutShape
  <2> QED BY <1>2, <2>1, <2>3 DEF Same
<1> QED BY <1>4, <1>5, <1>7

(* The second half of delete_document: the document goes and is counted, or is refused. *)
LEMMA DeleteShape ==
  ASSUME Types, NEW c \in Conns, DeleteNow(c)
  PROVE  /\ task' \in [Conns -> Records] /\ Others(c) /\ Same(c)
         /\ task'[c].checked = None /\ task'[c].answer = task[c].answer
         /\ task'[c].todo = task[c].todo /\ task'[c].found = task[c].found
         /\ \/ /\ docs' = [docs EXCEPT ![task[c].checked] = None]
               /\ task'[c].count = task[c].count + 1 /\ task'[c].failed = task[c].failed
            \/ /\ UNCHANGED docs /\ task'[c].count = task[c].count
               /\ task'[c].failed = task[c].failed \cup {task[c].checked}
<1>1. task[c] \in Records /\ task[c].checked # None BY DEF Types, DeleteNow
<1>2. /\ task[c].todo \in SUBSET Ids /\ task[c].failed \in SUBSET Ids
      /\ task[c].failed \cup {task[c].checked} \in SUBSET Ids
      /\ task[c].count \in Nat /\ task[c].count + 1 \in Nat /\ None \in Ids \cup {None}
  BY <1>1 DEF Records
<1>3. CASE /\ docs' = [docs EXCEPT ![task[c].checked] = None]
           /\ task' = [task EXCEPT ![c].checked = None, ![c].count = @ + 1]
  <2> DEFINE r == [task[c] EXCEPT !.checked = None, !.count = task[c].count + 1]
  <2>1. /\ r \in Records /\ r.pc = task[c].pc /\ r.cmd = task[c].cmd /\ r.user = task[c].user
        /\ r.todo = task[c].todo /\ r.checked = None
        /\ r.failed = task[c].failed /\ r.count = task[c].count + 1
        /\ r.found = task[c].found /\ r.answer = task[c].answer
    BY <1>1, <1>2 DEF Records
  <2>2. task' = [task EXCEPT ![c] = r] BY <1>1, <1>3
  <2> HIDE DEF r
  <2>3. task' \in [Conns -> Records] /\ Others(c) /\ task'[c] = r BY <2>1, <2>2, PutShape
  <2> QED BY <1>3, <2>1, <2>3 DEF Same
<1>4. CASE /\ UNCHANGED docs
           /\ task' = [task EXCEPT ![c].checked = None,
                                   ![c].failed = @ \cup {task[c].checked}]
  <2> DEFINE r == [task[c] EXCEPT !.checked = None, !.failed = task[c].failed \cup {task[c].checked}]
  <2>1. /\ r \in Records /\ r.pc = task[c].pc /\ r.cmd = task[c].cmd /\ r.user = task[c].user
        /\ r.todo = task[c].todo /\ r.checked = None
        /\ r.failed = task[c].failed \cup {task[c].checked} /\ r.count = task[c].count
        /\ r.found = task[c].found /\ r.answer = task[c].answer
    BY <1>1, <1>2 DEF Records
  <2>2. task' = [task EXCEPT ![c] = r] BY <1>1, <1>4
  <2> HIDE DEF r
  <2>3. task' \in [Conns -> Records] /\ Others(c) /\ task'[c] = r BY <2>1, <2>2, PutShape
  <2> QED BY <1>4, <2>1, <2>3 DEF Same
<1> QED BY <1>3, <1>4 DEF DeleteNow

(* One turn of the loop of DELETE_DOC in the build without RocksDB. *)
LEMMA AtOnceShape ==
  ASSUME Types, NEW c \in Conns, DeleteAtOnce(c)
  PROVE  /\ task' \in [Conns -> Records] /\ Others(c) /\ Same(c)
         /\ task'[c].checked = task[c].checked /\ task'[c].answer = task[c].answer
         /\ task'[c].failed = task[c].failed /\ task'[c].found = task[c].found
         /\ \E i \in task[c].todo :
              /\ docs' = [docs EXCEPT ![i] = None]
              /\ task'[c].todo = task[c].todo \ {i}
              /\ task'[c].count = IF i \in Present THEN task[c].count + 1 ELSE task[c].count
<1>1. PICK i \in task[c].todo :
        /\ docs' = [docs EXCEPT ![i] = None]
        /\ task' = [task EXCEPT ![c].todo = @ \ {i},
                                ![c].count = IF i \in Present THEN @ + 1 ELSE @]
  BY DEF DeleteAtOnce
<1> DEFINE count == IF i \in Present THEN task[c].count + 1 ELSE task[c].count
<1>2. task[c] \in Records BY DEF Types
<1>3. /\ task[c].todo \ {i} \in SUBSET Ids /\ task[c].failed \in SUBSET Ids
      /\ task[c].checked \in Ids \cup {None} /\ count \in Nat
  BY <1>2 DEF Records
<1> DEFINE r == [task[c] EXCEPT !.todo = task[c].todo \ {i}, !.count = count]
<1>4. task' = [task EXCEPT ![c] = r] BY <1>1, <1>2
<1>5. count = IF i \in Present THEN task[c].count + 1 ELSE task[c].count OBVIOUS
<1> HIDE DEF count
<1>6. /\ r \in Records /\ r.pc = task[c].pc /\ r.cmd = task[c].cmd /\ r.user = task[c].user
      /\ r.todo = task[c].todo \ {i} /\ r.count = count /\ r.checked = task[c].checked
      /\ r.failed = task[c].failed /\ r.found = task[c].found /\ r.answer = task[c].answer
  BY <1>2, <1>3 DEF Records
<1> HIDE DEF r
<1>7. task' \in [Conns -> Records] /\ Others(c) /\ task'[c] = r BY <1>4, <1>6, PutShape
<1> QED BY <1>1, <1>5, <1>6, <1>7 DEF Same

(* One turn of the loop of DROP_COLLECTION, or all of it in the build without RocksDB. *)
LEMMA DropShape ==
  ASSUME Types, NEW c \in Conns, DropNext(c) \/ DropAtOnce(c)
  PROVE  /\ task' \in [Conns -> Records] /\ Others(c) /\ Same(c)
         /\ task'[c].answer = "ok" /\ docs' \in [Ids -> Documents \cup {None}]
<1>1. task[c] \in Records BY DEF Types
<1>2. CASE DropNext(c)
  <2>1. PICK i \in task[c].todo : /\ task' = [task EXCEPT ![c].todo = @ \ {i}]
                                  /\ docs' = [docs EXCEPT ![i] = None]
    BY <1>2 DEF DropNext
  <2> DEFINE r == [task[c] EXCEPT !.todo = task[c].todo \ {i}]
  <2>2. /\ r \in Records /\ r.pc = task[c].pc /\ r.cmd = task[c].cmd /\ r.user = task[c].user
        /\ r.answer = task[c].answer
    BY <1>1 DEF Records
  <2>3. task' = [task EXCEPT ![c] = r] BY <1>1, <2>1
  <2> HIDE DEF r
  <2>4. task[c].answer = "ok" BY <1>2 DEF DropNext
  <2>5. docs' \in [Ids -> Documents \cup {None}] BY <2>1 DEF Types
  <2> QED BY <2>2, <2>3, <2>4, <2>5, PutShape DEF Same
<1>3. CASE DropAtOnce(c)
  <2> DEFINE r == [task[c] EXCEPT !.answer = "ok"]
  <2>1. task' = [task EXCEPT ![c] = r] /\ docs' = [i \in Ids |-> None]
    BY <1>1, <1>3 DEF DropAtOnce
  <2>2. /\ r \in Records /\ r.pc = task[c].pc /\ r.cmd = task[c].cmd /\ r.user = task[c].user
        /\ r.answer = "ok"
    BY <1>1 DEF Records, Answers
  <2> HIDE DEF r
  <2> QED BY <2>1, <2>2, PutShape DEF Same
<1> QED BY <1>2, <1>3

(* The first half of create_index and drop_index. *)
LEMMA ListShape ==
  ASSUME Types, NEW c \in Conns, GetIndexes(c)
  PROVE  /\ task' \in [Conns -> Records] /\ Others(c) /\ Same(c)
         /\ task'[c].list = indexes /\ task'[c].answer = "ok"
         /\ task'[c].count = task[c].count /\ task'[c].checked = task[c].checked
         /\ task'[c].todo = task[c].todo
<1> DEFINE r == [task[c] EXCEPT !.list = indexes, !.answer = "ok"]
<1>1. task[c] \in Records BY DEF Types
<1>2. task' = [task EXCEPT ![c] = r] BY <1>1 DEF GetIndexes
<1>3. /\ r \in Records /\ r.pc = task[c].pc /\ r.cmd = task[c].cmd /\ r.user = task[c].user
      /\ r.list = indexes /\ r.answer = "ok"
      /\ r.count = task[c].count /\ r.checked = task[c].checked /\ r.todo = task[c].todo
  BY <1>1 DEF Records, Answers, Types
<1> HIDE DEF r
<1> QED BY <1>2, <1>3, PutShape DEF Same

Base == Types /\ HasCommand /\ Fresh /\ LoggedIn

(* The server starts with types, commands, answers and logins in order. *)
LEMMA BaseInit == Init => Base
BY ServerAssumption DEF Base, Init, Types, HasCommand, Fresh, LoggedIn, Off, Records, Pcs,
                        Answers, Initialize, Roles

(* Every step keeps types, commands, answers and logins in order: one case per action. *)
LEMMA BaseNext == Base /\ [Next]_vars => Base'
<1> SUFFICES ASSUME Base, [Next]_vars PROVE Base'
  OBVIOUS
<1> USE DEF Base, Types, HasCommand, Fresh, LoggedIn, db, auth, Rest, Others, Running
<1>1. ASSUME NEW c \in Conns, Accept(c) PROVE Base'
  <2> DEFINE r == [Off EXCEPT !.pc = "loop", !.pooled = TRUE]
  <2>1. /\ r \in Records /\ r.pc = "loop" /\ r.user = None /\ r.answer = "none"
        /\ r.todo = {} /\ r.count = 0 /\ r.checked = None /\ r.failed = {}
    BY DEF Off, Records, Pcs, Answers
  <2>2. task' = [task EXCEPT ![c] = r] BY <1>1 DEF Accept
  <2> HIDE DEF r
  <2>3. UNCHANGED <<sweep, auth, db>> BY <1>1 DEF Accept
  <2> QED BY <2>1, <2>2, <2>3, PutShape
<1>2. ASSUME NEW c \in Conns, Loop(c) PROVE Base'
  <2>1. PICK pc \in {"read", "leave"} : Go(c, pc) BY <1>2 DEF Loop
  <2>2. pc \in Pcs BY DEF Pcs
  <2> QED BY <1>2, <2>1, <2>2, GoShape DEF Loop
<1>3. ASSUME NEW c \in Conns, Read(c) PROVE Base'
  <2>1. PICK cmd \in Received :
          task' = [task EXCEPT ![c] =
                    [task[c] EXCEPT !.pc = IF cmd.op = "Invalid" THEN "reply" ELSE "check",
                                    !.cmd = cmd,
                                    !.answer = IF cmd.op = "Invalid" THEN "error" ELSE "none"]]
    BY <1>3 DEF Read
  <2>5. cmd \in Commands BY DEF Commands, Received
  <2> DEFINE pc == IF cmd.op = "Invalid" THEN "reply" ELSE "check"
             answer == IF cmd.op = "Invalid" THEN "error" ELSE "none"
             r == [task[c] EXCEPT !.pc = pc, !.cmd = cmd, !.answer = answer]
  <2>2. task[c] \in Records BY DEF Types
  <2>4. task' = [task EXCEPT ![c] = r] BY <2>1, <2>2
  <2>7. /\ pc \in Pcs /\ answer \in Answers
        /\ (pc = "check" /\ answer = "none") \/ pc = "reply"
    BY DEF Pcs, Answers
  <2> HIDE DEF pc, answer
  <2>3. /\ r \in Records /\ r.pc = pc /\ r.cmd = cmd /\ r.answer = answer
        /\ r.user = task[c].user /\ r.todo = task[c].todo /\ r.count = task[c].count
        /\ r.checked = task[c].checked /\ r.failed = task[c].failed
    <3>1. r \in Records BY <2>2, <2>5, <2>7 DEF Records, Pcs, Answers
    <3>2. r.pc = pc /\ r.cmd = cmd /\ r.answer = answer BY <2>2 DEF Records
    <3> QED BY <2>2, <3>1, <3>2 DEF Records
  <2> HIDE DEF r
  <2>6. task[c].pc = "read" /\ UNCHANGED <<sweep, auth, db>> BY <1>3 DEF Read
  <2> QED BY <2>3, <2>4, <2>5, <2>6, <2>7, PutShape
<1>4. ASSUME NEW c \in Conns, StreamFails(c) PROVE Base'
  <2> DEFINE r == [Off EXCEPT !.pc = "leave", !.pooled = task[c].pooled, !.user = task[c].user]
  <2>1. task[c].pooled \in BOOLEAN /\ task[c].user \in Names \cup {None} BY DEF Records
  <2>2. /\ r \in Records /\ r.pc = "leave" /\ r.user = task[c].user /\ r.answer = "none"
        /\ r.todo = {} /\ r.count = 0 /\ r.checked = None /\ r.failed = {}
    BY <2>1 DEF Off, Records, Pcs, Answers
  <2>3. task' = [task EXCEPT ![c] = r] BY <1>4 DEF StreamFails, Idle, Off
  <2> HIDE DEF r
  <2>4. task[c].pc \in {"read", "reply"} /\ UNCHANGED <<sweep, auth, db>> BY <1>4 DEF StreamFails
  <2> QED BY <2>2, <2>3, <2>4, PutShape
<1>5. ASSUME NEW c \in Conns, Reply(c) PROVE Base'
  <2> DEFINE r == [Off EXCEPT !.pc = "loop", !.pooled = task[c].pooled, !.user = task[c].user]
  <2>1. task[c].pooled \in BOOLEAN /\ task[c].user \in Names \cup {None} BY DEF Records
  <2>2. /\ r \in Records /\ r.pc = "loop" /\ r.user = task[c].user /\ r.answer = "none"
        /\ r.todo = {} /\ r.count = 0 /\ r.checked = None /\ r.failed = {}
    BY <2>1 DEF Off, Records, Pcs, Answers
  <2>3. task' = [task EXCEPT ![c] = r] BY <1>5 DEF Reply, Idle, Off
  <2> HIDE DEF r
  <2>4. task[c].pc \in {"read", "reply"} /\ UNCHANGED <<sweep, auth, db>> BY <1>5 DEF Reply
  <2> QED BY <2>2, <2>3, <2>4, PutShape
<1>6. ASSUME NEW c \in Conns, Leave(c) PROVE Base'
  <2>1. Off \in Records /\ Off.pc = "off" /\ Off.user = None
    BY DEF Off, Records, Pcs, Answers
  <2> QED BY <1>6, <2>1, PutShape DEF Leave
<1>7. ASSUME NEW c \in Conns, Check(c) PROVE Base'
  <2>1. "run" \in Pcs /\ "auth_required" \in Answers BY DEF Pcs, Answers
  <2>2. CASE Answer(c, "auth_required") BY <1>7, <2>1, <2>2, AnswerShape DEF Check
  <2>3. CASE Go(c, "run") /\ (task[c].cmd.op = "Auth" \/ task[c].user # None)
    BY <1>7, <2>1, <2>3, GoShape DEF Check
  <2> QED BY <1>7, <2>2, <2>3 DEF Check, IsAuthenticated
<1>8. ASSUME NEW c \in Conns, HandleAuth(c) PROVE Base'
  <2>1. "login" \in Pcs /\ "auth_failed" \in Answers BY DEF Pcs, Answers
  <2>2. CASE Answer(c, "auth_failed") BY <1>8, <2>1, <2>2, AnswerShape DEF HandleAuth
  <2>3. CASE Go(c, "login") BY <1>8, <2>1, <2>3, GoShape DEF HandleAuth
  <2> QED BY <1>8, <2>2, <2>3 DEF HandleAuth
<1>9. ASSUME NEW c \in Conns, Login(c) PROVE Base'
  <2>1. CASE Answer(c, "error")
    <3>1. "error" \in Answers BY DEF Answers
    <3> QED BY <1>9, <2>1, <3>1, AnswerShape DEF Login
  <2>2. CASE task' = [task EXCEPT ![c].pc = "store", ![c].user = task[c].cmd.name]
    <3> DEFINE r == [task[c] EXCEPT !.pc = "store", !.user = task[c].cmd.name]
    <3>1. task[c] \in Records BY DEF Types
    <3>2. task[c].cmd.name \in Names BY <1>9, CommandsTyped DEF Login
    <3>3. r \in Records /\ r.pc = "store" /\ r.cmd = task[c].cmd
      BY <3>1, <3>2 DEF Records, Pcs
    <3>4. task' = [task EXCEPT ![c] = r] BY <2>2, <3>1
    <3> HIDE DEF r
    <3> QED BY <1>9, <3>3, <3>4, PutShape DEF Login
  <2> QED BY <1>9, <2>1, <2>2 DEF Login
<1>10. ASSUME NEW c \in Conns, StoreSession(c) PROVE Base'
  <2>1. "ok" \in Answers BY DEF Answers
  <2> DEFINE t == [user |-> task[c].user, at |-> now]
  <2>2. t \in tokens' /\ t.user = task[c].user /\ tokens \subseteq tokens'
    BY <1>10 DEF StoreSession, Issued
  <2> HIDE DEF t
  <2>3. Answer(c, "ok") /\ UNCHANGED <<sweep, users, db>> BY <1>10 DEF StoreSession
  <2> QED BY <2>1, <2>2, <2>3, AnswerShape
<1>11. ASSUME NEW c \in Conns, CreateUser(c) PROVE Base'
  <2>1. "ok" \in Answers BY DEF Answers
  <2> QED BY <1>11, <2>1, AnswerShape, CommandsTyped DEF CreateUser, FromStr, Roles
<1>12. ASSUME NEW c \in Conns, DeleteUser(c) PROVE Base'
  <2>1. "ok" \in Answers BY DEF Answers
  <2> QED BY <1>12, <2>1, AnswerShape, CommandsTyped DEF DeleteUser
<1>13. ASSUME NEW c \in Conns, UpdateUserRole(c) PROVE Base'
  <2>1. "ok" \in Answers BY DEF Answers
  <2> QED BY <1>13, <2>1, AnswerShape, CommandsTyped DEF UpdateUserRole, FromStr, Roles
<1>14. ASSUME NEW c \in Conns, InsertDoc(c) PROVE Base'
  <2>1. "ok" \in Answers BY DEF Answers
  <2> QED BY <1>14, <2>1, AnswerShape, CommandsTyped DEF InsertDoc
<1>15. ASSUME NEW c \in Conns, Query(c) PROVE Base'
  <2>1. "ok" \in Answers BY DEF Answers
  <2> QED BY <1>15, <2>1, AnswerShape DEF Query
<1>16. ASSUME NEW c \in Conns, ScanFor(c) PROVE Base'
  <2>1. task[c].pc = "run" /\ UNCHANGED <<sweep, auth, db>> BY <1>16 DEF ScanFor
  <2> QED BY <1>16, <2>1, ScanShape DEF Same
<1>17. ASSUME NEW c \in Conns, UpdateNext(c) PROVE Base'
  <2>1. task[c].cmd \in Commands /\ task[c].cmd.op = "UpdateDoc" BY <1>17 DEF UpdateNext
  <2>2. docs' \in [Ids -> Documents \cup {None}]
    BY <1>17, <2>1, UpdateShape, CommandsTyped
  <2>3. task[c].pc = "run" /\ task[c].answer = "ok" /\ UNCHANGED <<sweep, auth, indexes>>
    BY <1>17 DEF UpdateNext
  <2> QED BY <1>17, <2>2, <2>3, UpdateShape DEF Same
<1>18. ASSUME NEW c \in Conns, DeleteLook(c) PROVE Base'
  <2>1. task[c].pc = "run" /\ task[c].answer = "ok" /\ UNCHANGED <<sweep, auth, db>>
    BY <1>18 DEF DeleteLook
  <2> QED BY <1>18, <2>1, LookShape DEF Same
<1>19. ASSUME NEW c \in Conns, DeleteNow(c) PROVE Base'
  <2>1. task[c].pc = "run" /\ task[c].answer = "ok" /\ UNCHANGED <<sweep, auth, indexes>>
    BY <1>19 DEF DeleteNow
  <2>2. docs' \in [Ids -> Documents \cup {None}]
    BY <1>19 DEF DeleteNow
  <2> QED BY <1>19, <2>1, <2>2, DeleteShape DEF Same
<1>31. ASSUME NEW c \in Conns, DeleteAtOnce(c) PROVE Base'
  <2>1. task[c].pc = "run" /\ task[c].answer = "ok" /\ UNCHANGED <<sweep, auth, indexes>>
    BY <1>31 DEF DeleteAtOnce
  <2>2. docs' \in [Ids -> Documents \cup {None}]
    BY <1>31 DEF DeleteAtOnce
  <2> QED BY <1>31, <2>1, <2>2, AtOnceShape DEF Same
<1>20. ASSUME NEW c \in Conns, DropNext(c) \/ DropAtOnce(c) PROVE Base'
  <2>1. task[c].pc = "run" /\ UNCHANGED <<sweep, auth, indexes>>
    BY <1>20 DEF DropNext, DropAtOnce
  <2> QED BY <1>20, <2>1, DropShape DEF Same
<1>21. ASSUME NEW c \in Conns, DropIndexes(c) PROVE Base'
  <2>1. "ok" \in Answers BY DEF Answers
  <2> QED BY <1>21, <2>1, AnswerShape DEF DropIndexes
<1>22. ASSUME NEW c \in Conns, Finish(c) \/ StorageFails(c) \/ FilterFails(c) PROVE Base'
  <2>1. "ok" \in Answers /\ "error" \in Answers BY DEF Answers
  <2>2. /\ UNCHANGED <<sweep, auth, db>> /\ task[c].pc = "run"
        /\ Answer(c, "ok") \/ Answer(c, "error")
    BY <1>22 DEF Finish, Through, StorageFails, FilterFails
  <2>3. /\ task' \in [Conns -> Records] /\ Others(c)
        /\ task'[c].pc = "reply" /\ task'[c].user = task[c].user
    BY <2>1, <2>2, AnswerShape
  <2> QED BY <2>2, <2>3
<1>23. ASSUME NEW c \in Conns, GetIndexes(c) PROVE Base'
  <2>1. task[c].pc = "run" /\ UNCHANGED <<sweep, auth, db>> BY <1>23 DEF GetIndexes
  <2> QED BY <1>23, <2>1, ListShape DEF Same
<1>24. ASSUME NEW c \in Conns, SaveIndexes(c) PROVE Base'
  <2>1. "ok" \in Answers BY DEF Answers
  <2>2. task[c].list \subseteq IndexNames BY DEF Records
  <2>3. task[c].cmd.name \in IndexNames BY <1>24, CommandsTyped DEF SaveIndexes
  <2>4. indexes' \subseteq IndexNames BY <1>24, <2>2, <2>3 DEF SaveIndexes
  <2>5. Answer(c, "ok") /\ task[c].pc = "run" /\ UNCHANGED <<sweep, auth, docs>>
    BY <1>24 DEF SaveIndexes
  <2>6. /\ task' \in [Conns -> Records] /\ Others(c)
        /\ task'[c].pc = "reply" /\ task'[c].user = task[c].user
    BY <2>1, <2>5, AnswerShape
  <2> QED BY <2>4, <2>5, <2>6
<1>25. ASSUME NEW c \in Conns, TakeStats(c) PROVE Base'
  <2>1. "stats" \in Pcs BY DEF Pcs
  <2> QED BY <1>25, <2>1, GoShape DEF TakeStats
<1>26. ASSUME NEW c \in Conns, GiveStats(c) PROVE Base'
  <2>1. "ok" \in Answers BY DEF Answers
  <2> QED BY <1>26, <2>1, AnswerShape DEF GiveStats
<1>27. CASE SweepSessions \/ Tick
  BY <1>27 DEF SweepSessions, Tick
<1>28. CASE SweepConnections
  <2>1. \A c \in Conns : [task[c] EXCEPT !.pooled = FALSE] \in Records
    <3> TAKE c \in Conns
    <3>1. task[c] \in Records BY DEF Types
    <3> QED BY <3>1 DEF Records
  <2>3. task' \in [Conns -> Records]
    BY <1>28, <2>1 DEF SweepConnections
  <2>2. \A c \in Conns : /\ task'[c].pc = task[c].pc /\ task'[c].answer = task[c].answer
                         /\ task'[c].cmd = task[c].cmd /\ task'[c].user = task[c].user
                         /\ task'[c].todo = task[c].todo /\ task'[c].count = task[c].count
                         /\ task'[c].checked = task[c].checked
                         /\ task'[c].failed = task[c].failed
    BY <1>28 DEF SweepConnections, Records
  <2> QED BY <1>28, <2>2, <2>3 DEF SweepConnections
<1>29. CASE Restart
  <2>1. Off \in Records /\ Off.pc = "off" /\ Off.user = None
    BY DEF Off, Records, Pcs, Answers
  <2>2. users' \in [Names -> Roles \cup {None}]
    BY <1>29 DEF Restart, Initialize, Roles
  <2>3. docs' \in [Ids -> Documents \cup {None}] /\ indexes' \subseteq IndexNames
    BY <1>29 DEF Restart
  <2> QED BY <1>29, <2>1, <2>2, <2>3 DEF Restart
<1>30. CASE UNCHANGED vars
  BY <1>30 DEF vars
<1> QED
  BY <1>1, <1>2, <1>3, <1>4, <1>5, <1>6, <1>7, <1>8, <1>9, <1>10, <1>11, <1>12, <1>13,
     <1>14, <1>15, <1>16, <1>17, <1>18, <1>19, <1>20, <1>21, <1>22, <1>23, <1>24, <1>25,
     <1>26, <1>27, <1>28, <1>29, <1>30, <1>31 DEF Next, Step

-----------------------------------------------------------------------------
(* What a task works on while it runs a command. *)
Work(r) == <<r.cmd, r.todo, r.checked, r.count, r.found, r.failed, r.list, r.answer>>

(* A step that leaves the collection and every running command as they are. *)
Quiet ==
  /\ UNCHANGED <<docs, indexes, defined, raced, met>>
  /\ \A d \in Conns : task'[d].pc = "run" => /\ task[d].pc = "run"
                                             /\ Work(task'[d]) = Work(task[d])

WorkOf(c) == UpdateCounted(c) /\ UpdateWritten(c) /\ DeleteCounted(c)
WorkInv == Exclusive /\ ListsHold /\ DefinitionsKept /\ \A c \in Conns : WorkOf(c)

(* The server starts with nothing running. *)
LEMMA WorkInit == Init => WorkInv
BY DEF Init, WorkInv, Exclusive, ListsHold, Holds, DefinitionsKept, WorkOf, UpdateCounted,
       UpdateWritten, DeleteCounted, Deleting, Updating, Running, Off

(* The steps between two commands, AUTH, the user commands, QUERY and INFO are quiet. *)
LEMMA QuietSteps ==
  ASSUME Base, NEW c \in Conns,
         \/ Accept(c) \/ Loop(c) \/ Read(c) \/ StreamFails(c) \/ Leave(c) \/ Reply(c)
         \/ HandleAuth(c) \/ Login(c) \/ StoreSession(c) \/ CreateUser(c) \/ DeleteUser(c)
         \/ UpdateUserRole(c) \/ Query(c) \/ StorageFails(c) \/ FilterFails(c) \/ Finish(c)
         \/ TakeStats(c) \/ GiveStats(c)
         \/ Check(c) /\ task'[c].pc # "run"
  PROVE  Quiet
<1>1. Types BY DEF Base
<1> DEFINE Ends == Others(c) /\ task'[c].pc # "run" /\ UNCHANGED <<docs, indexes, defined, raced, met>>
<1> SUFFICES Ends BY DEF Quiet, Others
<1> USE <1>1 DEF db, history, acked
<1>2. \A pc \in Pcs : Go(c, pc) => Others(c) /\ task'[c].pc = pc BY GoShape
<1>3. \A a \in Answers : Answer(c, a) => Others(c) /\ task'[c].pc = "reply" BY AnswerShape
<1>4. \A r : task' = [task EXCEPT ![c] = r] => Others(c) /\ task'[c] = r BY DEF Others, Types
<1>5. {"read", "leave", "login", "stats", "reply"} \subseteq Pcs BY DEF Pcs
<1>6. {"ok", "error", "auth_failed", "auth_required"} \subseteq Answers BY DEF Answers
<1>7. CASE Accept(c) BY <1>4, <1>7 DEF Accept, Off
<1>8. CASE Loop(c) BY <1>2, <1>5, <1>8 DEF Loop
<1>9. CASE Read(c)
  <2>1. PICK cmd \in Received :
          task' = [task EXCEPT ![c] =
                    [task[c] EXCEPT !.pc = IF cmd.op = "Invalid" THEN "reply" ELSE "check",
                                    !.cmd = cmd,
                                    !.answer = IF cmd.op = "Invalid" THEN "error" ELSE "none"]]
    BY <1>9 DEF Read
  <2>2. task[c] \in Records BY DEF Types
  <2>3. Others(c) BY <1>4, <2>1
  <2>4. task'[c].pc # "run" BY <2>1, <2>2 DEF Types, Records
  <2> QED BY <1>9, <2>3, <2>4 DEF Read
<1>10. CASE StreamFails(c) BY <1>4, <1>10 DEF StreamFails, Idle, Off
<1>11. CASE Leave(c) BY <1>4, <1>11 DEF Leave, Off
<1>12. CASE Reply(c) BY <1>4, <1>12 DEF Reply, Idle, Off
<1>13. CASE HandleAuth(c) BY <1>2, <1>3, <1>5, <1>6, <1>13 DEF HandleAuth
<1>14. CASE Login(c)
  <2>1. CASE Answer(c, "error") BY <1>3, <1>6, <1>14, <2>1 DEF Login
  <2>2. CASE task' = [task EXCEPT ![c].pc = "store", ![c].user = task[c].cmd.name]
    <3>1. Others(c) BY <2>2 DEF Others, Types
    <3>2. task'[c].pc = "store" BY <2>2 DEF Types, Records
    <3> QED BY <1>14, <3>1, <3>2 DEF Login
  <2> QED BY <1>14, <2>1, <2>2 DEF Login
<1>15. CASE StoreSession(c) \/ CreateUser(c) \/ DeleteUser(c) \/ UpdateUserRole(c) \/ Query(c)
            \/ GiveStats(c)
  BY <1>3, <1>6, <1>15 DEF StoreSession, CreateUser, DeleteUser, UpdateUserRole, Query, GiveStats
<1>16. CASE TakeStats(c) BY <1>2, <1>5, <1>16 DEF TakeStats
<1>18. CASE StorageFails(c) \/ FilterFails(c) \/ Finish(c)
  BY <1>3, <1>6, <1>18 DEF StorageFails, FilterFails, Finish
<1>17. CASE Check(c) /\ task'[c].pc # "run"
  <2>1. "run" \in Pcs BY DEF Pcs
  <2> QED BY <1>2, <1>3, <1>6, <1>17, <2>1 DEF Check
<1> QED BY <1>7, <1>8, <1>9, <1>10, <1>11, <1>12, <1>13, <1>14, <1>15, <1>16, <1>17, <1>18

(* A quiet step disturbs no running command. *)
LEMMA QuietKeeps == Base /\ WorkInv /\ Quiet => WorkInv'
<1> SUFFICES ASSUME Base, WorkInv, Quiet PROVE WorkInv'
  OBVIOUS
<1> USE DEF Base, Types, Quiet, WorkInv, Work
<1>1. Exclusive' BY DEF Exclusive
<1>2. ListsHold' BY DEF ListsHold, Holds, Running
<1>3. DefinitionsKept' BY DEF DefinitionsKept
<1>4. ASSUME NEW c \in Conns PROVE WorkOf(c)'
  <2>1. UpdateCounted(c)'
    BY DEF WorkOf, UpdateCounted, Updating, Running, Unsaved
  <2>2. UpdateWritten(c)'
    BY DEF WorkOf, UpdateWritten, Updating, Running, Unsaved
  <2>3. DeleteCounted(c)'
    BY DEF WorkOf, DeleteCounted, Deleting, Running, Present, Scan, Left
  <2> QED BY <2>1, <2>2, <2>3 DEF WorkOf
<1> QED BY <1>1, <1>2, <1>3, <1>4

(* A step of a running command on documents: what it does to the documents does not matter   *)
(* to the other tasks, for they have met it.                                                 *)
LEMMA DocStep ==
  ASSUME WorkInv, NEW c \in Conns, task[c].pc = "run", task[c].cmd.op \in DocOps, Others(c),
         task'[c].pc = "run" => task'[c].cmd = task[c].cmd,
         UNCHANGED <<indexes, defined, raced, met>>, WorkOf(c)'
  PROVE  WorkInv'
<1> USE DEF WorkInv, Others
<1>1. Exclusive' BY DEF Exclusive
<1>2. ListsHold' BY DEF ListsHold, Holds, Running, DocOps
<1>3. DefinitionsKept' BY DEF DefinitionsKept
<1>4. ASSUME NEW d \in Conns \ {c} PROVE WorkOf(d)'
  <2>1. UpdateCounted(d)' BY DEF WorkOf, UpdateCounted, Updating, Running, Unsaved
  <2>2. task[d].pc = "run" /\ task[d].cmd.op \in DocOps => d \in met' BY DEF Exclusive
  <2>3. UpdateWritten(d)' /\ DeleteCounted(d)'
    BY <2>2 DEF UpdateWritten, DeleteCounted, Updating, Deleting, Running, DocOps
  <2> QED BY <2>1, <2>3 DEF WorkOf
<1> QED BY <1>1, <1>2, <1>3, <1>4

(* A step of a task that leaves the documents and its own list of documents alone. *)
LEMMA IndexStep ==
  ASSUME WorkInv, NEW c \in Conns, task[c].pc = "run", task[c].cmd.op \notin {"UpdateDoc", "DeleteDoc"},
         Others(c), task'[c].pc = "run" => task'[c].cmd = task[c].cmd,
         UNCHANGED <<docs, met>>, ListsHold', DefinitionsKept'
  PROVE  WorkInv'
<1> USE DEF WorkInv, Others
<1>1. Exclusive' BY DEF Exclusive
<1>2. ASSUME NEW d \in Conns PROVE WorkOf(d)'
  <2>1. CASE d = c
    BY <2>1 DEF WorkOf, UpdateCounted, UpdateWritten, DeleteCounted, Updating, Deleting, Running
  <2>2. CASE d # c
    <3>1. task'[d] = task[d] BY <2>2
    <3>2. UpdateCounted(d)' BY <3>1 DEF WorkOf, UpdateCounted, Updating, Running, Unsaved
    <3>3. UpdateWritten(d)' BY <3>1 DEF WorkOf, UpdateWritten, Updating, Running, Unsaved
    <3>4. DeleteCounted(d)'
      BY <3>1 DEF WorkOf, DeleteCounted, Deleting, Running, Present, Scan, Left
    <3> QED BY <3>2, <3>3, <3>4 DEF WorkOf
  <2> QED BY <2>1, <2>2
<1> QED BY <1>1, <1>2

(* One element less to leave out is one more to count. *)
LEMMA OneMore ==
  ASSUME NEW S, IsFiniteSet(S), NEW L, NEW M, NEW i \in S, i \in L, S \ M = (S \ L) \cup {i}
  PROVE  Cardinality(S \ M) = Cardinality(S \ L) + 1
<1>1. IsFiniteSet(S \ L) BY FS_Subset
<1>2. i \notin S \ L OBVIOUS
<1> QED BY <1>1, <1>2, FS_AddElement

(* The scan starts a loop with everything to do. *)
LEMMA ScanWork ==
  ASSUME Base, WorkInv, NEW c \in Conns, ScanFor(c)
  PROVE  WorkOf(c)'
<1>1. /\ UNCHANGED <<docs, met>> /\ task[c].pc = "run" /\ task[c].answer = "none"
      /\ task[c].cmd.op \in {"UpdateDoc", "DeleteDoc", "DropCollection"}
  BY DEF ScanFor, db, history, Running
<1>2. /\ Same(c) /\ task'[c].count = 0 /\ task'[c].checked = None /\ task'[c].failed = {}
      /\ task'[c].found = task'[c].todo /\ task'[c].answer = "ok"
      /\ task[c].cmd.op # "DropCollection" => task'[c].todo = Scan(task[c].cmd.filter)
  BY <1>1, ScanShape DEF Base, Fresh
<1>3. \A S : task'[c].found \ (task'[c].todo \cup S) = {} BY <1>2
<1>4. Cardinality({}) = 0 BY FS_EmptySet
<1>5. UpdateCounted(c)'
  <2>1. task'[c].found \ Unsaved(c)' = {} BY <1>2 DEF Unsaved
  <2> QED BY <1>2, <1>4, <2>1 DEF UpdateCounted
<1>6. UpdateWritten(c)' BY <1>2 DEF UpdateWritten, Unsaved
<1>7. DeleteCounted(c)'
  <2> SUFFICES ASSUME Deleting(c)' PROVE DeleteCounted(c)' BY DEF DeleteCounted
  <2>1. task'[c].todo = Scan(task[c].cmd.filter)
    BY <1>2 DEF Deleting, Running, Same
  <2>2. task'[c].found \ Left(c)' = {} BY <1>2 DEF Left
  <2>3. task'[c].todo \subseteq Present' BY <1>1, <2>1 DEF Scan, Present
  <2>5. Scan(task[c].cmd.filter)' \subseteq Left(c)'
    BY <1>1, <1>2, <2>1 DEF Scan, Present, Left, Same
  <2>6. None \notin task'[c].todo BY <2>3, ServerAssumption DEF Present
  <2> QED BY <1>2, <1>4, <2>2, <2>3, <2>5, <2>6 DEF DeleteCounted
<1> QED BY <1>5, <1>6, <1>7 DEF WorkOf

(* A turn of the loop of UPDATE_DOC counts exactly what it writes. *)
LEMMA UpdateWork ==
  ASSUME Base, WorkInv, NEW c \in Conns, UpdateNext(c)
  PROVE  WorkOf(c)'
<1>1. /\ UNCHANGED met /\ task[c].pc = "run" /\ task[c].cmd.op = "UpdateDoc"
      /\ task[c].answer = "ok" /\ Updating(c)
  BY DEF UpdateNext, history, Running, Updating
<1>2. Types BY DEF Base
<1>3. /\ Same(c) /\ task'[c].answer = "ok" /\ task'[c].checked = task[c].checked
      /\ task'[c].found = task[c].found
  BY <1>1, <1>2, UpdateShape
<1>4. PICK i \in task[c].todo :
        /\ task'[c].todo = task[c].todo \ {i}
        /\ \/ /\ task[c].cmd.doc # None
              /\ docs' = [docs EXCEPT ![i] = task[c].cmd.doc]
              /\ task'[c].count = task[c].count + 1 /\ task'[c].failed = task[c].failed
           \/ /\ task[c].cmd.doc # None /\ UNCHANGED docs
              /\ task'[c].count = task[c].count
              /\ task'[c].failed = task[c].failed \cup {i}
           \/ /\ task[c].cmd.doc = None /\ UNCHANGED docs
              /\ task'[c].count = task[c].count /\ task'[c].failed = task[c].failed
  BY <1>2, UpdateShape
<1>5. /\ task[c].checked = None /\ task[c].todo \subseteq task[c].found
      /\ task[c].failed \cap task[c].todo = {}
      /\ task[c].count = IF task[c].cmd.doc = None THEN 0
                         ELSE Cardinality(task[c].found \ Unsaved(c))
  BY <1>1 DEF WorkInv, WorkOf, UpdateCounted
<1>6. IsFiniteSet(task[c].found) /\ task[c].found \subseteq Ids
  BY <1>2, ServerAssumption, FS_Subset DEF Types, Records
<1>7. CASE /\ task[c].cmd.doc # None
           /\ docs' = [docs EXCEPT ![i] = task[c].cmd.doc]
           /\ task'[c].count = task[c].count + 1 /\ task'[c].failed = task[c].failed
  <2>1. task[c].found \ Unsaved(c)' = (task[c].found \ Unsaved(c)) \cup {i}
    BY <1>4, <1>5, <1>7 DEF Unsaved
  <2>2. Cardinality(task[c].found \ Unsaved(c)') = Cardinality(task[c].found \ Unsaved(c)) + 1
    BY <1>5, <1>6, <2>1, OneMore DEF Unsaved
  <2>3. UpdateCounted(c)'
    BY <1>3, <1>4, <1>5, <1>7, <2>2 DEF UpdateCounted, Same
  <2>4. UpdateWritten(c)'
    BY <1>1, <1>2, <1>3, <1>6, <1>7, <2>1 DEF WorkInv, WorkOf, UpdateWritten, Same, Types
  <2> QED BY <1>1, <1>3, <2>3, <2>4 DEF WorkOf, DeleteCounted, Deleting, Running, Same
<1>8. CASE /\ task[c].cmd.doc # None /\ UNCHANGED docs
           /\ task'[c].count = task[c].count
           /\ task'[c].failed = task[c].failed \cup {i}
  <2>1. Unsaved(c)' = Unsaved(c) BY <1>4, <1>8 DEF Unsaved
  <2>2. UpdateCounted(c)'
    BY <1>3, <1>4, <1>5, <1>8, <2>1 DEF UpdateCounted, Same
  <2>3. UpdateWritten(c)'
    BY <1>1, <1>3, <1>8, <2>1 DEF WorkInv, WorkOf, UpdateWritten, Same
  <2> QED BY <1>1, <1>3, <2>2, <2>3 DEF WorkOf, DeleteCounted, Deleting, Running, Same
<1>9. CASE /\ task[c].cmd.doc = None /\ UNCHANGED docs
           /\ task'[c].count = task[c].count /\ task'[c].failed = task[c].failed
  BY <1>1, <1>3, <1>4, <1>5, <1>9
     DEF WorkOf, UpdateCounted, UpdateWritten, DeleteCounted, Deleting, Running, Same
<1> QED BY <1>4, <1>7, <1>8, <1>9

(* delete_document looks at a document that is there. *)
LEMMA LookWork ==
  ASSUME Base, WorkInv, NEW c \in Conns, DeleteLook(c)
  PROVE  WorkOf(c)'
<1>1. /\ UNCHANGED <<docs, met>> /\ task[c].checked = None /\ Deleting(c)
      /\ task[c].cmd.op = "DeleteDoc" /\ task[c].answer = "ok"
  BY DEF DeleteLook, db, history, Deleting, Running
<1>2. Types BY DEF Base
<1>3. /\ Same(c) /\ task'[c].answer = "ok" /\ task'[c].count = task[c].count
      /\ task'[c].found = task[c].found
  BY <1>1, <1>2, LookShape
<1>4. PICK i \in task[c].todo :
        /\ task'[c].todo = task[c].todo \ {i}
        /\ \/ /\ task'[c].checked = IF i \in Present THEN i ELSE None
              /\ task'[c].failed = task[c].failed
           \/ task'[c].checked = None /\ task'[c].failed = task[c].failed \cup {i}
  BY <1>2, LookShape
<1>5. DeleteCounted(c)'
  <2> SUFFICES ASSUME c \notin met PROVE DeleteCounted(c)' BY <1>1 DEF DeleteCounted
  <2>1. /\ task[c].todo \subseteq Present /\ task[c].todo \subseteq task[c].found
        /\ task[c].todo \cap (task[c].failed \cup {None}) = {} /\ None \notin task[c].failed
        /\ Scan(task[c].cmd.filter) \subseteq Left(c)
        /\ task[c].count = Cardinality(task[c].found \ Left(c))
    BY <1>1 DEF WorkInv, WorkOf, DeleteCounted
  <2>2. i # None /\ i \in Present /\ None \notin task[c].found
    BY <1>2, <2>1, ServerAssumption DEF Types, Records, Present
  <2>3. task[c].found \ Left(c)' = task[c].found \ Left(c)
    BY <1>1, <1>4, <2>1, <2>2 DEF Left
  <2>4. Present' = Present /\ Scan(task[c].cmd.filter)' = Scan(task[c].cmd.filter)
    BY <1>1, <1>3 DEF Present, Scan, Same
  <2>5. None \notin Scan(task[c].cmd.filter) BY ServerAssumption DEF Scan, Present
  <2>6. Scan(task[c].cmd.filter) \subseteq Left(c)'
    BY <1>1, <1>4, <2>1, <2>2, <2>5 DEF Left
  <2>7. /\ task'[c].todo \subseteq Present /\ task'[c].todo \subseteq task'[c].found
        /\ task'[c].checked # None => task'[c].checked \in task'[c].found
        /\ task'[c].todo \cap (task'[c].failed \cup {task'[c].checked}) = {}
        /\ task'[c].checked \notin task'[c].failed
    BY <1>3, <1>4, <2>1, <2>2
  <2> QED BY <1>3, <2>1, <2>3, <2>4, <2>6, <2>7 DEF DeleteCounted
<1> QED BY <1>1, <1>3, <1>5 DEF WorkOf, UpdateCounted, UpdateWritten, Updating, Running, Same

(* delete_document counts the document that it looked at, or refuses it. *)
LEMMA DeleteWork ==
  ASSUME Base, WorkInv, NEW c \in Conns, DeleteNow(c)
  PROVE  WorkOf(c)'
<1>1. /\ UNCHANGED met /\ task[c].checked # None /\ Deleting(c)
      /\ task[c].cmd.op = "DeleteDoc" /\ task[c].answer = "ok"
  BY DEF DeleteNow, history, Deleting, Running, Base, Fresh
<1>2. Types BY DEF Base
<1>3. /\ Same(c) /\ task'[c].answer = "ok" /\ task'[c].checked = None
      /\ task'[c].found = task[c].found /\ task'[c].todo = task[c].todo
  BY <1>1, <1>2, DeleteShape
<1> DEFINE i == task[c].checked
<1>4. \/ /\ docs' = [docs EXCEPT ![i] = None]
         /\ task'[c].count = task[c].count + 1 /\ task'[c].failed = task[c].failed
      \/ /\ UNCHANGED docs /\ task'[c].count = task[c].count
         /\ task'[c].failed = task[c].failed \cup {i}
  BY <1>2, DeleteShape
<1>5. DeleteCounted(c)'
  <2> SUFFICES ASSUME c \notin met PROVE DeleteCounted(c)' BY <1>1 DEF DeleteCounted
  <2>1. /\ task[c].todo \subseteq Present /\ task[c].todo \subseteq task[c].found
        /\ i \in task[c].found /\ i \notin task[c].failed
        /\ task[c].todo \cap (task[c].failed \cup {i}) = {}
        /\ Scan(task[c].cmd.filter) \subseteq Left(c)
        /\ task[c].count = Cardinality(task[c].found \ Left(c))
    BY <1>1 DEF WorkInv, WorkOf, DeleteCounted
  <2>2. /\ IsFiniteSet(task[c].found) /\ task[c].found \subseteq Ids
        /\ None \notin task[c].found /\ None \notin task[c].failed
    BY <1>2, ServerAssumption, FS_Subset DEF Types, Records
  <2>3. Left(c) = task[c].todo \cup task[c].failed \cup {i} /\ i \in Left(c) BY DEF Left
  <2> HIDE DEF i
  <2>4. task'[c].todo \cap (task'[c].failed \cup {task'[c].checked}) = {}
    BY <1>3, <1>4, <2>1, <2>2
  <2>5. /\ task'[c].todo \subseteq task'[c].found /\ task'[c].checked \notin task'[c].failed
    BY <1>1, <1>3, <1>4, <2>1, <2>2 DEF i
  <2>6. CASE /\ docs' = [docs EXCEPT ![i] = None]
             /\ task'[c].count = task[c].count + 1 /\ task'[c].failed = task[c].failed
    <3>1. task[c].found \ Left(c)' = (task[c].found \ Left(c)) \cup {i}
      BY <1>3, <2>1, <2>2, <2>3, <2>6 DEF Left
    <3>2. Cardinality(task[c].found \ Left(c)') = Cardinality(task[c].found \ Left(c)) + 1
      BY <2>1, <2>2, <2>3, <3>1, OneMore
    <3>3. task[c].todo \subseteq Present' BY <1>2, <2>1, <2>6 DEF Types, Present
    <3>4. Scan(task[c].cmd.filter)' \subseteq Scan(task[c].cmd.filter) \ {i}
      BY <1>2, <1>3, <2>1, <2>2, <2>6 DEF Types, Present, Scan, Same
    <3>5. Scan(task[c].cmd.filter)' \subseteq Left(c)'
      BY <1>3, <2>1, <2>3, <2>6, <3>4 DEF Left
    <3> QED BY <1>3, <2>1, <2>4, <2>5, <2>6, <3>2, <3>3, <3>5 DEF DeleteCounted
  <2>7. CASE /\ UNCHANGED docs /\ task'[c].count = task[c].count
             /\ task'[c].failed = task[c].failed \cup {i}
    <3>1. task[c].found \ Left(c)' = task[c].found \ Left(c)
      BY <1>3, <2>2, <2>3, <2>7 DEF Left
    <3>2. Scan(task[c].cmd.filter)' = Scan(task[c].cmd.filter) /\ Present' = Present
      BY <1>3, <2>7 DEF Present, Scan, Same
    <3>3. Scan(task[c].cmd.filter)' \subseteq Left(c)'
      BY <1>3, <2>1, <2>3, <2>7, <3>2 DEF Left
    <3> QED BY <1>3, <2>1, <2>4, <2>5, <2>7, <3>1, <3>2, <3>3 DEF DeleteCounted
  <2> QED BY <1>4, <2>6, <2>7
<1> QED BY <1>1, <1>3, <1>5 DEF WorkOf, UpdateCounted, UpdateWritten, Updating, Running, Same

(* Without RocksDB a document that is there is deleted and counted at once. *)
LEMMA AtOnceWork ==
  ASSUME Base, WorkInv, NEW c \in Conns, DeleteAtOnce(c)
  PROVE  WorkOf(c)'
<1>1. UNCHANGED met /\ Deleting(c) /\ task[c].cmd.op = "DeleteDoc" /\ task[c].answer = "ok"
  BY DEF DeleteAtOnce, history, Deleting, Running
<1>2. Types BY DEF Base
<1>3. /\ Same(c) /\ task'[c].answer = "ok" /\ task'[c].checked = task[c].checked
      /\ task'[c].found = task[c].found /\ task'[c].failed = task[c].failed
  BY <1>1, <1>2, AtOnceShape
<1>4. PICK i \in task[c].todo :
        /\ docs' = [docs EXCEPT ![i] = None]
        /\ task'[c].todo = task[c].todo \ {i}
        /\ task'[c].count = IF i \in Present THEN task[c].count + 1 ELSE task[c].count
  BY <1>2, AtOnceShape
<1>5. DeleteCounted(c)'
  <2> SUFFICES ASSUME c \notin met PROVE DeleteCounted(c)' BY <1>1 DEF DeleteCounted
  <2>1. /\ task[c].todo \subseteq Present /\ task[c].todo \subseteq task[c].found
        /\ task[c].checked # None => task[c].checked \in task[c].found
        /\ task[c].todo \cap (task[c].failed \cup {task[c].checked}) = {}
        /\ task[c].checked \notin task[c].failed
        /\ Scan(task[c].cmd.filter) \subseteq Left(c)
        /\ task[c].count = Cardinality(task[c].found \ Left(c))
    BY <1>1 DEF WorkInv, WorkOf, DeleteCounted
  <2>2. IsFiniteSet(task[c].found) /\ i \in Left(c)
    BY <1>2, ServerAssumption, FS_Subset DEF Types, Records, Left
  <2>3. task[c].found \ Left(c)' = (task[c].found \ Left(c)) \cup {i}
    BY <1>3, <1>4, <2>1 DEF Left
  <2>4. Cardinality(task[c].found \ Left(c)') = Cardinality(task[c].found \ Left(c)) + 1
    BY <2>1, <2>2, <2>3, OneMore
  <2>5. task'[c].count = Cardinality(task'[c].found \ Left(c)') BY <1>3, <1>4, <2>1, <2>4
  <2>6. task'[c].todo \subseteq Present' BY <1>2, <1>4, <2>1 DEF Types, Present
  <2>7. Scan(task[c].cmd.filter)' \subseteq Scan(task[c].cmd.filter) \ {i}
    BY <1>2, <1>3, <1>4, <2>1 DEF Types, Present, Scan, Same
  <2>8. Scan(task[c].cmd.filter)' \subseteq Left(c)' BY <1>3, <1>4, <2>1, <2>7 DEF Left
  <2>9. /\ task'[c].todo \subseteq task'[c].found
        /\ task'[c].todo \cap (task'[c].failed \cup {task'[c].checked}) = {}
    BY <1>3, <1>4, <2>1
  <2> QED BY <1>3, <2>1, <2>5, <2>6, <2>8, <2>9 DEF DeleteCounted
<1> QED BY <1>1, <1>3, <1>5 DEF WorkOf, UpdateCounted, UpdateWritten, Updating, Running, Same

(* An acknowledgement takes no unraced definition from a list that another task holds, and   *)
(* leaves every unraced one in the stored list.                                              *)
LEMMA SaveWork ==
  ASSUME Base, WorkInv, NEW c \in Conns, SaveIndexes(c)
  PROVE  ListsHold' /\ DefinitionsKept'
<1> DEFINE n == task[c].cmd.name
           list == task[c].list
           create == task[c].cmd.op = "CreateIndex"
           race == Rewriting(c) \/ (n \in list /\ n \notin indexes)
<1>1. /\ indexes' = IF create = (n \in list) THEN indexes
                    ELSE IF create THEN list \cup {n} ELSE list \ {n}
      /\ defined' = IF create THEN defined \cup {n} ELSE defined \ {n}
      /\ raced' = IF create /\ race THEN raced \cup {n} ELSE raced \ {n}
  BY DEF SaveIndexes, Acknowledge
<1>2. Holds(c) /\ Answer(c, "ok") /\ "ok" \in Answers
  BY DEF SaveIndexes, Holds, Answers
<1>3. Others(c) /\ task'[c].pc = "reply" BY <1>2, AnswerShape DEF Base
<1>4. defined \ raced \subseteq list /\ defined \ raced \subseteq indexes
  BY <1>2 DEF WorkInv, ListsHold, DefinitionsKept
<1>5. DefinitionsKept' BY <1>1, <1>4 DEF DefinitionsKept
<1>6. ASSUME NEW d \in Conns, Holds(d)' PROVE (defined \ raced)' \subseteq task'[d].list
  <2>1. d # c /\ task'[d] = task[d] BY <1>3, <1>6 DEF Holds, Running, Others
  <2>2. Holds(d) BY <1>6, <2>1 DEF Holds, Running
  <2>3. Rewriting(c) BY <2>1, <2>2 DEF Rewriting, Holds
  <2>4. defined \ raced \subseteq task[d].list BY <2>2 DEF WorkInv, ListsHold
  <2>5. (defined \ raced)' \subseteq defined \ raced BY <1>1, <2>3
  <2> QED BY <2>1, <2>4, <2>5
<1> QED BY <1>5, <1>6 DEF ListsHold

(* Every step keeps what the running commands rely on: one case per action that is not quiet. *)
LEMMA WorkNext == Base /\ WorkInv /\ [Next]_vars => WorkInv'
<1> SUFFICES ASSUME Base, WorkInv, [Next]_vars PROVE WorkInv'
  OBVIOUS
<1>t. Types /\ Fresh BY DEF Base
<1>i. Exclusive /\ ListsHold /\ DefinitionsKept BY DEF WorkInv
<1> USE DEF Running, db, history, acked
<1>1. ASSUME NEW c \in Conns, Check(c), task'[c].pc = "run" PROVE WorkInv'
  <2>1. "run" \in Pcs /\ "auth_required" \in Answers BY DEF Pcs, Answers
  <2>2. /\ Go(c, "run") /\ UNCHANGED <<docs, indexes, defined, raced>>
        /\ met' = IF task[c].cmd.op \in DocOps /\ Meets(c) # {}
                  THEN met \cup Meets(c) \cup {c} ELSE met \ {c}
    BY <1>t, <1>1, <2>1, AnswerShape DEF Check
  <2>3. Others(c) /\ task'[c].answer = "none" /\ Rest(task'[c]) = Rest(task[c])
    BY <1>t, <1>1, <2>1, <2>2, GoShape DEF Fresh, Check
  <2>4. task'[c].cmd = task[c].cmd BY <2>3 DEF Rest
  <2>5. met \ {c} \subseteq met' BY <2>2
  <2>6. Exclusive'
    <3>1. ASSUME NEW d \in Conns \ {c}, task'[d].pc = "run", task'[d].cmd.op \in DocOps,
                 task[c].cmd.op \in DocOps
          PROVE  c \in met' /\ d \in met'
      <4>1. d \in Meets(c) BY <2>3, <3>1 DEF Meets, Others
      <4> QED BY <2>2, <3>1, <4>1
    <3> QED BY <1>i, <2>3, <2>4, <2>5, <3>1 DEF Exclusive, Others
  <2>7. ListsHold' BY <1>i, <2>2, <2>3 DEF ListsHold, Holds, Others
  <2>8. DefinitionsKept' BY <1>i, <2>2 DEF DefinitionsKept
  <2>9. WorkOf(c)'
    BY <2>3 DEF WorkOf, UpdateCounted, UpdateWritten, DeleteCounted, Updating, Deleting
  <2>10. ASSUME NEW d \in Conns \ {c} PROVE WorkOf(d)'
    <3>1. task'[d] = task[d] /\ UNCHANGED docs /\ (d \notin met' => d \notin met)
      BY <2>2, <2>3, <2>5 DEF Others
    <3>2. WorkOf(d) BY DEF WorkInv
    <3>3. UpdateCounted(d)' BY <3>1, <3>2 DEF WorkOf, UpdateCounted, Updating, Unsaved
    <3>4. UpdateWritten(d)' BY <3>1, <3>2 DEF WorkOf, UpdateWritten, Updating, Unsaved
    <3>5. DeleteCounted(d)'
      BY <3>1, <3>2 DEF WorkOf, DeleteCounted, Deleting, Present, Scan, Left
    <3> QED BY <3>3, <3>4, <3>5 DEF WorkOf
  <2> QED BY <2>6, <2>7, <2>8, <2>9, <2>10 DEF WorkInv
<1>2. ASSUME NEW c \in Conns, InsertDoc(c) PROVE WorkInv'
  <2>1. "ok" \in Answers BY DEF Answers
  <2>2. Others(c) /\ task'[c].pc = "reply" BY <1>t, <1>2, <2>1, AnswerShape DEF InsertDoc
  <2>3. /\ UNCHANGED <<indexes, defined, raced, met>>
        /\ task[c].pc = "run" /\ task[c].cmd.op \in DocOps
    BY <1>2 DEF InsertDoc, DocOps
  <2>4. WorkOf(c)'
    BY <2>2 DEF WorkOf, UpdateCounted, UpdateWritten, DeleteCounted, Updating, Deleting
  <2> QED BY <2>2, <2>3, <2>4, DocStep
<1>3. ASSUME NEW c \in Conns, ScanFor(c) PROVE WorkInv'
  <2>1. /\ UNCHANGED <<indexes, defined, raced, met>>
        /\ task[c].pc = "run" /\ task[c].cmd.op \in DocOps
    BY <1>3 DEF ScanFor, DocOps
  <2>2. Others(c) /\ task'[c].cmd = task[c].cmd BY <1>t, <1>3, ScanShape DEF Same
  <2> QED BY <1>3, <2>1, <2>2, ScanWork, DocStep
<1>4. ASSUME NEW c \in Conns, UpdateNext(c) PROVE WorkInv'
  <2>1. /\ UNCHANGED <<indexes, defined, raced, met>>
        /\ task[c].pc = "run" /\ task[c].cmd.op \in DocOps
    BY <1>4 DEF UpdateNext, DocOps
  <2>2. Others(c) /\ task'[c].cmd = task[c].cmd BY <1>t, <1>4, UpdateShape DEF Same
  <2> QED BY <1>4, <2>1, <2>2, UpdateWork, DocStep
<1>5. ASSUME NEW c \in Conns, DeleteLook(c) PROVE WorkInv'
  <2>1. /\ UNCHANGED <<indexes, defined, raced, met>>
        /\ task[c].pc = "run" /\ task[c].cmd.op \in DocOps
    BY <1>5 DEF DeleteLook, DocOps
  <2>2. Others(c) /\ task'[c].cmd = task[c].cmd BY <1>t, <1>5, LookShape DEF Same
  <2> QED BY <1>5, <2>1, <2>2, LookWork, DocStep
<1>6. ASSUME NEW c \in Conns, DeleteNow(c) PROVE WorkInv'
  <2>1. /\ UNCHANGED <<indexes, defined, raced, met>>
        /\ task[c].pc = "run" /\ task[c].cmd.op \in DocOps
    BY <1>6 DEF DeleteNow, DocOps
  <2>2. Others(c) /\ task'[c].cmd = task[c].cmd BY <1>t, <1>6, DeleteShape DEF Same
  <2> QED BY <1>6, <2>1, <2>2, DeleteWork, DocStep
<1>7. ASSUME NEW c \in Conns, DeleteAtOnce(c) PROVE WorkInv'
  <2>1. /\ UNCHANGED <<indexes, defined, raced, met>>
        /\ task[c].pc = "run" /\ task[c].cmd.op \in DocOps
    BY <1>7 DEF DeleteAtOnce, DocOps
  <2>2. Others(c) /\ task'[c].cmd = task[c].cmd BY <1>t, <1>7, AtOnceShape DEF Same
  <2> QED BY <1>7, <2>1, <2>2, AtOnceWork, DocStep
<1>8. ASSUME NEW c \in Conns, DropNext(c) \/ DropAtOnce(c) PROVE WorkInv'
  <2>1. /\ UNCHANGED <<indexes, defined, raced, met>>
        /\ task[c].pc = "run" /\ task[c].cmd.op = "DropCollection"
    BY <1>8 DEF DropNext, DropAtOnce
  <2>2. Others(c) /\ task'[c].cmd = task[c].cmd BY <1>t, <1>8, DropShape DEF Same
  <2>3. WorkOf(c)'
    BY <2>1, <2>2 DEF WorkOf, UpdateCounted, UpdateWritten, DeleteCounted, Updating, Deleting
  <2> QED BY <2>1, <2>2, <2>3, DocStep DEF DocOps
<1>9. ASSUME NEW c \in Conns, DropIndexes(c) PROVE WorkInv'
  <2>1. /\ Answer(c, "ok") /\ "ok" \in Answers /\ UNCHANGED <<docs, met>>
        /\ task[c].pc = "run" /\ task[c].cmd.op = "DropCollection" /\ defined' = {}
    BY <1>9 DEF DropIndexes, Answers
  <2>2. Others(c) /\ task'[c].pc = "reply" BY <1>t, <2>1, AnswerShape
  <2>3. ListsHold' /\ DefinitionsKept' BY <2>1 DEF ListsHold, DefinitionsKept
  <2> QED BY <2>1, <2>2, <2>3, IndexStep
<1>10. ASSUME NEW c \in Conns, SaveIndexes(c) PROVE WorkInv'
  <2>1. /\ Answer(c, "ok") /\ "ok" \in Answers /\ UNCHANGED <<docs, met>>
        /\ task[c].pc = "run" /\ task[c].cmd.op \in {"CreateIndex", "DropIndex"}
    BY <1>10 DEF SaveIndexes, Answers
  <2>2. Others(c) /\ task'[c].pc = "reply" BY <1>t, <2>1, AnswerShape
  <2> QED BY <1>10, <2>1, <2>2, SaveWork, IndexStep
<1>11. ASSUME NEW c \in Conns, GetIndexes(c) PROVE WorkInv'
  <2>1. /\ UNCHANGED <<docs, indexes, defined, raced, met>> /\ task[c].pc = "run"
        /\ task[c].cmd.op \in {"CreateIndex", "DropIndex"}
    BY <1>11 DEF GetIndexes
  <2>2. Others(c) /\ task'[c].cmd = task[c].cmd /\ task'[c].list = indexes
    BY <1>t, <1>11, ListShape DEF Same
  <2>3. DefinitionsKept' BY <1>i, <2>1 DEF DefinitionsKept
  <2>4. ListsHold' BY <1>i, <2>1, <2>2 DEF ListsHold, Holds, Others, DefinitionsKept
  <2> QED BY <2>1, <2>2, <2>3, <2>4, IndexStep
<1>12. CASE SweepSessions \/ Tick \/ UNCHANGED vars
  <2>1. Quiet BY <1>12 DEF SweepSessions, Tick, vars, Quiet
  <2> QED BY <2>1, QuietKeeps
<1>13. CASE SweepConnections
  <2>1. \A d \in Conns : task'[d].pc = task[d].pc /\ Work(task'[d]) = Work(task[d])
    BY <1>t, <1>13 DEF SweepConnections, Types, Records, Work
  <2>2. Quiet BY <1>13, <2>1 DEF SweepConnections, Quiet
  <2> QED BY <2>2, QuietKeeps
<1>14. CASE Restart
  <2>1. \A d \in Conns : task'[d].pc = "off" BY <1>14 DEF Restart, Off
  <2>2. DefinitionsKept' BY <1>i, <1>14 DEF Restart, DefinitionsKept
  <2>3. Exclusive' /\ ListsHold' BY <2>1 DEF Exclusive, ListsHold, Holds
  <2>4. \A d \in Conns : WorkOf(d)'
    BY <2>1 DEF WorkOf, UpdateCounted, UpdateWritten, DeleteCounted, Updating, Deleting
  <2> QED BY <2>2, <2>3, <2>4 DEF WorkInv
<1>15. ASSUME NEW c \in Conns,
         \/ Accept(c) \/ Loop(c) \/ Read(c) \/ StreamFails(c) \/ Leave(c) \/ Reply(c)
         \/ HandleAuth(c) \/ Login(c) \/ StoreSession(c) \/ CreateUser(c) \/ DeleteUser(c)
         \/ UpdateUserRole(c) \/ Query(c) \/ StorageFails(c) \/ FilterFails(c) \/ Finish(c)
         \/ TakeStats(c) \/ GiveStats(c)
         \/ Check(c) /\ task'[c].pc # "run"
       PROVE WorkInv'
  BY <1>15, QuietSteps, QuietKeeps
<1> QED
  BY <1>1, <1>2, <1>3, <1>4, <1>5, <1>6, <1>7, <1>8, <1>9, <1>10, <1>11, <1>12, <1>13, <1>14,
     <1>15 DEF Next, Step

-----------------------------------------------------------------------------
(* The inductive invariant of the server. *)
LEMMA Invariants == Spec => [](Base /\ WorkInv)
<1>1. Init => Base /\ WorkInv BY BaseInit, WorkInit
<1>2. Base /\ WorkInv /\ [Next]_vars => Base' /\ WorkInv' BY BaseNext, WorkNext
<1> QED BY <1>1, <1>2, PTL DEF Spec

(* The records of the tasks, the users, the documents and the definitions keep their types. *)
THEOREM TypeCorrect == Spec => []TypeOK
<1>1. Base => TypeOK BY DEF Base, Types, TypeOK, Records, Pcs
<1> QED BY <1>1, Invariants, PTL

(* process_command runs nothing but AUTH for a connection without a verified login, however  *)
(* logins, sweeps of the sessions, reconnections and restarts interleave                     *)
(* (connection.rs:415-430, 1299-1408).                                                       *)
THEOREM NobodyActsAsGuest == Spec => []NoGuest
<1>1. Base => NoGuest BY DEF Base, LoggedIn, NoGuest
<1> QED BY <1>1, Invariants, PTL

(* A definition that create_index acknowledged stays until drop_index or DROP_COLLECTION     *)
(* removes it or the build without RocksDB is restarted, for any number of tasks: only one   *)
(* acknowledged while another task was about to write back its list may be lost              *)
(* (persistent.rs:447-510).                                                                  *)
THEOREM DefinitionsAreKept == Spec => []DefinitionsKept
<1>1. WorkInv => DefinitionsKept BY DEF WorkInv
<1> QED BY <1>1, Invariants, PTL

(* UPDATE_DOC counts the documents of its scan that the storage took, DELETE_DOC the ones it *)
(* removed, with filters and accesses that fail on the way, for any number of documents; the *)
(* contents and the deletions only if no other command on documents ran at the same time     *)
(* (connection.rs:575-665).                                                                  *)
THEOREM CountsAreExact == Spec => []CountsExact
<1>1. Base /\ WorkInv => CountsExact
  <2> SUFFICES ASSUME Base, WorkInv, NEW c \in Conns, Through(c)
               PROVE  /\ task[c].cmd.op = "UpdateDoc" =>
                           /\ task[c].count = IF task[c].cmd.doc = None THEN 0
                                 ELSE Cardinality(task[c].found \ task[c].failed)
                           /\ \/ c \in met \/ task[c].cmd.doc = None
                              \/ \A i \in task[c].found \ task[c].failed :
                                   docs[i] = task[c].cmd.doc
                      /\ task[c].cmd.op = "DeleteDoc" /\ c \notin met =>
                           /\ task[c].count = Cardinality(task[c].found \ task[c].failed)
                           /\ Scan(task[c].cmd.filter) \subseteq task[c].failed
    BY DEF CountsExact
  <2>1. /\ task[c].pc = "run" /\ task[c].answer = "ok" /\ task[c].todo = {}
        /\ task[c].checked = None /\ WorkOf(c)
    BY DEF Through, Running, WorkInv
  <2>2. CASE task[c].cmd.op = "UpdateDoc"
    <3>1. Updating(c) /\ Unsaved(c) = task[c].failed
      BY <2>1, <2>2 DEF Updating, Running, Unsaved
    <3>2. UpdateCounted(c) /\ UpdateWritten(c) BY <2>1 DEF WorkOf
    <3> QED BY <2>2, <3>1, <3>2 DEF UpdateCounted, UpdateWritten
  <2>3. CASE task[c].cmd.op = "DeleteDoc"
    <3> SUFFICES ASSUME c \notin met
                 PROVE  /\ task[c].count = Cardinality(task[c].found \ task[c].failed)
                        /\ Scan(task[c].cmd.filter) \subseteq task[c].failed
      BY <2>3
    <3>1. /\ task[c].count = Cardinality(task[c].found \ Left(c))
          /\ Scan(task[c].cmd.filter) \subseteq Left(c)
      BY <2>1, <2>3 DEF WorkOf, DeleteCounted, Deleting, Running
    <3>2. None \notin Scan(task[c].cmd.filter) /\ None \notin task[c].found
      BY ServerAssumption DEF Scan, Present, Base, Types, Records
    <3>3. Left(c) = task[c].failed \cup {None} BY <2>1 DEF Left
    <3>4. task[c].found \ Left(c) = task[c].found \ task[c].failed BY <3>2, <3>3
    <3> QED BY <3>1, <3>2, <3>3, <3>4
  <2> QED BY <2>2, <2>3
<1> QED BY <1>1, Invariants, PTL
=============================================================================
