------------------------------- MODULE Backup -------------------------------
(***************************************************************************)
(* BackupManager: snapshots of the persistent layer taken while documents  *)
(* are written, their commit by renaming, the retention of the newest ones, *)
(* restoring, and recovery to a point in time from a directory of log      *)
(* files.  Tasks of the server interleave between two accesses to a file   *)
(* or to the database.                                                     *)
(*                                                                         *)
(* A document has one field, whose value is the number of the write that   *)
(* set it; 0 stands for an absent document.  A snapshot file is a sequence *)
(* of sections at fixed places, so that two calls that write to the same   *)
(* file overwrite each other's sections.  Nothing in the server writes the *)
(* log: the program that does is the environment, and logs each write in   *)
(* the step that makes it.                                                 *)
(***************************************************************************)
EXTENDS Naturals, Sequences, FiniteSets, SequencesExt

CONSTANTS
    Tasks,        \* tasks that serve a backup command
    Cols, Ids,    \* collections (numbers, in the order of their names) and document ids
    MaxBackups,   \* MAX_BACKUPS
    FileSize,     \* entries in one file of the log
    Extensions,   \* extensions the files in a directory of the log may have
    MaxClock,     \* bound: seconds
    Budgets,      \* bounds to choose from: writes, backups, other calls, and mishaps
                  \* (crashes, failing accesses, corrections of the clock)
    None

ASSUME BackupAssumption ==
    /\ Cols \subseteq Nat
    /\ MaxBackups \in Nat \ {0} /\ FileSize \in Nat \ {0}
    /\ MaxClock \in Nat
    /\ Budgets \subseteq [writes: Nat, backups: Nat, others: Nat, mishaps: Nat]

VARIABLES
    db,               \* documents of the persistent layer
    log,              \* entries of the write-ahead log, sequence numbers from 0
    clock,
    tmp, final,       \* the backup directory: backup id -> file, or 0
    tmp_meta, meta,   \* the backup directory: backup id -> created_at, or None
    files,            \* what the files hold
    task,             \* per task: the call it is in
    fresh,            \* history: "empty" after the data were lost, then the task recovering
    left,                         \* what is left of the budget
    moment,                       \* times taken so far
    setback, deleted, overlapped  \* history

dirVars == <<tmp, final, tmp_meta, meta, files>>
envVars == <<log, clock, setback>>
vars == <<db, envVars, dirVars, task, fresh, left, moment, deleted, overlapped>>

-----------------------------------------------------------------------------
Keys == Cols \X Ids
Seconds == 1..MaxClock
NoDocs == [k \in Keys |-> 0]

\* Sections of a snapshot file.
Header(s, cols) == [kind |-> "head", seq |-> s, cols |-> cols]
Body(c, docs) == [kind |-> "body", col |-> c, docs |-> docs]
Hole == [kind |-> "hole"]

Idle == [pc |-> "idle", id |-> 0, file |-> 0, cols |-> << >>, sum |-> << >>,
         todo |-> {}, victim |-> 0, target |-> 0, seq |-> 0, pos |-> 0, last |-> 0]

Init ==
    /\ db = NoDocs /\ log = << >>
    /\ clock = 1
    /\ tmp = [s \in Seconds |-> 0] /\ final = [s \in Seconds |-> 0]
    /\ tmp_meta = [s \in Seconds |-> None] /\ meta = [s \in Seconds |-> None]
    /\ files = << >>
    /\ task = [t \in Tasks |-> Idle]
    /\ fresh = "no"
    /\ left \in Budgets
    /\ moment = 0 /\ setback = FALSE /\ deleted = FALSE /\ overlapped = FALSE

\* A step that something in the budget pays for.
Spend(what) == left[what] > 0 /\ left' = [left EXCEPT ![what] = @ - 1]

Mishap(wrong) == IF wrong THEN Spend("mishaps") ELSE left' = left

Return(t) == task' = [task EXCEPT ![t] = Idle]

-----------------------------------------------------------------------------
(* The environment: writes, the clock, crashes.                            *)

\* apply_operation: entry number n of the log, applied to documents d.
Apply(d, n) ==
    CASE log[n].op = "insert" -> [d EXCEPT ![log[n].key] = n]
      [] log[n].op = "update" -> IF d[log[n].key] = 0 THEN d
                                 ELSE [d EXCEPT ![log[n].key] = n]
      [] log[n].op = "delete" -> [d EXCEPT ![log[n].key] = 0]

\* The entries after the first m, up to entry number n, applied to d.
Replayed(d, m, n) ==
    LET r[i \in m..n] == IF i = m THEN d ELSE Apply(r[i - 1], i)
    IN IF m > n THEN d ELSE r[n]

Write(k, op) ==
    /\ Spend("writes")
    /\ op = "insert" <=> db[k] = 0
    /\ log' = Append(log, [op |-> op, key |-> k, time |-> clock])
    /\ db' = [db EXCEPT ![k] = IF op = "delete" THEN 0 ELSE Len(log) + 1]
    /\ fresh' = "no"
    /\ UNCHANGED <<clock, setback, dirVars, task, deleted, moment,
                   overlapped>>

Tick ==
    /\ clock < MaxClock
    /\ clock' = clock + 1
    /\ UNCHANGED <<db, log, setback, dirVars, task, fresh, left, deleted, moment, overlapped>>

\* Utc::now() follows corrections of the system's clock.
SetBack ==
    /\ clock > 1 /\ Spend("mishaps")
    /\ clock' = clock - 1 /\ setback' = TRUE
    /\ UNCHANGED <<db, log, dirVars, task, fresh, deleted, moment, overlapped>>

\* The process stops and is started again, on its data or on an empty directory.  Where this
\* would change nothing, it is left out.
Crash(lost) ==
    /\ IF lost THEN db # NoDocs ELSE \E t \in Tasks : task[t].pc # "idle"
    /\ Spend("mishaps")
    /\ task' = [t \in Tasks |-> Idle]
    /\ db' = IF lost THEN NoDocs ELSE db
    /\ fresh' = IF lost THEN "empty" ELSE "no"
    /\ UNCHANGED <<envVars, dirVars, deleted, moment, overlapped>>

-----------------------------------------------------------------------------
(* create_backup                                                           *)

Creating == {t \in Tasks : task[t].pc \in
                {"scan", "finalize", "save_meta", "rename", "rename_meta", "cleanup", "remove"}}

\* Mutant: the loop over the names leaves out the last one.
list_collections_short(d) ==
    LET names == {c \in Cols : \E i \in Ids : d[<<c, i>>] # 0}
    IN SetToSortSeq({c \in names : \E e \in names : c < e}, <)

\* The sorted names that occur in the keys of the documents.
list_collections(d) ==
    SetToSortSeq({c \in Cols : \E i \in Ids : d[<<c, i>>] # 0}, <)

scan_collection(c) ==
    LET found == {i \in Ids : db[<<c, i>>] # 0} IN [i \in found |-> db[<<c, i>>]]

\* A section written at place p.
write_bytes(content, p, section) ==
    [i \in 1..(IF p > Len(content) THEN p ELSE Len(content)) |->
        IF i = p THEN section ELSE IF i <= Len(content) THEN content[i] ELSE Hole]

\* The file File::create opens: the one that has the name, or a new one.
Opened(id) == IF tmp[id] # 0 THEN tmp[id] ELSE Len(files) + 1

\* The last sequence number of the log, 0 before the first.
LastSequence == IF log = << >> THEN 0 ELSE Len(log) - 1

\* Times are finer than the seconds that make an id, and no two are the same.
Now == <<clock, moment>>
Passes == moment' = moment + 1
Earlier(a, b) == a[1] < b[1] \/ (a[1] = b[1] /\ a[2] < b[2])

\* begun to shared are history: the length of the log; the database holds what was logged; a
\* scan failed; when it was finished; another call is under way with the same id.
NewFile(id, s, cols) ==
    [content |-> write_bytes(<< >>, 1, Header(s, cols)), born |-> Now, begun |-> Len(log),
     clean |-> db = Replayed(NoDocs, 0, Len(log)), flawed |-> FALSE, done |-> 0,
     shared |-> \E t \in Creating : task[t].id = id]

\* The id is the second of the call.  The header carries the number the client sent.
BeginBackup(t, s, fails) ==
    LET id == clock
        cols == IF fails THEN << >> ELSE list_collections(db)
        n == Opened(id)
        file == [NewFile(id, s, cols) EXCEPT !.flawed = fails]
    IN
    /\ task[t].pc = "idle"
    /\ left.backups > 0 /\ (fails => left.mishaps > 0)
    /\ left' = [left EXCEPT !.backups = @ - 1, !.mishaps = IF fails THEN @ - 1 ELSE @]
    /\ files' = IF n <= Len(files) THEN [files EXCEPT ![n] = file] ELSE Append(files, file)
    /\ tmp' = [tmp EXCEPT ![id] = n]
    /\ overlapped' = (overlapped \/ Creating # {})
    /\ Passes
    /\ task' = [task EXCEPT ![t] =
                  [Idle EXCEPT !.pc = IF cols = << >> THEN "finalize" ELSE "scan",
                               !.id = id, !.file = n, !.cols = cols, !.pos = 1,
                               !.sum = <<Header(s, cols)>>]]
    /\ UNCHANGED <<db, envVars, final, tmp_meta, meta, fresh, deleted>>

\* A scan that fails counts as an empty collection.
ScanCollection(t, fails) ==
    LET r == task[t]
        section == Body(r.cols[r.pos], IF fails THEN << >> ELSE scan_collection(r.cols[r.pos]))
    IN
    /\ r.pc = "scan"
    /\ Mishap(fails)
    /\ files' = [files EXCEPT ![r.file].content = write_bytes(@, r.pos + 1, section),
                              ![r.file].flawed = @ \/ fails]
    /\ task' = [task EXCEPT ![t].pos = @ + 1, ![t].sum = Append(@, section),
                            ![t].pc = IF r.pos = Len(r.cols) THEN "finalize" ELSE "scan"]
    /\ UNCHANGED <<db, envVars, tmp, final, tmp_meta, meta, fresh, deleted, moment, overlapped>>

\* Mutant: the checksum leaves out the header.
footer_unheaded(sum) == [kind |-> "foot", sum |-> Tail(sum)]

footer(sum) == [kind |-> "foot", sum |-> sum]

Finalize(t) ==
    /\ task[t].pc = "finalize"
    /\ files' = [files EXCEPT
                   ![task[t].file].content = write_bytes(@, task[t].pos + 1, footer(task[t].sum)),
                   ![task[t].file].done = clock]
    /\ task' = [task EXCEPT ![t] = [Idle EXCEPT !.pc = "save_meta", !.id = task[t].id,
                                                    !.file = task[t].file]]
    /\ UNCHANGED <<db, envVars, tmp, final, tmp_meta, meta, fresh, left, deleted, moment,
                   overlapped>>

\* The size of the file is asked for first.
SaveMeta(t) ==
    /\ task[t].pc = "save_meta" /\ tmp[task[t].id] # 0
    /\ tmp_meta' = [tmp_meta EXCEPT ![task[t].id] = Now] /\ Passes
    /\ task' = [task EXCEPT ![t].pc = "rename"]
    /\ UNCHANGED <<db, envVars, tmp, final, meta, files, fresh, left, deleted,
                   overlapped>>

RenameSnapshot(t) ==
    LET id == task[t].id IN
    /\ task[t].pc = "rename" /\ tmp[id] # 0
    /\ final' = [final EXCEPT ![id] = tmp[id]]
    /\ tmp' = [tmp EXCEPT ![id] = 0]
    /\ task' = [task EXCEPT ![t].pc = "rename_meta"]
    /\ UNCHANGED <<db, envVars, tmp_meta, meta, files, fresh, left, deleted, moment, overlapped>>

RenameMeta(t) ==
    LET id == task[t].id IN
    /\ task[t].pc = "rename_meta" /\ tmp_meta[id] # None
    /\ meta' = [meta EXCEPT ![id] = tmp_meta[id]]
    /\ tmp_meta' = [tmp_meta EXCEPT ![id] = None]
    /\ task' = [task EXCEPT ![t] = [Idle EXCEPT !.pc = "cleanup", !.id = id]]
    /\ UNCHANGED <<db, envVars, tmp, final, files, fresh, left, deleted, moment, overlapped>>

\* The call returns an error: another one took the file away.
BackupFails(t) ==
    LET r == task[t] IN
    /\ \/ r.pc \in {"save_meta", "rename"} /\ tmp[r.id] = 0
       \/ r.pc = "rename_meta" /\ tmp_meta[r.id] = None
    /\ Return(t)
    /\ UNCHANGED <<db, envVars, dirVars, fresh, left, deleted, moment, overlapped>>

-----------------------------------------------------------------------------
(* list_backups, cleanup_old_backups, DELETE_BACKUP                        *)

\* Mutant: without metadata the present time counts.
created_at_now(i) == IF meta[i] # None THEN meta[i] ELSE Now

\* Without metadata the time at which the file was made counts.
created_at(i) == IF meta[i] # None THEN meta[i] ELSE files[final[i]].born

list_backups == {i \in Seconds : final[i] # 0}

\* The backups to delete out of those listed.
OldestOf(old, listed) ==
    \A i \in old, j \in listed \ old : Earlier(created_at(i), created_at(j))

Cleanup(t) ==
    /\ task[t].pc = "cleanup"
    /\ \E old \in SUBSET list_backups :
          /\ Cardinality(old) = IF Cardinality(list_backups) > MaxBackups
                                THEN Cardinality(list_backups) - MaxBackups ELSE 0
          /\ OldestOf(old, list_backups)
          /\ task' = [task EXCEPT ![t] = IF old = {} THEN Idle
                                         ELSE [@ EXCEPT !.pc = "remove", !.todo = old]]
    /\ UNCHANGED <<db, envVars, dirVars, fresh, left, deleted, moment, overlapped>>

\* A file that cannot be removed is left, with its metadata.
RemoveFile(t, fails) ==
    /\ task[t].pc = "remove"
    /\ \E i \in task[t].todo :
          /\ fails => final[i] # 0
          /\ final' = IF fails THEN final ELSE [final EXCEPT ![i] = 0]
          /\ task' = [task EXCEPT ![t].todo = @ \ {i}, ![t].victim = i,
                        ![t].pc = CASE ~fails -> "remove_meta"
                                    [] fails /\ task[t].todo = {i} -> "returns"
                                    [] OTHER -> "remove"]
    /\ Mishap(fails)
    /\ UNCHANGED <<db, envVars, tmp, tmp_meta, meta, files, fresh, deleted, moment, overlapped>>

RemoveMeta(t) ==
    /\ task[t].pc = "remove_meta"
    /\ meta' = [meta EXCEPT ![task[t].victim] = None]
    /\ task' = [task EXCEPT ![t] = IF @.todo = {} THEN Idle
                                   ELSE [@ EXCEPT !.pc = "remove"]]
    /\ UNCHANGED <<db, envVars, tmp, final, tmp_meta, files, fresh, left, deleted, moment,
                   overlapped>>

Done(t) ==
    /\ task[t].pc \in {"returns", "recovered"}
    /\ Return(t)
    /\ UNCHANGED <<db, envVars, dirVars, fresh, left, deleted, moment, overlapped>>

DeleteBackup(t) ==
    /\ task[t].pc = "idle"
    /\ \E i \in list_backups :
          /\ final' = [final EXCEPT ![i] = 0]
          /\ task' = [task EXCEPT ![t].pc = "remove_meta", ![t].victim = i]
    /\ deleted' = TRUE
    /\ Spend("others")
    /\ UNCHANGED <<db, envVars, tmp, tmp_meta, meta, files, fresh, moment, overlapped>>

-----------------------------------------------------------------------------
(* restore_backup and point_in_time_recovery                               *)

\* History: snapshots being taken while something other than a logged write changes documents.
Disturbed ==
    [f \in DOMAIN files |->
        [files[f] EXCEPT !.flawed = @ \/ \E t \in Creating : task[t].file = f]]

Content(t) == files[task[t].file].content

\* The section at place p is there and of this kind.
Readable(content, p, kind) == p <= Len(content) /\ content[p].kind = kind

\* target is 0 for a restore.
BeginRestore(t, target) ==
    /\ task[t].pc = "idle"
    /\ \E i \in list_backups :
          /\ Readable(files[final[i]].content, 1, "head")
          /\ LET head == files[final[i]].content[1] IN
             task' = [task EXCEPT ![t] =
                        [Idle EXCEPT !.pc = "load", !.file = final[i], !.target = target,
                                     !.seq = head.seq, !.cols = head.cols, !.sum = <<head>>,
                                     !.pos = 1]]
    /\ fresh' = IF fresh = "empty" THEN t ELSE "no"
    /\ Spend("others")
    /\ UNCHANGED <<db, envVars, dirVars, deleted, moment, overlapped>>

ReadCollection(t) ==
    LET r == task[t] IN
    /\ r.pc = "load" /\ r.todo = {} /\ r.pos <= Len(r.cols)
    /\ Readable(Content(t), r.pos + 1, "body")
    /\ LET section == Content(t)[r.pos + 1] IN
       task' = [task EXCEPT ![t].pos = @ + 1, ![t].sum = Append(@, section),
                            ![t].todo = DOMAIN section.docs]
    /\ UNCHANGED <<db, envVars, dirVars, fresh, left, deleted, moment, overlapped>>

InsertRead(t) ==
    LET r == task[t]
        section == r.sum[Len(r.sum)]
    IN
    /\ r.pc = "load"
    /\ \E i \in r.todo :
          /\ db' = [db EXCEPT ![<<section.col, i>>] = section.docs[i]]
          /\ task' = [task EXCEPT ![t].todo = @ \ {i}]
    /\ files' = Disturbed
    /\ UNCHANGED <<envVars, tmp, final, tmp_meta, meta, fresh, left, deleted, moment, overlapped>>

\* The checksum is compared once every document is in the database.
FooterOk(content, p, sum) == Readable(content, p, "foot") /\ content[p].sum = sum

ReadFooter(t) ==
    LET r == task[t] IN
    /\ r.pc = "load" /\ r.todo = {} /\ r.pos > Len(r.cols)
    /\ FooterOk(Content(t), r.pos + 1, r.sum)
    /\ task' = [task EXCEPT ![t] = IF r.target = 0 THEN Idle
                                   ELSE [@ EXCEPT !.pc = "find", !.pos = 0]]
    /\ UNCHANGED <<db, envVars, dirVars, fresh, left, deleted, moment, overlapped>>

RestoreFails(t) ==
    LET r == task[t] IN
    /\ r.pc = "load" /\ r.todo = {}
    /\ IF r.pos <= Len(r.cols) THEN ~Readable(Content(t), r.pos + 1, "body")
       ELSE ~FooterOk(Content(t), r.pos + 1, r.sum)
    /\ Return(t)
    /\ UNCHANGED <<db, envVars, dirVars, fresh, left, deleted, moment, overlapped>>

\* Number of the file that holds entry number n of the log.
FileOf(n) == (n - 1) \div FileSize

\* Files whose number, not whose entries, is above the sequence number of the backup.
find_wal_files_after(s, ext) ==
    IF ext = "wal" THEN {f \in {FileOf(n) : n \in DOMAIN log} : f > s} ELSE {}

\* The client names the directory, and so what its files are called.
FindFiles(t, ext) ==
    LET found == find_wal_files_after(task[t].seq, ext) IN
    /\ task[t].pc = "find"
    /\ task' = [task EXCEPT ![t].todo = found, ![t].last = 0,
                  ![t].pc = IF found = {} THEN "recovered" ELSE "replay",
                  ![t].pos = IF found = {} THEN 0 ELSE (task[t].seq + 1) * FileSize + 1]
    /\ UNCHANGED <<db, envVars, dirVars, fresh, left, deleted, moment, overlapped>>

\* Mutant: stops at the target time instead of after it.
past_target_early(time, target) == time >= target

past_target(time, target) == time > target

\* seq is the number applied last, last its time.
Ambiguous(t) ==
    LET r == task[t] IN log[r.pos].time < r.last \/ r.pos - 1 <= r.seq

AtEnd(t) ==
    LET r == task[t] IN
    r.pos \in DOMAIN log =>
        FileOf(r.pos) \notin r.todo \/ past_target(log[r.pos].time, r.target)

ReplayEntry(t) ==
    LET r == task[t] IN
    /\ r.pc = "replay" /\ ~AtEnd(t) /\ ~Ambiguous(t)
    /\ db' = Apply(db, r.pos)
    /\ task' = [task EXCEPT ![t].pos = @ + 1, ![t].seq = r.pos - 1, ![t].last = log[r.pos].time]
    /\ files' = Disturbed
    /\ UNCHANGED <<envVars, tmp, final, tmp_meta, meta, fresh, left, deleted, moment, overlapped>>

ReplayEnds(t) ==
    /\ task[t].pc = "replay" /\ AtEnd(t)
    /\ task' = [task EXCEPT ![t].pc = "recovered"]
    /\ UNCHANGED <<db, envVars, dirVars, fresh, left, deleted, moment, overlapped>>

ReplayFails(t) ==
    /\ task[t].pc = "replay" /\ ~AtEnd(t) /\ Ambiguous(t)
    /\ Return(t)
    /\ UNCHANGED <<db, envVars, dirVars, fresh, left, deleted, moment, overlapped>>

-----------------------------------------------------------------------------
Step(t) ==
    \/ \E s \in {0, LastSequence}, fails \in BOOLEAN :
          BeginBackup(t, s, fails)
    \/ \E fails \in BOOLEAN : ScanCollection(t, fails) \/ RemoveFile(t, fails)
    \/ Finalize(t) \/ SaveMeta(t) \/ RenameSnapshot(t) \/ RenameMeta(t) \/ BackupFails(t)
    \/ Cleanup(t) \/ RemoveMeta(t) \/ DeleteBackup(t) \/ Done(t)
    \/ \E target \in 0..clock : BeginRestore(t, target)
    \/ ReadCollection(t) \/ InsertRead(t) \/ ReadFooter(t) \/ RestoreFails(t)
    \/ \E ext \in Extensions : FindFiles(t, ext)
    \/ ReplayEntry(t) \/ ReplayEnds(t) \/ ReplayFails(t)

Next ==
    \/ \E k \in Keys, op \in {"insert", "update", "delete"} : Write(k, op)
    \/ Tick \/ SetBack
    \/ \E lost \in BOOLEAN : Crash(lost)
    \/ \E t \in Tasks : Step(t)

Spec == Init /\ [][Next]_vars

-----------------------------------------------------------------------------
(* The type of every variable. *)
TypeOK ==
    /\ db \in [Keys -> 0..Len(log)]
    /\ clock \in Seconds
    /\ tmp \in [Seconds -> 0..Len(files)] /\ final \in [Seconds -> 0..Len(files)]
    /\ \A i \in Seconds : {tmp_meta[i], meta[i]} \subseteq (Seconds \X (0..moment)) \cup {None}
    /\ \A t \in Tasks : task[t].file \in 0..Len(files)
    /\ fresh \in {"no", "empty"} \cup Tasks

Complete(content) ==
    /\ Readable(content, 1, "head")
    /\ LET n == Len(content[1].cols) + 1
       IN FooterOk(content, n + 1, SubSeq(content, 1, n))

(* A file that has the final name of a backup can be restored to its end,  *)
(* whatever crashed or failed in between, unless two create_backup calls   *)
(* got the same id and wrote to the same temporary file (backup.rs:89-137).*)
CompleteUnlessShared ==
    \A i \in list_backups :
        files[final[i]].shared \/ Complete(files[final[i]].content)

SnapshotOf(content) ==
    [k \in Keys |->
        LET places == {p \in DOMAIN content : /\ content[p].kind = "body"
                                              /\ content[p].col = k[1]
                                              /\ k[2] \in DOMAIN content[p].docs}
        IN IF places = {} THEN 0 ELSE content[CHOOSE p \in places : TRUE].docs[k[2]]]

(* create_snapshot scans one collection after the other while documents    *)
(* are written, so a snapshot is no state the database ever had.  Restored *)
(* into an empty database, with the entries from its sequence number on    *)
(* replayed as replay_wal does, it still gives every document as the log   *)
(* leaves it (snapshot/writer.rs:156-209, wal/replay.rs).                  *)
SnapshotCoversLog ==
    \A f \in DOMAIN files :
        /\ files[f].done # 0 /\ files[f].clean
        /\ ~files[f].flawed /\ ~files[f].shared
        => Replayed(SnapshotOf(files[f].content), files[f].content[1].seq, Len(log))
             = Replayed(NoDocs, 0, Len(log))

\* Retention, not a client, removes backup i.
Retired(i) == final[i] # 0 /\ final'[i] = 0 /\ ~deleted'

(* Whatever cleanup_old_backups removes, MAX_BACKUPS backups stay that     *)
(* were begun later.  That is the order of the calls; the code sorts by    *)
(* created_at, which stands in the metadata or, after a crash between the  *)
(* two renames, is the time at which the file was made.  Calls do not      *)
(* overlap, no client deletes one and the clock goes forward               *)
(* (backup.rs:236-277, 423-480).                                           *)
RetentionKeepsNewest ==
    [][\A i \in Seconds :
          Retired(i) /\ ~overlapped /\ ~setback
          => Cardinality({j \in Seconds : final'[j] > final[i]}) >= MaxBackups]_vars

(* A point_in_time_recovery that succeeds on an empty database leaves what *)
(* the log had at the target time, if the backup was complete by then, the *)
(* clock never went back, and no entry it needs is in a file whose number  *)
(* is not above the backup's sequence number, or has another extension     *)
(* (backup.rs:164-175, 303-420).                                           *)
RecoversTo ==
    \A t \in Tasks :
        LET file == files[task[t].file]
            wanted == {n \in DOMAIN log : log[n].time <= task[t].target}
        IN
        /\ task[t].pc = "recovered" /\ fresh = t /\ ~setback
        /\ file.clean /\ ~file.flawed /\ ~file.shared
        /\ file.done <= task[t].target
        /\ \A n \in wanted :
              n > file.begun \/ n - 1 > file.content[1].seq => FileOf(n) \in task[t].todo
        => db = Replayed(NoDocs, 0, Cardinality(wanted))

=============================================================================
