-------------------------------- MODULE Wal --------------------------------
(***************************************************************************)
(* The write-ahead log of wal/: WalWriter (append, rotation to a new file, *)
(* fsync policies, compaction, the scan at start-up), WalReader and the    *)
(* order in which replay_all_wals reads the files back.                    *)
(*                                                                         *)
(* Tasks append concurrently: a sequence number is taken from an atomic    *)
(* counter, and only the write itself holds the lock of the file.  Bytes   *)
(* are counted in entries.  What is not yet fsynced may be lost in a       *)
(* crash, back to any point, and an entry may be cut in two: Torn.         *)
(***************************************************************************)
EXTENDS Integers, Sequences, FiniteSets, FiniteSetsExt

CONSTANTS WriterSets,    \* sets of tasks that may use the log
          Policies,      \* fsync policies to start with
          MaxFileSize,   \* max_file_size, in entries
          Compaction,    \* compact is called
          MaxAppends,    \* bound: appends
          MaxFiles,      \* bound: file numbers
          MaxCrashes     \* bound: crashes

ASSUME WalAssumption ==
  /\ MaxFileSize \in Nat \ {0}
  /\ MaxAppends \in Nat /\ MaxFiles \in Nat /\ MaxCrashes \in Nat
  /\ \A W \in WriterSets : IsFiniteSet(W)

VARIABLES
  writers, fsync_policy, \* the tasks that append; config.fsync_policy
  current_sequence, file_number, current_file_size,  \* the writer's counters
  file,              \* number of the file behind the locked BufWriter
  wals, synced,      \* per number: the entries in the file; how many are fsynced
  existing,          \* numbers of the files in the directory
  pc, entry, opened, \* per appender: its call, its entry, the file it opened
  appends, crashes,  \* history: entries made, crashes
  acked,             \* history: entries whose append returned
  compacted          \* history: the highest threshold of a compaction, or -1

counterVars == <<current_sequence, file_number, current_file_size, file>>
diskVars == <<wals, synced, existing>>
callVars == <<pc, entry, opened>>
histVars == <<appends, crashes, acked, compacted>>
vars == <<writers, fsync_policy, counterVars, diskVars, callVars, histVars>>

Appenders == UNION WriterSets
FileNumbers == 0..MaxFiles
Entry(s, n) == [sequence |-> s, id |-> n]
NoEntry == Entry(0, 0)
\* An entry that was cut: in its length, or after it.
TornLength == Entry(0, -1)
TornBody == Entry(0, -2)
Torn == {TornLength, TornBody}

Init ==
  /\ writers \in WriterSets
  /\ fsync_policy \in Policies
  /\ current_sequence = 0 /\ file_number = 0 /\ current_file_size = 0 /\ file = 0
  /\ wals = [f \in FileNumbers |-> << >>] /\ synced = [f \in FileNumbers |-> 0]
  /\ existing = {0}
  /\ pc = [a \in Appenders |-> "idle"]
  /\ entry = [a \in Appenders |-> NoEntry] /\ opened = [a \in Appenders |-> 0]
  /\ appends = 0 /\ crashes = 0 /\ acked = {} /\ compacted = -1

Goto(a, label) == pc' = [pc EXCEPT ![a] = label]

\* sync_all on the file behind the writer.
SyncFile == synced' = [synced EXCEPT ![file] = Len(wals[file])]

-----------------------------------------------------------------------------
(* append *)

\* Mutated form: a plain load.
after_load(s) == s

after_fetch_add(s) == s + 1

TakeSequence(a) ==
  /\ a \in writers /\ pc[a] = "idle" /\ appends < MaxAppends
  /\ appends' = appends + 1
  /\ entry' = [entry EXCEPT ![a] = Entry(current_sequence, appends + 1)]
  /\ current_sequence' = after_fetch_add(current_sequence)
  /\ Goto(a, "check")
  /\ UNCHANGED <<writers, fsync_policy, file_number, current_file_size, file, diskVars, opened,
                 crashes, acked, compacted>>

should_rotate(size) == size + 1 > MaxFileSize

CheckSize(a) ==
  /\ pc[a] = "check"
  /\ Goto(a, IF should_rotate(current_file_size) THEN "flush" ELSE "write")
  /\ UNCHANGED <<writers, fsync_policy, counterVars, diskVars, entry, opened, histVars>>

\* Mutated form: the old file is not flushed.
RotateFlushSkipped(a) ==
  /\ pc[a] = "flush"
  /\ Goto(a, "number")
  /\ UNCHANGED <<writers, fsync_policy, counterVars, diskVars, entry, opened, histVars>>

\* rotate_file: flush the old file, take a number and open the new file,
\* replace the writer, and only then reset the size.
RotateFlush(a) ==
  /\ pc[a] = "flush"
  /\ SyncFile
  /\ Goto(a, "number")
  /\ UNCHANGED <<writers, fsync_policy, counterVars, wals, existing, entry, opened, histVars>>

RotateNumber(a) ==
  /\ pc[a] = "number" /\ file_number < MaxFiles
  /\ file_number' = file_number + 1
  /\ opened' = [opened EXCEPT ![a] = file_number + 1]
  /\ Goto(a, "open")
  /\ UNCHANGED <<writers, fsync_policy, current_sequence, current_file_size, file, diskVars,
                 entry, histVars>>

RotateOpen(a) ==
  /\ pc[a] = "open"
  /\ existing' = existing \cup {opened[a]}
  /\ Goto(a, "replace")
  /\ UNCHANGED <<writers, fsync_policy, counterVars, wals, synced, entry, opened, histVars>>

RotateReplace(a) ==
  /\ pc[a] = "replace"
  /\ file' = opened[a]
  /\ Goto(a, "reset")
  /\ UNCHANGED <<writers, fsync_policy, current_sequence, file_number, current_file_size,
                 diskVars, entry, opened, histVars>>

RotateReset(a) ==
  /\ pc[a] = "reset"
  /\ current_file_size' = 0
  /\ Goto(a, "write")
  /\ UNCHANGED <<writers, fsync_policy, current_sequence, file_number, file, diskVars, entry,
                 opened, histVars>>

\* Mutated form: no policy syncs.
syncs_never(policy) == FALSE

syncs_on_append(policy) == policy = "Always"

\* Under the lock: the write and, with the policy Always, the fsync.  Writing to
\* a file that was removed from the directory is lost.
WriteEntry(a) ==
  /\ pc[a] = "write"
  /\ wals' = [wals EXCEPT ![file] = Append(@, entry[a])]
  /\ synced' = IF syncs_on_append(fsync_policy)
               THEN [synced EXCEPT ![file] = Len(wals[file]) + 1] ELSE synced
  /\ Goto(a, "count")
  /\ UNCHANGED <<writers, fsync_policy, counterVars, existing, entry, opened, histVars>>

CountAndReturn(a) ==
  /\ pc[a] = "count"
  /\ current_file_size' = current_file_size + 1
  /\ acked' = acked \cup {entry[a]}
  /\ Goto(a, "idle")
  /\ UNCHANGED <<writers, fsync_policy, current_sequence, file_number, file, diskVars, entry,
                 opened, appends, crashes, compacted>>

\* flush, called by the background task once a second with its policy.
BackgroundFsync ==
  /\ fsync_policy = "EverySecond" /\ synced[file] # Len(wals[file])
  /\ SyncFile
  /\ UNCHANGED <<writers, fsync_policy, counterVars, wals, existing, callVars, histVars>>

-----------------------------------------------------------------------------
(* Reading *)

\* The entries next_entry yields before the end of the file or an error.
Readable(s) ==
  LET whole == {n \in 0..Len(s) : \A i \in 1..n : s[i] \notin Torn}
  IN  SubSeq(s, 1, Max(whole))

\* next_entry gets to the end: a length that is cut short reads as the end of the
\* file when it is the end, and as a wrong length when more was appended.
ReadsToEnd(s) ==
  \A i \in 1..Len(s) : s[i] \in Torn => s[i] = TornLength /\ i = Len(s)

SequencesOf(s) == {s[i].sequence : i \in 1..Len(s)}

scan_existing_wals(files, numbers) ==
  LET found == Max({0} \cup UNION {SequencesOf(Readable(files[f])) : f \in numbers})
  IN  IF found > 0 THEN found + 1 ELSE 0

file_contains_only_entries_before(s, t) == \A i \in 1..Len(s) : s[i].sequence < t

\* What another reader sees of a file: of the one behind the BufWriter, perhaps
\* not what was written since the last flush.
Visible(f) ==
  {SubSeq(wals[f], 1, n) : n \in (IF f = file THEN synced[f] ELSE Len(wals[f]))..Len(wals[f])}

\* One file of compact; a file that cannot be read to its end is kept.
CompactFile(f, t) ==
  /\ Compaction
  /\ f \in existing /\ f < file_number
  /\ \E s \in Visible(f) : ReadsToEnd(s) /\ file_contains_only_entries_before(Readable(s), t)
  /\ existing' = existing \ {f}
  /\ compacted' = Max({t, compacted})
  /\ UNCHANGED <<writers, fsync_policy, counterVars, wals, synced, callVars, appends, crashes,
                 acked>>

\* The entries replay_all_wals applies, in order: file after file, up to the
\* first error, which ends the whole replay.
ReplayedUpTo[n \in -1..MaxFiles] ==
  IF n = -1 THEN << >>
  ELSE IF n \notin existing \/ \E f \in existing : f < n /\ ~ReadsToEnd(wals[f])
       THEN ReplayedUpTo[n - 1]
       ELSE ReplayedUpTo[n - 1] \o Readable(wals[n])

Replayed == ReplayedUpTo[MaxFiles]

-----------------------------------------------------------------------------
\* Entries of a file that a crash may cut: what is not fsynced and, in the file
\* behind the writer, the one a task may be writing.
CutLengths(f) ==
  synced[f]..(IF f = file /\ \E a \in Appenders : pc[a] = "write"
              THEN Len(wals[f]) ELSE Len(wals[f]) - 1)

Remains(f) ==
  {SubSeq(wals[f], 1, n) : n \in synced[f]..Len(wals[f])} \cup
  UNION {{Append(SubSeq(wals[f], 1, n), t) : t \in Torn} : n \in CutLengths(f)}

AtRisk == {f \in existing : synced[f] < Len(wals[f]) \/ f = file}

\* The process dies and a new writer is created in the same directory: in the
\* file with the highest number, created if there is none.
Crash(left) ==
  /\ crashes < MaxCrashes
  /\ crashes' = crashes + 1
  /\ \A f \in AtRisk : left[f] \in Remains(f)
  /\ wals' = [f \in FileNumbers |-> IF f \in AtRisk THEN left[f]
                                    ELSE IF f \in existing THEN wals[f] ELSE << >>]
  /\ synced' = [f \in FileNumbers |-> Len(wals'[f])]
  /\ file_number' = Max({0} \cup existing) /\ file' = file_number'
  /\ existing' = existing \cup {file_number'}
  /\ current_sequence' = scan_existing_wals(wals', existing')
  /\ current_file_size' = Len(wals'[file'])
  /\ pc' = [a \in Appenders |-> "idle"]
  /\ UNCHANGED <<writers, fsync_policy, entry, opened, appends, acked, compacted>>

AppendStep(a) ==
  \/ CheckSize(a) \/ RotateFlush(a) \/ RotateNumber(a) \/ RotateOpen(a) \/ RotateReplace(a)
  \/ RotateReset(a) \/ WriteEntry(a) \/ CountAndReturn(a)

Next ==
  \/ \E a \in Appenders : TakeSequence(a) \/ AppendStep(a)
  \/ BackgroundFsync
  \/ \E f \in FileNumbers, t \in 0..MaxAppends : CompactFile(f, t)
  \/ \E left \in [AtRisk -> UNION {Remains(f) : f \in AtRisk}] : Crash(left)

Spec == Init /\ [][Next]_vars

\* Tasks inside append go on, and start_background_fsync was called: its timer
\* fires again and again.
FairSpec == Spec /\ WF_vars(BackgroundFsync) /\ \A a \in Appenders : WF_vars(AppendStep(a))

-----------------------------------------------------------------------------
OnDisk == UNION {{wals[f][i] : i \in 1..Len(wals[f])} : f \in existing}
IsIncreasing(s) == \A i, j \in 1..Len(s) : i < j => s[i].sequence < s[j].sequence

\* Every variable keeps its type.
TypeOK ==
  /\ current_sequence \in 0..MaxAppends /\ file_number \in FileNumbers
  /\ file \in FileNumbers /\ current_file_size \in Nat
  /\ existing \subseteq FileNumbers
  /\ \A f \in FileNumbers : synced[f] \in 0..Len(wals[f])
  /\ \A a \in Appenders : opened[a] \in FileNumbers
  /\ \A e \in acked : e.sequence \in 0..MaxAppends /\ e.id \in 1..MaxAppends

Alone == Cardinality(writers) = 1

\* With the policy Always, an entry whose append returned is in a file of the
\* directory, after crashes and rotations, until a compaction with a higher
\* threshold removes it.
AckedKept ==
  fsync_policy = "Always" =>
    \A e \in acked : e.sequence >= compacted => e \in OnDisk

\* That holds for a single task, and for several as long as nothing is compacted
\* (wal/writer.rs:92-220, 314-361).
KeptUnlessShared == Alone \/ compacted = -1 => AckedKept

\* A replay until the first crash gives a single task's entries in the order of their
\* sequence numbers, across the files of a rotation (wal/writer.rs, wal/replay.rs).
ReplayInOrder == Alone /\ crashes = 0 => IsIncreasing(Replayed)

\* With a single task and the background task, an entry whose append returned is
\* fsynced, although the log goes on to another file.
AckedSynced ==
  \A n \in 1..MaxAppends :
    (Alone /\ fsync_policy = "EverySecond" /\ \E e \in acked : e.id = n) ~>
    (crashes > 0 \/ \E f \in FileNumbers : \E i \in 1..synced[f] : wals[f][i].id = n)
=============================================================================
