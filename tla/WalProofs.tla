----------------------------- MODULE WalProofs -----------------------------
(***************************************************************************)
(* What the log of wal/writer.rs keeps, for any tasks, any size of a file, *)
(* any number of appends, files and crashes, with entries torn by them;    *)
(* and the order in which wal/replay.rs reads it back.                     *)
(***************************************************************************)
EXTENDS Wal, SequenceTheorems, FiniteSetTheorems, WellFoundedInduction, TLAPS

Labels == {"idle", "check", "flush", "number", "open", "replace", "reset", "write", "count"}
Entries == [sequence : Nat, id : Int]

(* The types that the steps rely on. *)
Types ==
  /\ fsync_policy \in Policies /\ writers \in WriterSets
  /\ file_number \in FileNumbers /\ file \in FileNumbers /\ current_file_size \in Nat
  /\ wals \in [FileNumbers -> Seq(Entries)] /\ synced \in [FileNumbers -> Nat]
  /\ existing \subseteq FileNumbers
  /\ pc \in [Appenders -> Labels] /\ entry \in [Appenders -> Entries]
  /\ opened \in [Appenders -> FileNumbers]
  /\ appends \in 0..MaxAppends /\ current_sequence \in 0..appends
  /\ acked \subseteq Entries /\ compacted \in Int /\ compacted >= -1

(* A sequence number is below the number of appends, also after a restart has set it back. *)
Numbered(e) == e.sequence = 0 \/ e.sequence < appends
Own(e) == Numbered(e) /\ e.id \in 1..appends

Numbers ==
  /\ \A f \in FileNumbers : \A i \in 1..Len(wals[f]) : Numbered(wals[f][i])
  /\ \A a \in Appenders : pc[a] # "idle" => a \in writers /\ Own(entry[a])
  /\ \A e \in acked : Own(e)

(* No more is synced than there is, with the policy Always all of it. *)
Flushed ==
  \A f \in FileNumbers :
    synced[f] <= Len(wals[f]) /\ (fsync_policy = "Always" => synced[f] = Len(wals[f]))

Base == Types /\ Numbers /\ Flushed

Safely == Alone \/ compacted = -1

(* The file behind the writer is in the directory whenever something may be written to it.   *)
(* A task that is alone writes to the newest file, which no compaction removes.              *)
Placed ==
  /\ compacted = -1 =>
       file \in existing /\ \A a \in Appenders : pc[a] = "replace" => opened[a] \in existing
  /\ Alone => \A a \in writers :
       /\ pc[a] \in {"open", "replace"} => opened[a] = file_number
       /\ pc[a] = "replace" => opened[a] \in existing
       /\ pc[a] \notin {"open", "replace"} => file = file_number /\ file \in existing

Stays(e) == e.sequence < compacted \/ e \in OnDisk

(* What was acknowledged, or is about to be, is in the directory. *)
Held ==
  Safely /\ fsync_policy = "Always" =>
    /\ \A e \in acked : Stays(e)
    /\ \A a \in Appenders : pc[a] = "count" => Stays(entry[a])

Inv == Base /\ Placed /\ Held

-----------------------------------------------------------------------------
(* A set of numbers with a bound has a greatest element. *)
LEMMA MaxElement ==
  ASSUME NEW S, S \subseteq Nat, S # {}, NEW n \in Nat, \A x \in S : x <= n
  PROVE  Max(S) \in S /\ \A x \in S : x <= Max(S)
<1> DEFINE R == OpToRel(<, Nat)
           T == {n - x : x \in S}
<1>1. IsWellFoundedOn(R, Nat) BY NatLessThanWellFounded
<1>2. \A x, y \in Nat : x < y => <<x, y>> \in R BY DEF OpToRel
<1>3. T \subseteq Nat /\ T # {}
  <2>1. \A x \in S : n - x \in Nat OBVIOUS
  <2>2. \E x : x \in S OBVIOUS
  <2> QED BY <2>1, <2>2
<1>4. \A y \in S : n - y \in T OBVIOUS
<1> HIDE DEF R
<1>5. PICK m \in T : \A y \in T : ~(<<y, m>> \in R)
  <2> HIDE DEF T
  <2> QED BY <1>1, <1>3, WFMin
<1>6. PICK x \in S : m = n - x OBVIOUS
<1>7. ASSUME NEW y \in S PROVE x >= y
  <2>1. x \in Nat /\ y \in Nat /\ m \in Nat /\ n - y \in Nat OBVIOUS
  <2>2. ~(n - y < m) BY <1>2, <1>4, <1>5, <2>1
  <2> QED BY <1>6, <2>1, <2>2
<1>8. /\ Max(S) \in S
      /\ \A y \in S : Max(S) >= y
  BY <1>7 DEF Max
<1> QED BY <1>8

(* A part of a sequence from its beginning. *)
LEMMA Prefix ==
  ASSUME NEW s \in Seq(Entries), NEW n \in 0..Len(s)
  PROVE  /\ SubSeq(s, 1, n) \in Seq(Entries) /\ Len(SubSeq(s, 1, n)) = n
         /\ \A i \in 1..n : SubSeq(s, 1, n)[i] = s[i]
<1>1. \A i \in 1..n : s[i] \in Entries OBVIOUS
<1>2. n \in Int /\ 1 \in Int OBVIOUS
<1>3. /\ SubSeq(s, 1, n) \in Seq(Entries)
      /\ Len(SubSeq(s, 1, n)) = IF 1 <= n THEN n - 1 + 1 ELSE 0
      /\ \A i \in 1..n - 1 + 1 : SubSeq(s, 1, n)[i] = s[1 + i - 1]
  BY <1>1, <1>2, SubSeqProperties
<1> QED BY <1>3

(* What a reader gets of a file is a beginning of it, up to the first entry that was cut. *)
LEMMA ReadsPrefix ==
  ASSUME NEW s \in Seq(Entries)
  PROVE  \E n \in 0..Len(s) :
           /\ Readable(s) = SubSeq(s, 1, n)
           /\ \A m \in 0..Len(s) : (\A i \in 1..m : s[i] \notin Torn) => m <= n
<1> DEFINE whole == {n \in 0..Len(s) : \A i \in 1..n : s[i] \notin Torn}
<1>1. whole \subseteq Nat /\ \A x \in whole : x <= Len(s) OBVIOUS
<1>2. 0 \in whole OBVIOUS
<1>3. Len(s) \in Nat OBVIOUS
<1>4. \A m \in 0..Len(s) : (\A i \in 1..m : s[i] \notin Torn) => m \in whole OBVIOUS
<1>5. \A m \in whole : m \in 0..Len(s) OBVIOUS
<1>6. Readable(s) = SubSeq(s, 1, Max(whole)) BY DEF Readable
<1> HIDE DEF whole
<1>7. Max(whole) \in whole /\ \A x \in whole : x <= Max(whole)
  BY <1>1, <1>2, <1>3, MaxElement
<1> QED BY <1>4, <1>5, <1>6, <1>7

(* The entries that are cut are entries. *)
LEMMA TornEntries ==
  /\ \A t \in Torn : t \in Entries /\ t.sequence = 0 /\ t.id < 0
  /\ NoEntry \in Entries /\ NoEntry.sequence = 0
BY DEF Torn, TornLength, TornBody, NoEntry, Entry, Entries

(* What remains of a file has all that was synced, and nothing new but a torn entry. *)
LEMMA RemainsOf ==
  ASSUME Base, NEW f \in FileNumbers, NEW x \in Remains(f)
  PROVE  /\ x \in Seq(Entries) /\ Len(x) >= synced[f]
         /\ \A i \in 1..synced[f] : x[i] = wals[f][i]
         /\ \A i \in 1..Len(x) :
              (\E j \in 1..Len(wals[f]) : x[i] = wals[f][j]) \/ x[i].sequence = 0
<1> DEFINE s == wals[f]
<1>1. s \in Seq(Entries) /\ synced[f] \in Nat /\ synced[f] <= Len(s) /\ Len(s) \in Nat
  BY DEF Base, Types, Flushed
<1>2. CASE \E n \in synced[f]..Len(s) : x = SubSeq(s, 1, n)
  <2>1. PICK n \in synced[f]..Len(s) : x = SubSeq(s, 1, n) BY <1>2
  <2>2. n \in 0..Len(s) BY <1>1
  <2> HIDE DEF s
  <2>3. x \in Seq(Entries) /\ Len(x) = n /\ \A i \in 1..n : x[i] = s[i]
    BY <1>1, <2>1, <2>2, Prefix
  <2>4. \A i \in 1..Len(x) : i \in 1..Len(s) /\ x[i] = s[i] BY <1>1, <2>2, <2>3
  <2>5. \A i \in 1..synced[f] : i \in 1..n BY <1>1, <2>2
  <2>6. Len(x) >= synced[f] /\ \A i \in 1..synced[f] : x[i] = s[i] BY <1>1, <2>2, <2>3, <2>5
  <2> QED BY <2>3, <2>4, <2>6 DEF s
<1>3. CASE \E n \in CutLengths(f), t \in Torn : x = Append(SubSeq(s, 1, n), t)
  <2>1. PICK n \in CutLengths(f), t \in Torn : x = Append(SubSeq(s, 1, n), t) BY <1>3
  <2>2. n \in synced[f]..Len(s) BY <1>1 DEF CutLengths
  <2>3. n \in 0..Len(s) BY <1>1, <2>2
  <2>4. t \in Entries /\ t.sequence = 0 BY TornEntries
  <2> HIDE DEF s
  <2> DEFINE y == SubSeq(s, 1, n)
  <2>5. y \in Seq(Entries) /\ Len(y) = n /\ \A i \in 1..n : y[i] = s[i]
    BY <1>1, <2>3, Prefix
  <2> HIDE DEF y
  <2>6. x = Append(y, t) BY <2>1 DEF y
  <2>7. /\ x \in Seq(Entries) /\ Len(x) = n + 1 /\ x[n + 1] = t
        /\ \A i \in 1..n : x[i] = y[i]
    BY <2>4, <2>5, <2>6
  <2>8. \A i \in 1..Len(x) : i = n + 1 \/ (i \in 1..n /\ i \in 1..Len(s)) BY <2>3, <2>7
  <2>9. \A i \in 1..synced[f] : i \in 1..n BY <1>1, <2>2
  <2>10. Len(x) >= synced[f] BY <1>1, <2>2, <2>7
  <2>11. \A i \in 1..synced[f] : x[i] = s[i] BY <2>5, <2>7, <2>9
  <2>12. \A i \in 1..Len(x) : (\E j \in 1..Len(s) : x[i] = s[j]) \/ x[i].sequence = 0
    BY <2>4, <2>5, <2>7, <2>8
  <2> QED BY <2>7, <2>10, <2>11, <2>12 DEF s
<1>4. \/ \E n \in synced[f]..Len(s) : x = SubSeq(s, 1, n)
      \/ \E n \in CutLengths(f), t \in Torn : x = Append(SubSeq(s, 1, n), t)
  BY DEF Remains
<1> QED BY <1>2, <1>3, <1>4

-----------------------------------------------------------------------------
(* A task goes on; the others stay where they are. *)
Moves(a, label) ==
  /\ pc' \in [Appenders -> Labels] /\ pc'[a] = label
  /\ \A b \in Appenders \ {a} : pc'[b] = pc[b]

LEMMA GotoMoves ==
  ASSUME Types, NEW a \in Appenders, NEW label \in Labels, Goto(a, label)
  PROVE  Moves(a, label)
BY DEF Types, Goto, Moves

(* Steps that leave the files, the entries and the histories alone. *)
Quiet(a) ==
  /\ UNCHANGED <<writers, fsync_policy, current_sequence, wals, entry, histVars>>
  /\ pc[a] # "idle" /\ \E l \in Labels \ {"idle", "count"} : Moves(a, l)
  /\ opened' \in [Appenders -> FileNumbers] /\ \A b \in Appenders \ {a} : opened'[b] = opened[b]
  /\ existing \subseteq existing' /\ existing' \subseteq FileNumbers
  /\ file' \in FileNumbers /\ file_number' \in FileNumbers
  /\ current_file_size' \in Nat

(* sync_all reaches the end of the file. *)
LEMMA SyncKept ==
  ASSUME Base, SyncFile, UNCHANGED <<wals, fsync_policy>>
  PROVE  synced' \in [FileNumbers -> Nat] /\ Flushed'
<1>1. file \in FileNumbers /\ wals[file] \in Seq(Entries) BY DEF Base, Types
<1>2. Len(wals[file]) \in Nat BY <1>1
<1> QED BY <1>1, <1>2 DEF Base, Types, Flushed, SyncFile

(* Base survives a quiet step. *)
LEMMA BaseQuiet ==
  ASSUME Base, NEW a \in Appenders, Quiet(a), synced' \in [FileNumbers -> Nat], Flushed'
  PROVE  Base'
<1>1. PICK l \in Labels \ {"idle", "count"} : Moves(a, l) BY DEF Quiet
<1>2. Types' BY <1>1 DEF Base, Types, Quiet, Moves, histVars
<1>3. Numbers'
  <2>1. UNCHANGED <<writers, wals, entry, acked, appends>> BY DEF Quiet, histVars
  <2>2. \A b \in Appenders : pc'[b] # "idle" => pc[b] # "idle" BY <1>1 DEF Quiet, Moves
  <2> QED BY <2>1, <2>2 DEF Base, Numbers, Numbered, Own
<1> QED BY <1>2, <1>3 DEF Base

(* So does what is held: the files only grow. *)
LEMMA HeldQuiet == ASSUME Base, Held, NEW a \in Appenders, Quiet(a) PROVE Held'
<1>1. UNCHANGED <<writers, fsync_policy, wals, entry, acked, compacted>> BY DEF Quiet, histVars
<1>2. Safely' = Safely BY <1>1 DEF Safely, Alone
<1>3. OnDisk \subseteq OnDisk' BY <1>1 DEF OnDisk, Quiet
<1>4. \A b \in Appenders : pc'[b] = "count" => pc[b] = "count" BY DEF Quiet, Moves
<1>5. \A e : Stays(e) => e.sequence < compacted' \/ e \in OnDisk'
  BY <1>1, <1>3 DEF Stays
<1> QED BY <1>1, <1>2, <1>4, <1>5 DEF Held, Stays

-----------------------------------------------------------------------------
(* A task that is alone is the only one. *)
LEMMA AloneMeans == ASSUME Types, Alone PROVE \E w : writers = {w}
<1>1. IsFiniteSet(writers) BY WalAssumption DEF Types
<1> QED BY <1>1, FS_Singleton DEF Alone

LEMMA PlacedQuiet ==
  ASSUME Base, Placed, NEW a \in Appenders, Quiet(a),
         compacted = -1 => /\ file' = file \/ (pc[a] = "replace" /\ file' = opened[a])
                           /\ pc'[a] = "replace" => opened'[a] \in existing',
         Alone /\ a \in writers =>
           /\ pc'[a] \in {"open", "replace"} => opened'[a] = file_number'
           /\ pc'[a] = "replace" => opened'[a] \in existing'
           /\ pc'[a] \notin {"open", "replace"} => file' = file_number' /\ file' \in existing'
  PROVE  Placed'
<1>1. UNCHANGED <<writers, compacted>> BY DEF Quiet, histVars
<1>2. PICK l \in Labels \ {"idle", "count"} : Moves(a, l) BY DEF Quiet
<1>3. a \in writers BY DEF Quiet, Base, Numbers
<1>4. compacted' = -1 =>
        file' \in existing' /\ \A b \in Appenders : pc'[b] = "replace" => opened'[b] \in existing'
  BY <1>1, <1>2 DEF Placed, Quiet, Moves
<1>5. ASSUME Alone', NEW b \in writers'
      PROVE  /\ pc'[b] \in {"open", "replace"} => opened'[b] = file_number'
             /\ pc'[b] = "replace" => opened'[b] \in existing'
             /\ pc'[b] \notin {"open", "replace"} => file' = file_number' /\ file' \in existing'
  <2>1. Alone BY <1>1, <1>5 DEF Alone
  <2>2. a = b BY <1>1, <1>3, <1>5, <2>1, AloneMeans DEF Base
  <2> QED BY <1>3, <2>1, <2>2
<1> QED BY <1>4, <1>5 DEF Placed

(* The steps of append between taking a number and writing. *)
LEMMA RotateKept ==
  ASSUME Inv, NEW a \in Appenders,
         \/ CheckSize(a) \/ RotateFlush(a) \/ RotateNumber(a) \/ RotateOpen(a)
         \/ RotateReplace(a) \/ RotateReset(a)
  PROVE  Inv'
<1>b. Base /\ Placed /\ Held /\ Types BY DEF Inv, Base
<1>t. /\ file \in FileNumbers /\ file_number \in FileNumbers /\ opened[a] \in FileNumbers
      /\ opened \in [Appenders -> FileNumbers] /\ existing \subseteq FileNumbers
      /\ current_file_size \in Nat /\ synced \in [FileNumbers -> Nat]
  BY <1>b DEF Types
<1>f. UNCHANGED <<synced, wals, fsync_policy>> => synced' \in [FileNumbers -> Nat] /\ Flushed'
  BY <1>b, <1>t DEF Base, Flushed
<1>p. Alone /\ a \in writers =>
        /\ pc[a] \in {"open", "replace"} => opened[a] = file_number
        /\ pc[a] = "replace" => opened[a] \in existing
        /\ pc[a] \notin {"open", "replace"} => file = file_number /\ file \in existing
  BY <1>b DEF Placed
<1> USE DEF callVars, counterVars, diskVars
<1>1. CASE CheckSize(a)
  <2> DEFINE l == IF should_rotate(current_file_size) THEN "flush" ELSE "write"
  <2>1. /\ pc[a] = "check" /\ Goto(a, l)
        /\ l \in Labels \ {"idle", "count"} /\ l \notin {"open", "replace"}
    BY <1>1 DEF CheckSize, Labels
  <2> HIDE DEF l
  <2>2. Moves(a, l) BY <1>b, <2>1, GotoMoves
  <2>3. Quiet(a) BY <1>1, <1>t, <2>1, <2>2 DEF CheckSize, Quiet, histVars
  <2>4. Base' BY <1>1, <1>b, <1>f, <2>3, BaseQuiet DEF CheckSize
  <2>5. Placed' BY <1>1, <1>b, <1>p, <2>1, <2>2, <2>3, PlacedQuiet DEF CheckSize, Moves
  <2> QED BY <1>b, <2>3, <2>4, <2>5, HeldQuiet DEF Inv
<1>2. CASE RotateFlush(a)
  <2>1. pc[a] = "flush" /\ Goto(a, "number") /\ "number" \in Labels \ {"idle", "count"}
    BY <1>2 DEF RotateFlush, Labels
  <2>2. Moves(a, "number") BY <1>b, <2>1, GotoMoves
  <2>3. Quiet(a) BY <1>2, <1>t, <2>1, <2>2 DEF RotateFlush, Quiet, histVars
  <2>4. Base' BY <1>2, <1>b, <2>3, SyncKept, BaseQuiet DEF RotateFlush
  <2>5. Placed' BY <1>2, <1>b, <1>p, <2>1, <2>2, <2>3, PlacedQuiet DEF RotateFlush, Moves
  <2> QED BY <1>b, <2>3, <2>4, <2>5, HeldQuiet DEF Inv
<1>3. CASE RotateNumber(a)
  <2>1. pc[a] = "number" /\ Goto(a, "open") /\ "open" \in Labels \ {"idle", "count"}
    BY <1>3 DEF RotateNumber, Labels
  <2>2. Moves(a, "open") BY <1>b, <2>1, GotoMoves
  <2>3. file_number' \in FileNumbers /\ opened' = [opened EXCEPT ![a] = file_number']
    BY <1>3, <1>t, WalAssumption DEF RotateNumber, FileNumbers
  <2>4. Quiet(a) BY <1>3, <1>t, <2>1, <2>2, <2>3 DEF RotateNumber, Quiet, histVars
  <2>5. Base' BY <1>3, <1>b, <1>f, <2>4, BaseQuiet DEF RotateNumber
  <2>6. opened'[a] = file_number' BY <1>t, <2>3
  <2>7. Placed' BY <1>3, <1>b, <2>2, <2>4, <2>6, PlacedQuiet DEF RotateNumber, Moves
  <2> QED BY <1>b, <2>4, <2>5, <2>7, HeldQuiet DEF Inv
<1>4. CASE RotateOpen(a)
  <2>1. pc[a] = "open" /\ Goto(a, "replace") /\ "replace" \in Labels \ {"idle", "count"}
    BY <1>4 DEF RotateOpen, Labels
  <2>2. Moves(a, "replace") BY <1>b, <2>1, GotoMoves
  <2>3. Quiet(a) BY <1>4, <1>t, <2>1, <2>2 DEF RotateOpen, Quiet, histVars
  <2>4. Base' BY <1>4, <1>b, <1>f, <2>3, BaseQuiet DEF RotateOpen
  <2>5. Placed' BY <1>4, <1>b, <1>p, <2>1, <2>2, <2>3, PlacedQuiet DEF RotateOpen, Moves
  <2> QED BY <1>b, <2>3, <2>4, <2>5, HeldQuiet DEF Inv
<1>5. CASE RotateReplace(a)
  <2>1. pc[a] = "replace" /\ Goto(a, "reset") /\ "reset" \in Labels \ {"idle", "count"}
    BY <1>5 DEF RotateReplace, Labels
  <2>2. Moves(a, "reset") BY <1>b, <2>1, GotoMoves
  <2>3. Quiet(a) BY <1>5, <1>t, <2>1, <2>2 DEF RotateReplace, Quiet, histVars
  <2>4. Base' BY <1>5, <1>b, <1>f, <2>3, BaseQuiet DEF RotateReplace
  <2>5. Placed' BY <1>5, <1>b, <1>p, <2>1, <2>2, <2>3, PlacedQuiet DEF RotateReplace, Moves
  <2> QED BY <1>b, <2>3, <2>4, <2>5, HeldQuiet DEF Inv
<1>6. CASE RotateReset(a)
  <2>1. pc[a] = "reset" /\ Goto(a, "write") /\ "write" \in Labels \ {"idle", "count"}
    BY <1>6 DEF RotateReset, Labels
  <2>2. Moves(a, "write") BY <1>b, <2>1, GotoMoves
  <2>3. Quiet(a) BY <1>6, <1>t, <2>1, <2>2 DEF RotateReset, Quiet, histVars
  <2>4. Base' BY <1>6, <1>b, <1>f, <2>3, BaseQuiet DEF RotateReset
  <2>5. Placed' BY <1>6, <1>b, <1>p, <2>1, <2>2, <2>3, PlacedQuiet DEF RotateReset, Moves
  <2> QED BY <1>b, <2>3, <2>4, <2>5, HeldQuiet DEF Inv
<1> QED BY <1>1, <1>2, <1>3, <1>4, <1>5, <1>6

(* append takes the next number. *)
LEMMA TakeKept == ASSUME Inv, NEW a \in Appenders, TakeSequence(a) PROVE Inv'
<1>b. Base /\ Placed /\ Held /\ Types /\ Numbers BY DEF Inv, Base
<1> DEFINE e == Entry(current_sequence, appends + 1)
<1>t. /\ appends \in 0..MaxAppends /\ current_sequence \in 0..appends /\ MaxAppends \in Nat
      /\ entry \in [Appenders -> Entries]
  BY <1>b, WalAssumption DEF Types
<1>1. /\ a \in writers /\ pc[a] = "idle" /\ appends' = appends + 1 /\ appends' <= MaxAppends
      /\ entry' = [entry EXCEPT ![a] = e] /\ current_sequence' = current_sequence + 1
      /\ UNCHANGED <<writers, fsync_policy, file_number, current_file_size, file, diskVars, opened,
                     crashes, acked, compacted>>
  BY <1>t DEF TakeSequence, after_fetch_add
<1>2. Moves(a, "check") BY <1>b, GotoMoves DEF TakeSequence, Labels
<1>3. e \in Entries /\ e.sequence = current_sequence /\ e.id = appends + 1
  BY <1>t DEF Entry, Entries
<1> HIDE DEF e
<1>4. entry' \in [Appenders -> Entries] /\ entry'[a] = e
      /\ \A b \in Appenders \ {a} : entry'[b] = entry[b]
  BY <1>1, <1>3, <1>t
<1>5. appends' \in 0..MaxAppends /\ current_sequence' \in 0..appends' BY <1>1, <1>t
<1>6. Types' BY <1>1, <1>2, <1>4, <1>5, <1>b DEF Types, Moves, diskVars
<1>7. Flushed' BY <1>1, <1>b DEF Base, Flushed, diskVars
<1>8. Numbers'
  <2>1. ASSUME NEW x \in Entries, Numbered(x) PROVE x.sequence = 0 \/ x.sequence < appends'
    <3>1. x.sequence \in Nat BY DEF Entries
    <3> QED BY <1>1, <1>t, <2>1, <3>1 DEF Numbered
  <2>2. ASSUME NEW x \in Entries, Own(x)
        PROVE  (x.sequence = 0 \/ x.sequence < appends') /\ x.id \in 1..appends'
    <3>1. x.id \in 1..appends /\ Numbered(x) BY <2>2 DEF Own
    <3> QED BY <1>1, <1>t, <2>1, <3>1
  <2>3. (e.sequence = 0 \/ e.sequence < appends') /\ e.id \in 1..appends' BY <1>1, <1>3, <1>t
  <2>4. \A f \in FileNumbers : \A i \in 1..Len(wals'[f]) :
          wals'[f][i].sequence = 0 \/ wals'[f][i].sequence < appends'
    <3> SUFFICES ASSUME NEW f \in FileNumbers, NEW i \in 1..Len(wals[f])
                 PROVE  wals[f][i].sequence = 0 \/ wals[f][i].sequence < appends'
      BY <1>1 DEF diskVars
    <3>1. wals[f] \in Seq(Entries) BY <1>b DEF Types
    <3>2. wals[f][i] \in Entries BY <3>1
    <3> QED BY <1>b, <2>1, <3>2 DEF Numbers
  <2>5. ASSUME NEW b \in Appenders, pc'[b] # "idle"
        PROVE  /\ b \in writers' /\ (entry'[b].sequence = 0 \/ entry'[b].sequence < appends')
               /\ entry'[b].id \in 1..appends'
    <3>1. CASE b = a BY <1>1, <1>4, <2>3, <3>1
    <3>2. CASE b # a
      <4>1. pc[b] # "idle" BY <1>2, <2>5, <3>2 DEF Moves
      <4>2. b \in writers /\ Own(entry[b]) /\ entry[b] \in Entries BY <1>b, <1>t, <4>1 DEF Numbers
      <4> QED BY <1>1, <1>4, <2>2, <3>2, <4>2
    <3> QED BY <3>1, <3>2
  <2>6. \A x \in acked' : (x.sequence = 0 \/ x.sequence < appends') /\ x.id \in 1..appends'
    BY <1>1, <1>b, <2>2 DEF Numbers, Types
  <2> QED BY <2>4, <2>5, <2>6 DEF Numbers, Own, Numbered
<1>9. Placed'
  <2>1. UNCHANGED <<file, existing, opened, file_number, compacted, writers>> BY <1>1 DEF diskVars
  <2>2. pc'[a] = "check" /\ \A b \in Appenders \ {a} : pc'[b] = pc[b] BY <1>2 DEF Moves
  <2>3. writers \subseteq Appenders BY <1>b DEF Types, Appenders
  <2> QED BY <1>1, <1>b, <2>1, <2>2, <2>3 DEF Placed, Alone
<1>10. Held'
  <2>1. UNCHANGED <<writers, fsync_policy, wals, existing, acked, compacted>> BY <1>1 DEF diskVars
  <2>2. Safely' = Safely /\ OnDisk' = OnDisk BY <2>1 DEF Safely, Alone, OnDisk
  <2>3. \A b \in Appenders : pc'[b] = "count" => pc[b] = "count" /\ entry'[b] = entry[b]
    BY <1>2, <1>4 DEF Moves
  <2> QED BY <1>b, <2>1, <2>2, <2>3 DEF Held, Stays
<1> QED BY <1>6, <1>7, <1>8, <1>9, <1>10 DEF Inv, Base

-----------------------------------------------------------------------------
(* The entry is written to the file behind the lock. *)
LEMMA WriteKept == ASSUME Inv, NEW a \in Appenders, WriteEntry(a) PROVE Inv'
<1>b. Base /\ Placed /\ Held /\ Types /\ Numbers /\ Flushed BY DEF Inv, Base
<1> DEFINE s == wals[file]
           e == entry[a]
           x == Append(s, e)
<1>t. /\ file \in FileNumbers /\ s \in Seq(Entries) /\ e \in Entries /\ Len(s) \in Nat
      /\ wals \in [FileNumbers -> Seq(Entries)] /\ synced \in [FileNumbers -> Nat]
  BY <1>b DEF Types
<1>1. /\ pc[a] = "write" /\ wals' = [wals EXCEPT ![file] = x]
      /\ synced' = IF syncs_on_append(fsync_policy)
                   THEN [synced EXCEPT ![file] = Len(s) + 1] ELSE synced
      /\ UNCHANGED <<writers, fsync_policy, counterVars, existing, entry, opened, histVars>>
  BY DEF WriteEntry
<1>2. Moves(a, "count") BY <1>b, GotoMoves DEF WriteEntry, Labels
<1>3. a \in writers /\ Own(e) BY <1>1, <1>b DEF Numbers
<1>4. /\ x \in Seq(Entries) /\ Len(x) = Len(s) + 1 /\ x[Len(s) + 1] = e
      /\ \A i \in 1..Len(s) : x[i] = s[i]
  <2> HIDE DEF s, e
  <2> QED BY <1>t
<1> HIDE DEF x
<1>5. /\ wals' \in [FileNumbers -> Seq(Entries)] /\ wals'[file] = x
      /\ \A f \in FileNumbers \ {file} : wals'[f] = wals[f]
  BY <1>1, <1>4, <1>t
<1>6. Len(s) + 1 \in Nat BY <1>t
<1>7. synced' \in [FileNumbers -> Nat] BY <1>1, <1>6, <1>t
<1>8. Types' BY <1>1, <1>2, <1>5, <1>7, <1>b DEF Types, Moves, counterVars, histVars
<1>9. Flushed'
  <2> SUFFICES ASSUME NEW f \in FileNumbers
               PROVE  /\ synced'[f] <= Len(wals'[f])
                      /\ fsync_policy = "Always" => synced'[f] = Len(wals'[f])
    BY <1>1 DEF Flushed
  <2>1. /\ synced[f] <= Len(wals[f]) /\ synced[f] \in Nat
        /\ fsync_policy = "Always" => synced[f] = Len(wals[f])
    BY <1>b, <1>t DEF Flushed
  <2>2. CASE f = file
    <3>1. Len(wals'[f]) = Len(s) + 1 BY <1>4, <1>5, <2>2
    <3>2. synced'[f] = IF fsync_policy = "Always" THEN Len(s) + 1 ELSE synced[f]
      BY <1>1, <1>t, <2>2 DEF syncs_on_append
    <3> QED BY <1>t, <2>1, <2>2, <3>1, <3>2
  <2>3. CASE f # file BY <1>1, <1>5, <1>t, <2>1, <2>3
  <2> QED BY <2>2, <2>3
<1>10. Numbers'
  <2>1. UNCHANGED <<appends, entry, acked, writers>> BY <1>1 DEF histVars
  <2>2. ASSUME NEW f \in FileNumbers, NEW i \in 1..Len(wals'[f]) PROVE Numbered(wals'[f][i])
    <3>1. CASE f = file
      <4>1. i = Len(s) + 1 \/ i \in 1..Len(s) BY <1>4, <1>5, <1>t, <3>1
      <4>2. CASE i = Len(s) + 1 BY <1>3, <1>4, <1>5, <3>1, <4>2 DEF Own
      <4>3. CASE i \in 1..Len(s) BY <1>4, <1>5, <1>b, <3>1, <4>3 DEF Numbers
      <4> QED BY <4>1, <4>2, <4>3
    <3>2. CASE f # file BY <1>5, <1>b, <3>2 DEF Numbers
    <3> QED BY <3>1, <3>2
  <2>3. \A b \in Appenders : pc'[b] # "idle" => pc[b] # "idle" BY <1>1, <1>2 DEF Moves
  <2> QED BY <1>b, <2>1, <2>2, <2>3 DEF Numbers, Numbered, Own
<1>11. UNCHANGED <<writers, compacted, file, file_number, existing, opened, fsync_policy, acked,
                   entry>>
  BY <1>1 DEF counterVars, histVars
<1>12. pc'[a] = "count" /\ \A b \in Appenders \ {a} : pc'[b] = pc[b] BY <1>2 DEF Moves
<1>13. Placed'
  <2>1. writers \subseteq Appenders BY <1>b DEF Types, Appenders
  <2> QED BY <1>1, <1>11, <1>12, <1>b, <2>1 DEF Placed, Alone
<1>14. Held'
  <2> SUFFICES ASSUME Safely, fsync_policy = "Always"
               PROVE  /\ \A y \in acked : Stays(y)'
                      /\ \A b \in Appenders : pc'[b] = "count" => Stays(entry[b])'
    BY <1>11 DEF Held, Safely, Alone
  <2>1. OnDisk \subseteq OnDisk'
    <3> SUFFICES ASSUME NEW f \in existing, NEW i \in 1..Len(wals[f])
                 PROVE  f \in existing' /\ i \in 1..Len(wals'[f]) /\ wals'[f][i] = wals[f][i]
      BY DEF OnDisk
    <3>1. f \in FileNumbers BY <1>b DEF Types
    <3>2. CASE f = file BY <1>4, <1>5, <1>11, <1>t, <3>2
    <3>3. CASE f # file BY <1>5, <1>11, <3>1, <3>3
    <3> QED BY <3>2, <3>3
  <2>2. \A y : Stays(y) => y.sequence < compacted' \/ y \in OnDisk' BY <1>11, <2>1 DEF Stays
  <2>3. e \in OnDisk'
    <3>1. file \in existing BY <1>1, <1>3, <1>b DEF Placed, Safely
    <3>2. Len(s) + 1 \in 1..Len(wals'[file]) /\ wals'[file][Len(s) + 1] = e
      BY <1>4, <1>5, <1>t
    <3> QED BY <1>11, <3>1, <3>2 DEF OnDisk
  <2>4. \A b \in Appenders : pc'[b] = "count" => b = a \/ pc[b] = "count" BY <1>12
  <2> QED BY <1>11, <1>b, <2>2, <2>3, <2>4 DEF Held, Stays
<1> QED BY <1>8, <1>9, <1>10, <1>13, <1>14 DEF Inv, Base

(* append returns. *)
LEMMA ReturnKept == ASSUME Inv, NEW a \in Appenders, CountAndReturn(a) PROVE Inv'
<1>b. Base /\ Placed /\ Held /\ Types /\ Numbers /\ Flushed BY DEF Inv, Base
<1>1. /\ pc[a] = "count" /\ current_file_size' = current_file_size + 1
      /\ acked' = acked \cup {entry[a]}
      /\ UNCHANGED <<writers, fsync_policy, current_sequence, file_number, file, wals, synced,
                     existing, entry, opened, appends, crashes, compacted>>
  BY DEF CountAndReturn, diskVars
<1>2. Moves(a, "idle") BY <1>b, GotoMoves DEF CountAndReturn, Labels
<1>3. entry[a] \in Entries /\ Own(entry[a]) BY <1>1, <1>b DEF Numbers, Types
<1>4. Types'
  <2>1. current_file_size' \in Nat /\ acked' \subseteq Entries BY <1>1, <1>3, <1>b DEF Types
  <2> QED BY <1>1, <1>2, <1>b, <2>1 DEF Types, Moves
<1>5. Flushed' BY <1>1, <1>b DEF Flushed
<1>6. Numbers'
  <2>1. \A b \in Appenders : pc'[b] # "idle" => pc[b] # "idle" BY <1>2 DEF Moves
  <2> QED BY <1>1, <1>3, <1>b, <2>1 DEF Numbers, Numbered, Own
<1>7. pc'[a] = "idle" /\ \A b \in Appenders \ {a} : pc'[b] = pc[b] BY <1>2 DEF Moves
<1>8. Placed'
  <2>1. writers \subseteq Appenders BY <1>b DEF Types, Appenders
  <2> QED BY <1>1, <1>7, <1>b, <2>1 DEF Placed, Alone
<1>9. Held'
  <2>1. Safely' = Safely /\ OnDisk' = OnDisk BY <1>1 DEF Safely, Alone, OnDisk
  <2> QED BY <1>1, <1>7, <1>b, <2>1 DEF Held, Stays
<1> QED BY <1>4, <1>5, <1>6, <1>8, <1>9 DEF Inv, Base

(* flush by the background task. *)
LEMMA FsyncKept == ASSUME Inv, BackgroundFsync PROVE Inv'
<1>b. Base /\ Placed /\ Held /\ Types /\ Numbers BY DEF Inv, Base
<1>1. /\ SyncFile
      /\ UNCHANGED <<writers, fsync_policy, current_sequence, file_number, current_file_size, file,
                     wals, existing, pc, entry, opened, appends, crashes, acked, compacted>>
  BY DEF BackgroundFsync, counterVars, callVars, histVars
<1>2. synced' \in [FileNumbers -> Nat] /\ Flushed' BY <1>1, <1>b, SyncKept
<1>3. Types' BY <1>1, <1>2, <1>b DEF Types
<1>4. Numbers' BY <1>1, <1>b DEF Numbers, Numbered, Own
<1>5. Placed' BY <1>1, <1>b DEF Placed, Alone
<1>6. Held' BY <1>1, <1>b DEF Held, Safely, Alone, Stays, OnDisk
<1> QED BY <1>2, <1>3, <1>4, <1>5, <1>6 DEF Inv, Base

-----------------------------------------------------------------------------
(* The greater of two numbers. *)
LEMMA MaxOfTwo ==
  ASSUME NEW x \in Int, NEW y \in Int
  PROVE  Max({x, y}) \in Int /\ Max({x, y}) >= x /\ Max({x, y}) >= y
<1>1. \E m \in {x, y} : \A z \in {x, y} : m >= z
  <2>1. x >= y \/ y >= x OBVIOUS
  <2> QED BY <2>1
<1>2. Max({x, y}) \in {x, y} /\ \A z \in {x, y} : Max({x, y}) >= z BY <1>1 DEF Max
<1> QED BY <1>2

(* A reader that gets to the end of a file has seen every entry that is whole. *)
LEMMA SeenByReader ==
  ASSUME NEW s \in Seq(Entries), ReadsToEnd(s), NEW i \in 1..Len(s), s[i] \notin Torn,
         NEW t \in Nat, file_contains_only_entries_before(Readable(s), t)
  PROVE  s[i].sequence < t
<1>1. i \in 0..Len(s) /\ Len(s) \in Nat OBVIOUS
<1>2. \A j \in 1..i : s[j] \notin Torn
  <2> SUFFICES ASSUME NEW j \in 1..i, s[j] \in Torn PROVE FALSE OBVIOUS
  <2>1. j \in 1..Len(s) BY <1>1
  <2>2. j = Len(s) BY <2>1 DEF ReadsToEnd
  <2>3. j = i BY <1>1, <2>2
  <2> QED BY <2>3
<1>3. PICK n \in 0..Len(s) :
        /\ Readable(s) = SubSeq(s, 1, n)
        /\ \A m \in 0..Len(s) : (\A j \in 1..m : s[j] \notin Torn) => m <= n
  BY ReadsPrefix
<1>4. i \in 1..n BY <1>1, <1>2, <1>3
<1>5. Len(Readable(s)) = n /\ Readable(s)[i] = s[i] BY <1>3, <1>4, Prefix
<1> QED BY <1>4, <1>5 DEF file_contains_only_entries_before

(* compact removes a file whose entries are all below the threshold. *)
LEMMA CompactKept ==
  ASSUME Inv, NEW f \in FileNumbers, NEW t \in 0..MaxAppends, CompactFile(f, t)
  PROVE  Inv'
<1>b. Base /\ Placed /\ Held /\ Types /\ Numbers /\ Flushed BY DEF Inv, Base
<1>1. /\ f \in existing /\ f < file_number
      /\ existing' = existing \ {f} /\ compacted' = Max({t, compacted})
      /\ UNCHANGED <<writers, fsync_policy, current_sequence, file_number, current_file_size, file,
                     wals, synced, pc, entry, opened, appends, crashes, acked>>
  BY DEF CompactFile, counterVars, callVars
<1>2. t \in Nat /\ t \in Int /\ compacted \in Int BY <1>b, WalAssumption DEF Types
<1>3. compacted' \in Int /\ compacted' >= t /\ compacted' >= compacted
  BY <1>1, <1>2, MaxOfTwo
<1>4. compacted' >= 0 /\ compacted' >= -1 /\ compacted' # -1 BY <1>2, <1>3
<1>5. Types' BY <1>1, <1>3, <1>4, <1>b DEF Types
<1>6. Numbers' /\ Flushed' BY <1>1, <1>b DEF Numbers, Numbered, Own, Flushed
<1>7. Placed'
  <2>1. ASSUME Alone', NEW a \in writers'
        PROVE  /\ pc'[a] \in {"open", "replace"} => opened'[a] = file_number'
               /\ pc'[a] = "replace" => opened'[a] \in existing'
               /\ pc'[a] \notin {"open", "replace"} => file' = file_number' /\ file' \in existing'
    <3>1. Alone /\ a \in writers BY <1>1, <2>1 DEF Alone
    <3>2. f # file_number BY <1>1, <1>b DEF Types, FileNumbers
    <3> QED BY <1>1, <1>b, <3>1, <3>2 DEF Placed
  <2> QED BY <1>4, <2>1 DEF Placed
<1>8. Held'
  <2> SUFFICES ASSUME Alone, fsync_policy = "Always"
               PROVE  /\ \A e \in acked : Stays(e)'
                      /\ \A a \in Appenders : pc[a] = "count" => Stays(entry[a])'
    BY <1>1, <1>4 DEF Held, Safely, Alone, Stays, OnDisk
  <2>1. PICK s \in Visible(f) : ReadsToEnd(s) /\ file_contains_only_entries_before(Readable(s), t)
    BY DEF CompactFile
  <2>2. wals[f] \in Seq(Entries) /\ synced[f] = Len(wals[f]) /\ Len(wals[f]) \in Nat
    BY <1>b DEF Types, Flushed
  <2>3. PICK n \in Len(wals[f])..Len(wals[f]) : s = SubSeq(wals[f], 1, n)
    BY <2>1, <2>2 DEF Visible
  <2>4. n = Len(wals[f]) /\ n \in 0..Len(wals[f]) BY <2>2
  <2>5. s \in Seq(Entries) /\ Len(s) = Len(wals[f]) /\ \A i \in 1..Len(wals[f]) : s[i] = wals[f][i]
    BY <2>2, <2>3, <2>4, Prefix
  <2>6. ASSUME NEW e \in Entries, Own(e), Stays(e) PROVE Stays(e)'
    <3>1. e.sequence \in Nat /\ e.id \in 1..appends /\ appends \in Nat
      BY <1>b, <2>6, WalAssumption DEF Types, Own, Entries
    <3>2. e \notin Torn BY <3>1, TornEntries
    <3>3. CASE e.sequence < compacted BY <1>2, <1>3, <3>1, <3>3 DEF Stays
    <3>4. CASE e \in OnDisk
      <4>1. PICK g \in existing : \E i \in 1..Len(wals[g]) : e = wals[g][i] BY <3>4 DEF OnDisk
      <4>2. CASE g # f BY <1>1, <4>1, <4>2 DEF Stays, OnDisk
      <4>3. CASE g = f
        <5>1. PICK i \in 1..Len(wals[f]) : e = wals[f][i] BY <4>1, <4>3
        <5>2. i \in 1..Len(s) /\ s[i] = e BY <2>5, <5>1
        <5>3. e.sequence < t BY <1>2, <2>1, <2>5, <3>2, <5>2, SeenByReader
        <5>4. e.sequence < compacted' BY <1>2, <1>3, <3>1, <5>3
        <5> QED BY <5>4 DEF Stays
      <4> QED BY <4>2, <4>3
    <3> QED BY <2>6, <3>3, <3>4 DEF Stays
  <2>7. Safely BY DEF Safely
  <2>8. \A e \in acked : e \in Entries /\ Own(e) /\ Stays(e) BY <1>b, <2>7 DEF Held, Types, Numbers
  <2>9. \A a \in Appenders :
          pc[a] = "count" => entry[a] \in Entries /\ Own(entry[a]) /\ Stays(entry[a])
    BY <1>b, <2>7 DEF Held, Types, Numbers
  <2>10. \A e \in Entries : Own(e) /\ Stays(e) => e.sequence < compacted' \/ e \in OnDisk'
    BY <2>6 DEF Stays
  <2> QED BY <1>1, <2>8, <2>9, <2>10 DEF Stays
<1> QED BY <1>5, <1>6, <1>7, <1>8 DEF Inv, Base

-----------------------------------------------------------------------------
(* The files a restart finds: what was synced is still there, and nothing is new but a torn *)
(* entry.                                                                                  *)
LEMMA FilesLeft ==
  ASSUME Base, NEW left, Crash(left), NEW f \in FileNumbers
  PROVE  /\ wals'[f] \in Seq(Entries)
         /\ \A i \in 1..Len(wals'[f]) : Numbered(wals'[f][i])
         /\ f \in existing => /\ Len(wals'[f]) >= synced[f]
                              /\ \A i \in 1..synced[f] : wals'[f][i] = wals[f][i]
<1>1. /\ \A g \in AtRisk : left[g] \in Remains(g)
      /\ wals'[f] = IF f \in AtRisk THEN left[f] ELSE IF f \in existing THEN wals[f] ELSE << >>
  BY DEF Crash
<1>2. /\ wals[f] \in Seq(Entries) /\ synced[f] <= Len(wals[f]) /\ synced[f] \in Nat
      /\ \A i \in 1..Len(wals[f]) : Numbered(wals[f][i])
  BY DEF Base, Types, Flushed, Numbers
<1>3. CASE f \in AtRisk
  <2> DEFINE x == left[f]
  <2>1. x \in Remains(f) /\ wals'[f] = x BY <1>1, <1>3
  <2> HIDE DEF x
  <2>2. /\ x \in Seq(Entries) /\ Len(x) >= synced[f]
        /\ \A i \in 1..synced[f] : x[i] = wals[f][i]
        /\ \A i \in 1..Len(x) :
             (\E j \in 1..Len(wals[f]) : x[i] = wals[f][j]) \/ x[i].sequence = 0
    BY <2>1, RemainsOf
  <2>3. \A i \in 1..Len(x) : Numbered(x[i]) BY <1>2, <2>2 DEF Numbered
  <2> QED BY <2>1, <2>2, <2>3
<1>4. CASE f \notin AtRisk /\ f \in existing
  <2>1. wals'[f] = wals[f] BY <1>1, <1>4
  <2>2. Len(wals[f]) \in Nat BY <1>2
  <2>3. \A i \in 1..synced[f] : i \in 1..Len(wals[f]) BY <1>2, <2>2
  <2> QED BY <1>2, <2>1, <2>2, <2>3
<1>5. CASE f \notin AtRisk /\ f \notin existing
  <2>1. wals'[f] = << >> BY <1>1, <1>5
  <2>2. << >> \in Seq(Entries) /\ Len(<< >>) = 0 OBVIOUS
  <2>3. \A i \in 1..0 : FALSE OBVIOUS
  <2> QED BY <1>5, <2>1, <2>2, <2>3
<1> QED BY <1>3, <1>4, <1>5

(* The scan finds a sequence number that is not above the number of appends. *)
LEMMA ScanBound ==
  ASSUME Types, NEW files \in [FileNumbers -> Seq(Entries)],
         NEW numbers, numbers \subseteq FileNumbers,
         \A f \in FileNumbers : \A i \in 1..Len(files[f]) : Numbered(files[f][i])
  PROVE  scan_existing_wals(files, numbers) \in 0..appends
<1> DEFINE S == {0} \cup UNION {SequencesOf(Readable(files[f])) : f \in numbers}
<1>1. appends \in Nat BY WalAssumption DEF Types
<1>2. ASSUME NEW f \in numbers, NEW x \in SequencesOf(Readable(files[f]))
      PROVE  x \in Nat /\ (x = 0 \/ x < appends)
  <2> DEFINE s == files[f]
  <2>1. s \in Seq(Entries) /\ \A i \in 1..Len(s) : Numbered(s[i]) OBVIOUS
  <2>2. x \in SequencesOf(Readable(s)) OBVIOUS
  <2> HIDE DEF s
  <2>3. PICK n \in 0..Len(s) : Readable(s) = SubSeq(s, 1, n) BY <2>1, ReadsPrefix
  <2> DEFINE r == SubSeq(s, 1, n)
  <2>4. r \in Seq(Entries) /\ Len(r) = n /\ \A i \in 1..n : r[i] = s[i] BY <2>1, <2>3, Prefix
  <2>5. x \in SequencesOf(r) BY <2>2, <2>3
  <2> HIDE DEF r
  <2>6. PICK i \in 1..Len(r) : x = r[i].sequence BY <2>5 DEF SequencesOf
  <2>7. i \in 1..Len(s) /\ x = s[i].sequence
    <3>1. Len(s) \in Nat BY <2>1
    <3> QED BY <2>4, <2>6, <3>1
  <2>8. s[i] \in Entries /\ Numbered(s[i]) BY <2>1, <2>7
  <2> QED BY <2>7, <2>8 DEF Entries, Numbered
<1>3. ASSUME NEW x \in S PROVE x \in Nat /\ (x = 0 \/ x < appends)
  <2>1. CASE x = 0 BY <2>1
  <2>2. CASE \E f \in numbers : x \in SequencesOf(Readable(files[f])) BY <1>2, <2>2
  <2> QED BY <2>1, <2>2
<1>4. 0 \in S OBVIOUS
<1>5. scan_existing_wals(files, numbers) = IF Max(S) > 0 THEN Max(S) + 1 ELSE 0
  BY DEF scan_existing_wals
<1> HIDE DEF S
<1>6. S \subseteq Nat /\ S # {} /\ \A x \in S : x <= appends BY <1>1, <1>3, <1>4
<1>7. Max(S) \in S BY <1>1, <1>6, MaxElement
<1>8. Max(S) \in Nat /\ (Max(S) = 0 \/ Max(S) < appends) BY <1>3, <1>7
<1> QED BY <1>1, <1>5, <1>8

(* A crash, and the writer that is created in the same directory. *)
LEMMA CrashKept == ASSUME Inv, NEW left, Crash(left) PROVE Inv'
<1>b. Base /\ Placed /\ Held /\ Types /\ Numbers /\ Flushed BY DEF Inv, Base
<1> DEFINE G == Max({0} \cup existing)
<1>1. G \in FileNumbers
  <2> DEFINE S == {0} \cup existing
  <2>1. MaxFiles \in Nat /\ existing \subseteq FileNumbers BY <1>b, WalAssumption DEF Types
  <2>2. S \subseteq FileNumbers BY <2>1 DEF FileNumbers
  <2>3. S # {} OBVIOUS
  <2>4. S \subseteq Nat /\ \A x \in S : x <= MaxFiles
    <3> HIDE DEF S
    <3> QED BY <2>1, <2>2 DEF FileNumbers
  <2>5. G = Max(S) OBVIOUS
  <2> HIDE DEF S, G
  <2>6. Max(S) \in S BY <2>1, <2>3, <2>4, MaxElement
  <2> QED BY <2>2, <2>5, <2>6
<1>2. /\ file_number' = G /\ file' = G /\ existing' = existing \cup {G}
      /\ current_sequence' = scan_existing_wals(wals', existing')
      /\ current_file_size' = Len(wals'[G])
      /\ pc' = [a \in Appenders |-> "idle"]
      /\ UNCHANGED <<writers, fsync_policy, entry, opened, appends, acked, compacted>>
  BY DEF Crash
<1> HIDE DEF G
<1>3. /\ DOMAIN wals' = FileNumbers /\ wals' = [f \in FileNumbers |-> wals'[f]]
      /\ synced' = [f \in FileNumbers |-> Len(wals'[f])]
  BY DEF Crash
<1>4. \A f \in FileNumbers :
        /\ wals'[f] \in Seq(Entries)
        /\ \A i \in 1..Len(wals'[f]) : Numbered(wals'[f][i])
        /\ f \in existing => /\ Len(wals'[f]) >= synced[f]
                             /\ \A i \in 1..synced[f] : wals'[f][i] = wals[f][i]
  BY <1>b, FilesLeft
<1>5. wals' \in [FileNumbers -> Seq(Entries)] BY <1>3, <1>4
<1>6. \A f \in FileNumbers : Len(wals'[f]) \in Nat BY <1>4
<1>7. synced' \in [FileNumbers -> Nat] /\ \A f \in FileNumbers : synced'[f] = Len(wals'[f])
  BY <1>3, <1>6
<1>8. existing' \subseteq FileNumbers BY <1>1, <1>2, <1>b DEF Types
<1>9. current_sequence' \in 0..appends BY <1>2, <1>4, <1>5, <1>8, <1>b, ScanBound
<1>10. pc' \in [Appenders -> Labels] /\ \A a \in Appenders : pc'[a] = "idle"
  BY <1>2 DEF Labels
<1>11. Types' BY <1>1, <1>2, <1>5, <1>6, <1>7, <1>8, <1>9, <1>10, <1>b DEF Types
<1>12. Flushed' BY <1>6, <1>7 DEF Flushed
<1>13. Numbers' BY <1>2, <1>4, <1>10, <1>b DEF Numbers, Numbered, Own
<1>14. writers \subseteq Appenders BY <1>b DEF Types, Appenders
<1>15. Placed' BY <1>2, <1>10, <1>14 DEF Placed
<1>16. Held'
  <2> SUFFICES ASSUME Safely, fsync_policy = "Always" PROVE \A e \in acked : Stays(e)'
    BY <1>2, <1>10 DEF Held, Safely, Alone
  <2>1. OnDisk \subseteq OnDisk'
    <3> SUFFICES ASSUME NEW f \in existing, NEW i \in 1..Len(wals[f])
                 PROVE  f \in existing' /\ i \in 1..Len(wals'[f]) /\ wals'[f][i] = wals[f][i]
      BY DEF OnDisk
    <3>1. f \in FileNumbers BY <1>b DEF Types
    <3>2. synced[f] = Len(wals[f]) /\ Len(wals[f]) \in Nat BY <1>b, <3>1 DEF Flushed, Types
    <3>3. Len(wals'[f]) >= Len(wals[f]) /\ wals'[f][i] = wals[f][i] BY <1>4, <3>1, <3>2
    <3> QED BY <1>2, <1>6, <3>1, <3>2, <3>3
  <2> QED BY <1>2, <1>b, <2>1 DEF Held, Stays
<1> QED BY <1>11, <1>12, <1>13, <1>15, <1>16 DEF Inv, Base

-----------------------------------------------------------------------------
LEMMA InvInit == ASSUME Init PROVE Inv
<1>1. Types
  <2>1. 0 \in FileNumbers /\ MaxAppends \in Nat BY WalAssumption DEF FileNumbers
  <2>2. wals \in [FileNumbers -> Seq(Entries)] BY DEF Init
  <2>3. NoEntry \in Entries BY TornEntries
  <2>4. entry \in [Appenders -> Entries] BY <2>3 DEF Init
  <2>5. pc \in [Appenders -> Labels] BY DEF Init, Labels
  <2>6. /\ appends \in 0..MaxAppends /\ current_sequence \in 0..appends
        /\ compacted \in Int /\ compacted >= -1
    BY <2>1 DEF Init
  <2> QED BY <2>1, <2>2, <2>4, <2>5, <2>6 DEF Init, Types
<1>2. \A f \in FileNumbers : wals[f] = << >> /\ Len(wals[f]) = 0 /\ synced[f] = 0 BY DEF Init
<1>3. \A i \in 1..0 : FALSE OBVIOUS
<1>4. \A a \in Appenders : pc[a] = "idle" BY DEF Init
<1>5. Numbers BY <1>2, <1>3, <1>4 DEF Numbers, Init
<1>6. Flushed BY <1>2 DEF Flushed
<1>7. writers \subseteq Appenders BY <1>1 DEF Types, Appenders
<1>8. Placed BY <1>4, <1>7 DEF Placed, Init
<1>9. Held BY <1>4 DEF Held, Init
<1> QED BY <1>1, <1>5, <1>6, <1>8, <1>9 DEF Inv, Base

LEMMA InvNext == ASSUME Inv, [Next]_vars PROVE Inv'
<1>1. CASE UNCHANGED vars
  <2>1. UNCHANGED <<writers, fsync_policy, current_sequence, file_number, current_file_size, file,
                    wals, synced, existing, pc, entry, opened, appends, acked, compacted>>
    BY <1>1 DEF vars, counterVars, diskVars, callVars, histVars
  <2> QED BY <2>1 DEF Inv, Base, Types, Numbers, Numbered, Own, Flushed, Placed, Alone, Held,
                      Safely, Stays, OnDisk
<1>2. CASE \E a \in Appenders : TakeSequence(a) \/ AppendStep(a)
  BY <1>2, TakeKept, RotateKept, WriteKept, ReturnKept DEF AppendStep
<1>3. CASE BackgroundFsync BY <1>3, FsyncKept
<1>4. CASE \E f \in FileNumbers, t \in 0..MaxAppends : CompactFile(f, t) BY <1>4, CompactKept
<1>5. CASE \E left \in [AtRisk -> UNION {Remains(f) : f \in AtRisk}] : Crash(left)
  BY <1>5, CrashKept
<1> QED BY <1>1, <1>2, <1>3, <1>4, <1>5 DEF Next

LEMMA Invariant == Spec => []Inv
BY InvInit, InvNext, PTL DEF Spec

(* Every variable keeps its type: the counters stay within the number of appends and of     *)
(* files, also after the scan of a restart has set them, and no file has more synced        *)
(* entries than entries.                                                                    *)
THEOREM TypeCorrect == Spec => []TypeOK
<1>1. ASSUME Inv PROVE TypeOK
  <2>1. Types /\ Numbers /\ Flushed BY <1>1 DEF Inv, Base
  <2>2. appends \in 0..MaxAppends /\ MaxAppends \in Nat /\ current_sequence \in 0..appends
    BY <2>1, WalAssumption DEF Types
  <2>3. current_sequence \in 0..MaxAppends BY <2>2
  <2>4. \A f \in FileNumbers : synced[f] \in 0..Len(wals[f])
    <3> SUFFICES ASSUME NEW f \in FileNumbers PROVE synced[f] \in 0..Len(wals[f]) OBVIOUS
    <3>1. synced[f] \in Nat /\ synced[f] <= Len(wals[f]) /\ wals[f] \in Seq(Entries)
      BY <2>1 DEF Types, Flushed
    <3>2. Len(wals[f]) \in Nat BY <3>1
    <3> QED BY <3>1, <3>2
  <2>5. ASSUME NEW e \in acked PROVE e.sequence \in 0..MaxAppends /\ e.id \in 1..MaxAppends
    <3>1. e.sequence \in Nat /\ Numbered(e) /\ e.id \in 1..appends
      BY <2>1 DEF Types, Numbers, Own, Entries
    <3> QED BY <2>2, <3>1 DEF Numbered
  <2> QED BY <2>1, <2>3, <2>4, <2>5 DEF TypeOK, Types
<1> QED BY <1>1, Invariant, PTL

(* With the policy Always, an entry whose append returned is in a file of the directory     *)
(* until a compaction with a higher threshold: after any crashes and rotations, for one     *)
(* task, and for any number of them as long as nothing is compacted.                        *)
THEOREM AcknowledgedStays == Spec => []KeptUnlessShared
<1>1. ASSUME Inv PROVE KeptUnlessShared
  <2> SUFFICES ASSUME Safely, fsync_policy = "Always", NEW e \in acked, e.sequence >= compacted
               PROVE  e \in OnDisk
    BY DEF KeptUnlessShared, AckedKept, Safely
  <2>1. Stays(e) BY <1>1 DEF Inv, Held
  <2>2. e.sequence \in Nat /\ compacted \in Int BY <1>1 DEF Inv, Base, Types, Entries
  <2>3. ~(e.sequence < compacted) BY <2>2
  <2> QED BY <2>1, <2>3 DEF Stays
<1> QED BY <1>1, Invariant, PTL

-----------------------------------------------------------------------------
(* The order of entries before the first crash.  A task that is alone writes ever higher     *)
(* numbers, into the file with the highest number that has entries.                          *)
Steady == Alone /\ crashes = 0

Under(t) == \A f \in FileNumbers : \A i \in 1..Len(wals[f]) : wals[f][i].sequence < t
Precedes(f, i, g, j) == f < g \/ (f = g /\ i < j)
Sorted ==
  \A f, g \in FileNumbers : \A i \in 1..Len(wals[f]), j \in 1..Len(wals[g]) :
    Precedes(f, i, g, j) => wals[f][i].sequence < wals[g][j].sequence
Untouched == \A f \in FileNumbers : f > file => wals[f] = << >>

Rising(a) ==
  /\ pc[a] # "idle" => entry[a].sequence < current_sequence
  /\ pc[a] \notin {"idle", "count"} => Under(entry[a].sequence)
  /\ pc[a] \in {"open", "replace"} => opened[a] >= file

Order ==
  /\ crashes \in Nat
  /\ Steady => /\ Under(current_sequence) /\ Sorted /\ Untouched
               /\ \A a \in writers : Rising(a)

LEMMA FileInts == ASSUME Inv PROVE file \in Int /\ FileNumbers \subseteq Int /\ file \in FileNumbers
BY WalAssumption DEF Inv, Base, Types, FileNumbers

LEMMA SequenceInts ==
  ASSUME Inv
  PROVE  /\ current_sequence \in Int /\ \A a \in Appenders : entry[a].sequence \in Int
         /\ \A f \in FileNumbers : /\ Len(wals[f]) \in Nat /\ wals[f] \in Seq(Entries)
                                   /\ \A i \in 1..Len(wals[f]) : wals[f][i].sequence \in Int
<1>1. Types BY DEF Inv, Base
<1>2. appends \in Nat BY <1>1, WalAssumption DEF Types
<1>3. current_sequence \in Int BY <1>1, <1>2 DEF Types
<1>4. \A a \in Appenders : entry[a].sequence \in Int BY <1>1 DEF Types, Entries
<1>5. ASSUME NEW f \in FileNumbers
      PROVE  /\ Len(wals[f]) \in Nat /\ wals[f] \in Seq(Entries)
             /\ \A i \in 1..Len(wals[f]) : wals[f][i].sequence \in Int
  <2>1. wals[f] \in Seq(Entries) BY <1>1 DEF Types
  <2>2. \A i \in 1..Len(wals[f]) : wals[f][i] \in Entries BY <2>1
  <2> QED BY <2>1, <2>2 DEF Entries
<1> QED BY <1>3, <1>4, <1>5

(* A task in a call of append, when it is alone. *)
LEMMA OneWriter ==
  ASSUME Inv, Alone, NEW a \in Appenders, pc[a] # "idle" \/ a \in writers
  PROVE  a \in writers /\ \A b \in writers : b = a
<1>1. a \in writers BY DEF Inv, Base, Numbers
<1> QED BY <1>1, AloneMeans DEF Inv, Base

(* Steps that write nothing. *)
LEMMA OrderQuiet ==
  ASSUME Inv, Order, UNCHANGED <<writers, wals, crashes, current_sequence>>,
         file' \in FileNumbers, file' >= file, Steady => \A a \in writers : Rising(a)'
  PROVE  Order'
<1>1. Steady' = Steady BY DEF Steady, Alone
<1>2. Under(current_sequence)' = Under(current_sequence) /\ Sorted' = Sorted
  BY DEF Under, Sorted
<1>3. Untouched => Untouched'
  <2>1. file \in Int /\ file' \in Int /\ FileNumbers \subseteq Int BY FileInts
  <2> QED BY <2>1 DEF Untouched
<1> QED BY <1>1, <1>2, <1>3 DEF Order

LEMMA OrderRotate ==
  ASSUME Inv, Order, NEW a \in Appenders,
         \/ CheckSize(a) \/ RotateFlush(a) \/ RotateNumber(a) \/ RotateOpen(a)
         \/ RotateReplace(a) \/ RotateReset(a)
  PROVE  Order'
<1>t. Types /\ Placed BY DEF Inv, Base
<1>1. UNCHANGED <<writers, wals, crashes, current_sequence, entry>>
  BY DEF CheckSize, RotateFlush, RotateNumber, RotateOpen, RotateReplace, RotateReset, counterVars,
         diskVars, histVars
<1>2. pc[a] \notin {"idle", "count"}
  BY DEF CheckSize, RotateFlush, RotateNumber, RotateOpen, RotateReplace, RotateReset
<1>3. /\ pc'[a] \notin {"idle", "count"}
      /\ \/ /\ file' = file /\ opened' = opened
            /\ pc'[a] \in {"open", "replace"} => pc[a] \in {"open", "replace"}
         \/ /\ file' = file /\ opened'[a] = file_number + 1 /\ pc[a] = "number"
         \/ /\ file' = opened[a] /\ pc[a] = "replace" /\ pc'[a] = "reset"
  <2>1. CASE CheckSize(a)
    BY <1>t, <2>1 DEF CheckSize, Goto, Types, counterVars
  <2>2. CASE RotateFlush(a) BY <1>t, <2>2 DEF RotateFlush, Goto, Types, counterVars
  <2>3. CASE RotateNumber(a) BY <1>t, <2>3 DEF RotateNumber, Goto, Types
  <2>4. CASE RotateOpen(a) BY <1>t, <2>4 DEF RotateOpen, Goto, Types, counterVars
  <2>5. CASE RotateReplace(a) BY <1>t, <2>5 DEF RotateReplace, Goto, Types
  <2>6. CASE RotateReset(a) BY <1>t, <2>6 DEF RotateReset, Goto, Types
  <2> QED BY <2>1, <2>2, <2>3, <2>4, <2>5, <2>6
<1>4. ASSUME Steady PROVE Order'
  <2>1. a \in writers /\ \A b \in writers : b = a BY <1>2, <1>4, OneWriter DEF Steady
  <2>2. Rising(a) BY <1>4, <2>1 DEF Order
  <2>3. file_number \in Int /\ file \in Int /\ opened[a] \in Int /\ opened[a] \in FileNumbers
    BY <1>t, FileInts DEF Types
  <2>4. pc[a] = "number" => file = file_number BY <1>4, <1>t, <2>1 DEF Placed, Steady
  <2>5. file' \in FileNumbers /\ file' >= file BY <1>3, <2>2, <2>3, FileInts DEF Rising
  <2>6. pc'[a] \in {"open", "replace"} => opened'[a] >= file' BY <1>3, <2>2, <2>3, <2>4 DEF Rising
  <2>7. Under(entry[a].sequence)' BY <1>1, <1>2, <2>2 DEF Rising, Under
  <2>8. entry'[a].sequence < current_sequence' BY <1>1, <1>2, <2>2 DEF Rising
  <2>9. Rising(a)' BY <2>6, <2>7, <2>8 DEF Rising
  <2> QED BY <1>1, <2>1, <2>5, <2>9, OrderQuiet
<1>5. ASSUME ~Steady PROVE Order'
  <2>1. ~Steady' /\ crashes' \in Nat BY <1>1, <1>5 DEF Steady, Alone, Order
  <2> QED BY <2>1 DEF Order
<1> QED BY <1>4, <1>5

LEMMA OrderOthers ==
  ASSUME Inv, Order,
         \/ \E a \in Appenders : CountAndReturn(a)
         \/ BackgroundFsync \/ \E f, t : CompactFile(f, t)
         \/ UNCHANGED vars
  PROVE  Order'
<1>1. UNCHANGED <<writers, wals, crashes, current_sequence, entry, file, opened>>
  BY DEF CountAndReturn, BackgroundFsync, CompactFile, counterVars, diskVars, histVars, callVars, vars
<1>2. \A b \in Appenders : pc'[b] \in {pc[b], "idle"}
  BY DEF CountAndReturn, BackgroundFsync, CompactFile, callVars, vars, Goto, Inv, Base, Types
<1>3. writers \subseteq Appenders BY DEF Inv, Base, Types, Appenders
<1>4. ASSUME Steady, NEW b \in writers PROVE Rising(b)'
  <2>1. Rising(b) BY <1>4 DEF Order
  <2>2. Under(entry[b].sequence)' = Under(entry[b].sequence) BY <1>1 DEF Under
  <2>3. pc'[b] \in {pc[b], "idle"} BY <1>2, <1>3
  <2> QED BY <1>1, <2>1, <2>2, <2>3 DEF Rising
<1>5. file' \in FileNumbers /\ file' >= file BY <1>1, FileInts
<1> QED BY <1>1, <1>4, <1>5, OrderQuiet

LEMMA OrderTake ==
  ASSUME Inv, Order, NEW a \in Appenders, TakeSequence(a) PROVE Order'
<1>t. Types BY DEF Inv, Base
<1>1. /\ a \in writers /\ pc[a] = "idle" /\ current_sequence' = current_sequence + 1
      /\ UNCHANGED <<writers, wals, crashes, file, opened>>
  BY DEF TakeSequence, after_fetch_add, diskVars
<1>2. pc'[a] = "check" BY <1>t DEF TakeSequence, Goto, Types
<1>3. PICK e : e = Entry(current_sequence, appends + 1) OBVIOUS
<1>4. entry'[a] = e BY <1>t, <1>3 DEF TakeSequence, Types
<1>5. e.sequence = current_sequence BY <1>3 DEF Entry
<1>6. ASSUME Steady PROVE Order'
  <2>1. \A b \in writers : b = a BY <1>1, <1>6, OneWriter DEF Steady
  <2>2. Under(current_sequence) /\ Sorted /\ Untouched /\ crashes \in Nat BY <1>6 DEF Order
  <2>3. PICK t : t = current_sequence OBVIOUS
  <2>4. t \in Int BY <2>3, SequenceInts
  <2>5. Under(t)' BY <1>1, <2>2, <2>3 DEF Under
  <2>6. Under(t + 1)'
    <3> SUFFICES ASSUME NEW f \in FileNumbers, NEW i \in 1..Len(wals[f]) PROVE wals[f][i].sequence < t + 1
      BY <1>1 DEF Under
    <3>1. wals[f][i].sequence < t /\ wals[f][i].sequence \in Int BY <1>1, <2>5, SequenceInts DEF Under
    <3> QED BY <2>4, <3>1
  <2>7. Under(current_sequence)' BY <1>1, <2>3, <2>6 DEF Under
  <2>8. Under(entry[a].sequence)' BY <1>4, <1>5, <2>3, <2>5 DEF Under
  <2>9. entry'[a].sequence < current_sequence' BY <1>1, <1>4, <1>5, <2>3, <2>4
  <2>10. Rising(a)' BY <1>2, <2>8, <2>9 DEF Rising
  <2>11. Sorted' /\ Untouched' BY <1>1, <2>2 DEF Sorted, Untouched
  <2> QED BY <1>1, <2>1, <2>2, <2>7, <2>10, <2>11 DEF Order
<1>7. ASSUME ~Steady PROVE Order'
  <2>1. ~Steady' /\ crashes' \in Nat BY <1>1, <1>7 DEF Steady, Alone, Order
  <2> QED BY <2>1 DEF Order
<1> QED BY <1>6, <1>7

LEMMA OrderWrite ==
  ASSUME Inv, Order, NEW a \in Appenders, WriteEntry(a) PROVE Order'
<1>t. Types BY DEF Inv, Base
<1>1. pc[a] = "write" /\ UNCHANGED <<writers, crashes, current_sequence, file, entry, opened>>
  BY DEF WriteEntry, counterVars, histVars
<1>2. pc'[a] = "count" BY <1>t DEF WriteEntry, Goto, Types
<1>3. PICK e : e = entry[a] OBVIOUS
<1>4. PICK h : h = file OBVIOUS
<1>5. h \in FileNumbers /\ e \in Entries /\ wals[h] \in Seq(Entries) BY <1>3, <1>4, <1>t DEF Types
<1>6. PICK x : x = Append(wals[h], e) OBVIOUS
<1>7. /\ Len(x) = Len(wals[h]) + 1 /\ x[Len(wals[h]) + 1] = e /\ Len(wals[h]) \in Nat
      /\ \A i \in 1..Len(wals[h]) : x[i] = wals[h][i]
  BY <1>5, <1>6
<1>8. wals'[h] = x /\ \A f \in FileNumbers : f # h => wals'[f] = wals[f]
  BY <1>3, <1>4, <1>5, <1>6, <1>t DEF WriteEntry, Types
<1>9. ASSUME NEW f \in FileNumbers, NEW i \in 1..Len(wals'[f])
      PROVE  \/ i \in 1..Len(wals[f]) /\ wals'[f][i] = wals[f][i]
             \/ f = h /\ i = Len(wals[h]) + 1 /\ wals'[f][i] = e
  <2>1. CASE f = h
    <3>1. i \in 1..Len(x) /\ wals'[f][i] = x[i] BY <1>8, <2>1
    <3>2. i \in 1..Len(wals[h]) \/ i = Len(wals[h]) + 1 BY <1>7, <3>1
    <3> QED BY <1>7, <2>1, <3>1, <3>2
  <2>2. CASE f # h BY <1>8, <2>2
  <2> QED BY <2>1, <2>2
<1>10. ASSUME Steady PROVE Order'
  <2>1. a \in writers /\ \A b \in writers : b = a BY <1>1, <1>10, OneWriter DEF Steady
  <2>2. Under(current_sequence) /\ Sorted /\ Untouched /\ crashes \in Nat /\ Rising(a)
    BY <1>10, <2>1 DEF Order
  <2>3. e.sequence < current_sequence /\ Under(e.sequence) BY <1>1, <1>3, <2>2 DEF Rising
  <2>4. Under(current_sequence)'
    <3> SUFFICES ASSUME NEW f \in FileNumbers, NEW i \in 1..Len(wals'[f])
                 PROVE  wals'[f][i].sequence < current_sequence
      BY <1>1 DEF Under
    <3> QED BY <1>9, <2>2, <2>3 DEF Under
  <2>5. Untouched' BY <1>1, <1>4, <1>8, <2>2, FileInts DEF Untouched
  <2>6. Sorted'
    <3> SUFFICES ASSUME NEW f \in FileNumbers, NEW g \in FileNumbers, NEW i \in 1..Len(wals'[f]),
                        NEW j \in 1..Len(wals'[g]), Precedes(f, i, g, j)
                 PROVE  wals'[f][i].sequence < wals'[g][j].sequence
      BY DEF Sorted, Precedes
    <3>1. CASE i \in 1..Len(wals[f]) /\ wals'[f][i] = wals[f][i]
      <4>1. CASE j \in 1..Len(wals[g]) /\ wals'[g][j] = wals[g][j] BY <2>2, <3>1, <4>1 DEF Sorted
      <4>2. CASE wals'[g][j] = e BY <2>3, <3>1, <4>2 DEF Under
      <4> QED BY <1>9, <4>1, <4>2
    <3>2. CASE f = h /\ i = Len(wals[h]) + 1 /\ wals'[f][i] = e
      <4>1. f \in Int /\ g \in Int /\ h \in Int BY <1>5, FileInts
      <4>2. i \in Int /\ j \in Int BY <1>7, <3>2
      <4>3. CASE g = h
        <5>1. j \in 1..Len(wals[h]) + 1 BY <1>7, <1>8, <4>3
        <5> QED BY <1>7, <3>2, <4>1, <4>2, <4>3, <5>1 DEF Precedes
      <4>4. CASE g # h
        <5>1. g > h BY <3>2, <4>1, <4>4 DEF Precedes
        <5>2. wals'[g] = << >> BY <1>4, <1>8, <2>2, <4>4, <5>1 DEF Untouched
        <5> QED BY <5>2
      <4> QED BY <4>3, <4>4
    <3> QED BY <1>9, <3>1, <3>2
  <2>7. Rising(a)' BY <1>1, <1>2, <1>3, <2>3 DEF Rising
  <2> QED BY <1>1, <2>1, <2>2, <2>4, <2>5, <2>6, <2>7 DEF Order
<1>11. ASSUME ~Steady PROVE Order'
  <2>1. ~Steady' /\ crashes' \in Nat BY <1>1, <1>11 DEF Steady, Alone, Order
  <2> QED BY <2>1 DEF Order
<1> QED BY <1>10, <1>11

LEMMA OrderNext == ASSUME Inv, Order, [Next]_vars PROVE Order'
<1>1. ASSUME NEW left, Crash(left) PROVE Order'
  <2>1. crashes' = crashes + 1 /\ crashes \in Nat BY <1>1 DEF Crash, Order
  <2>2. crashes' \in Nat /\ crashes' # 0 BY <2>1
  <2> QED BY <2>2 DEF Order, Steady
<1>2. ASSUME NEW a \in Appenders, TakeSequence(a) \/ AppendStep(a) PROVE Order'
  BY <1>2, OrderTake, OrderRotate, OrderWrite, OrderOthers DEF AppendStep
<1>3. CASE BackgroundFsync \/ (\E f \in FileNumbers, t \in 0..MaxAppends : CompactFile(f, t))
           \/ UNCHANGED vars
  BY <1>3, OrderOthers
<1> QED BY <1>1, <1>2, <1>3 DEF Next

LEMMA OrderInit == ASSUME Init PROVE Order
<1>1. \A f \in FileNumbers : wals[f] = << >> /\ Len(wals[f]) = 0 BY DEF Init
<1>2. \A i \in 1..0 : FALSE OBVIOUS
<1>3. Under(current_sequence) /\ Sorted /\ Untouched BY <1>1, <1>2 DEF Under, Sorted, Untouched
<1>4. \A a \in writers : pc[a] = "idle" BY DEF Init, Appenders
<1>5. \A a \in writers : Rising(a) BY <1>4 DEF Rising
<1> QED BY <1>3, <1>5 DEF Order, Init

-----------------------------------------------------------------------------
(* What replay_all_wals applies is defined file after file. *)
LEMMA Least ==
  ASSUME NEW S, S \subseteq Nat, S # {}
  PROVE  \E m \in S : \A y \in S : m <= y
<1> DEFINE R == OpToRel(<, Nat)
<1>1. IsWellFoundedOn(R, Nat) BY NatLessThanWellFounded
<1>2. \A x, y \in Nat : x < y => <<x, y>> \in R BY DEF OpToRel
<1> HIDE DEF R
<1>3. PICK m \in S : \A y \in S : ~(<<y, m>> \in R) BY <1>1, WFMin
<1>4. \A y \in S : m \in Nat /\ y \in Nat /\ ~(y < m) BY <1>2, <1>3
<1> QED BY <1>4

Ended(n) == n \notin existing \/ \E f \in existing : f < n /\ ~ReadsToEnd(wals[f])
Adds(before, n) == IF Ended(n) THEN before ELSE before \o Readable(wals[n])
Follows(g, k) ==
  /\ g = [n \in -1..k |-> g[n]] /\ g[-1] = << >>
  /\ \A n \in 0..k : g[n] = Adds(g[n - 1], n)

LEMMA Continues ==
  ASSUME NEW k \in Nat, NEW g, Follows(g, k - 1)
  PROVE  \E h : Follows(h, k)
<1> DEFINE h == [n \in -1..k |-> IF n = k THEN Adds(g[k - 1], k) ELSE g[n]]
<1>1. h = [n \in -1..k |-> h[n]] OBVIOUS
<1>2. h[-1] = << >> BY DEF Follows
<1>3. \A n \in -1..k - 1 : h[n] = g[n] OBVIOUS
<1>4. h[k] = Adds(g[k - 1], k) OBVIOUS
<1> HIDE DEF h
<1>5. ASSUME NEW n \in 0..k PROVE h[n] = Adds(h[n - 1], n)
  <2>1. n - 1 \in -1..k - 1 OBVIOUS
  <2>2. h[n - 1] = g[n - 1] BY <1>3, <2>1
  <2>3. CASE n = k BY <1>4, <2>2, <2>3
  <2>4. CASE n # k
    <3>1. n \in 0..k - 1 /\ n \in -1..k - 1 BY <2>4
    <3>2. g[n] = Adds(g[n - 1], n) BY <3>1 DEF Follows
    <3> QED BY <1>3, <2>2, <3>1, <3>2
  <2> QED BY <2>3, <2>4
<1>6. Follows(h, k) BY <1>1, <1>2, <1>5 DEF Follows
<1> QED BY <1>6

LEMMA FollowsAll == ASSUME NEW k \in Nat PROVE \E g : Follows(g, k - 1)
<1> DEFINE Without == {m \in Nat : ~\E g : Follows(g, m - 1)}
<1>1. SUFFICES ASSUME Without # {} PROVE FALSE OBVIOUS
<1>2. PICK m \in Without : \A y \in Without : m <= y BY <1>1, Least
<1>3. m # 0
  <2> DEFINE g == [n \in -1..-1 |-> << >>]
  <2>1. g = [n \in -1..-1 |-> g[n]] /\ g[-1] = << >> OBVIOUS
  <2>2. \A n \in 0..-1 : FALSE OBVIOUS
  <2> HIDE DEF g
  <2>3. Follows(g, -1) BY <2>1, <2>2 DEF Follows
  <2>4. 0 - 1 = -1 OBVIOUS
  <2> QED BY <2>3, <2>4
<1>4. m \in Nat /\ m - 1 \in Nat BY <1>3
<1>5. m - 1 \notin Without BY <1>2, <1>4
<1>6. PICK g : Follows(g, m - 1 - 1) BY <1>4, <1>5
<1>7. \E h : Follows(h, m - 1) BY <1>4, <1>6, Continues
<1> QED BY <1>7

LEMMA ReplayEquation == Follows(ReplayedUpTo, MaxFiles)
<1>1. MaxFiles \in Nat /\ MaxFiles + 1 \in Nat /\ MaxFiles + 1 - 1 = MaxFiles BY WalAssumption
<1>2. PICK g : Follows(g, MaxFiles) BY <1>1, FollowsAll
<1>3. g = [n \in -1..MaxFiles |->
             IF n = -1 THEN << >>
             ELSE IF n \notin existing \/ \E f \in existing : f < n /\ ~ReadsToEnd(wals[f])
                  THEN g[n - 1] ELSE g[n - 1] \o Readable(wals[n])]
  <2> SUFFICES ASSUME NEW n \in -1..MaxFiles
               PROVE  g[n] = IF n = -1 THEN << >>
                             ELSE IF n \notin existing \/ \E f \in existing : f < n /\ ~ReadsToEnd(wals[f])
                                  THEN g[n - 1] ELSE g[n - 1] \o Readable(wals[n])
    BY <1>2 DEF Follows
  <2>1. CASE n = -1 BY <1>2, <2>1 DEF Follows
  <2>2. CASE n # -1
    <3>1. n \in 0..MaxFiles BY <1>1, <2>2
    <3>2. g[n] = Adds(g[n - 1], n) BY <1>2, <3>1 DEF Follows
    <3> QED BY <2>2, <3>2 DEF Adds, Ended
  <2> QED BY <2>1, <2>2
<1>4. ReplayedUpTo = [n \in -1..MaxFiles |->
             IF n = -1 THEN << >>
             ELSE IF n \notin existing \/ \E f \in existing : f < n /\ ~ReadsToEnd(wals[f])
                  THEN ReplayedUpTo[n - 1] ELSE ReplayedUpTo[n - 1] \o Readable(wals[n])]
  BY <1>3, Zenon DEF ReplayedUpTo
<1>5. ReplayedUpTo = [n \in -1..MaxFiles |-> ReplayedUpTo[n]] BY <1>4
<1>6. ReplayedUpTo[-1] = << >>
  <2>1. -1 \in -1..MaxFiles BY <1>1
  <2> QED BY <1>4, <2>1
<1>7. ASSUME NEW n \in 0..MaxFiles PROVE ReplayedUpTo[n] = Adds(ReplayedUpTo[n - 1], n)
  <2>1. n \in -1..MaxFiles /\ n # -1 BY <1>1
  <2> QED BY <1>4, <2>1 DEF Adds, Ended
<1> QED BY <1>5, <1>6, <1>7 DEF Follows

(* A sequence of entries of the files up to n, in the order of their numbers. *)
From(e, n) == \E f \in FileNumbers : f <= n /\ \E j \in 1..Len(wals[f]) : e = wals[f][j]
Lists(s, n) ==
  s \in Seq(Entries) /\ IsIncreasing(s) /\ \A i \in 1..Len(s) : From(s[i], n)

LEMMA ListsAnother ==
  ASSUME Inv, Sorted, NEW n \in FileNumbers, NEW s, Lists(s, n - 1)
  PROVE  Lists(Adds(s, n), n)
<1>1. n \in Int /\ FileNumbers \subseteq Int BY FileInts
<1>2. s \in Seq(Entries) /\ Len(s) \in Nat BY DEF Lists
<1>3. \A i \in 1..Len(s) : From(s[i], n)
  <2> SUFFICES ASSUME NEW i \in 1..Len(s) PROVE From(s[i], n) OBVIOUS
  <2>1. From(s[i], n - 1) BY DEF Lists
  <2>2. PICK f \in FileNumbers : f <= n - 1 /\ \E j \in 1..Len(wals[f]) : s[i] = wals[f][j]
    BY <2>1 DEF From
  <2>3. f <= n BY <1>1, <2>2
  <2> QED BY <2>2, <2>3 DEF From
<1>4. CASE Ended(n) BY <1>2, <1>3, <1>4 DEF Lists, Adds
<1>5. CASE ~Ended(n)
  <2>1. wals[n] \in Seq(Entries) /\ Len(wals[n]) \in Nat BY SequenceInts
  <2>2. PICK m \in 0..Len(wals[n]) : Readable(wals[n]) = SubSeq(wals[n], 1, m)
    BY <2>1, ReadsPrefix
  <2> DEFINE r == Readable(wals[n])
             t == s \o r
  <2>3. /\ r \in Seq(Entries) /\ Len(r) = m /\ m \in Nat /\ m <= Len(wals[n])
        /\ \A i \in 1..m : r[i] = wals[n][i]
    BY <2>1, <2>2, Prefix
  <2>4. Adds(s, n) = t BY <1>5 DEF Adds
  <2> HIDE DEF r
  <2>5. /\ t \in Seq(Entries) /\ Len(t) = Len(s) + m
        /\ \A i \in 1..Len(s) : t[i] = s[i]
        /\ \A i \in 1..Len(t) : i > Len(s) => t[i] = r[i - Len(s)]
    BY <1>2, <2>3
  <2> HIDE DEF t
  <2>6. ASSUME NEW i \in 1..Len(t), i > Len(s)
        PROVE  i - Len(s) \in 1..Len(wals[n]) /\ t[i] = wals[n][i - Len(s)]
    <3>1. i - Len(s) \in 1..m BY <1>2, <2>3, <2>5, <2>6
    <3> QED BY <2>1, <2>3, <2>5, <2>6, <3>1
  <2>7. ASSUME NEW i \in 1..Len(t) PROVE From(t[i], n)
    <3>1. CASE i <= Len(s) BY <1>2, <1>3, <2>5, <3>1
    <3>2. CASE i > Len(s)
      <4>1. n <= n BY <1>1
      <4> QED BY <2>6, <3>2, <4>1 DEF From
    <3> QED BY <1>2, <3>1, <3>2
  <2>8. ASSUME NEW i \in 1..Len(t), NEW j \in 1..Len(t), i < j
        PROVE  t[i].sequence < t[j].sequence
    <3>1. CASE j <= Len(s)
      <4>1. i \in 1..Len(s) /\ j \in 1..Len(s) BY <1>2, <2>8, <3>1
      <4> QED BY <2>5, <2>8, <4>1 DEF Lists, IsIncreasing
    <3>2. CASE j > Len(s)
      <4>1. PICK q \in 1..Len(wals[n]) : q = j - Len(s) /\ t[j] = wals[n][q] BY <2>6, <3>2
      <4>2. CASE i <= Len(s)
        <5>1. i \in 1..Len(s) BY <1>2, <4>2
        <5>2. From(s[i], n - 1) BY <5>1 DEF Lists
        <5>3. PICK f \in FileNumbers : f <= n - 1 /\ \E p \in 1..Len(wals[f]) : s[i] = wals[f][p]
          BY <5>2 DEF From
        <5>4. PICK p \in 1..Len(wals[f]) : s[i] = wals[f][p] BY <5>3
        <5>5. f < n BY <1>1, <5>3
        <5>6. wals[f][p].sequence < wals[n][q].sequence BY <5>5 DEF Sorted, Precedes
        <5> QED BY <2>5, <4>1, <5>1, <5>4, <5>6
      <4>3. CASE i > Len(s)
        <5>1. PICK p \in 1..Len(wals[n]) : p = i - Len(s) /\ t[i] = wals[n][p] BY <2>6, <4>3
        <5>2. p < q BY <1>2, <2>8, <4>1, <5>1
        <5>3. wals[n][p].sequence < wals[n][q].sequence BY <5>2 DEF Sorted, Precedes
        <5> QED BY <4>1, <5>1, <5>3
      <4> QED BY <1>2, <4>2, <4>3
    <3> QED BY <1>2, <3>1, <3>2
  <2> QED BY <2>4, <2>5, <2>7, <2>8 DEF Lists, IsIncreasing
<1> QED BY <1>4, <1>5

LEMMA ListsAll == ASSUME Inv, Sorted PROVE \A k \in 0..MaxFiles + 1 : Lists(ReplayedUpTo[k - 1], k - 1)
<1> DEFINE Without == {k \in 0..MaxFiles + 1 : ~Lists(ReplayedUpTo[k - 1], k - 1)}
<1>1. SUFFICES ASSUME Without # {} PROVE FALSE OBVIOUS
<1>2. MaxFiles \in Nat BY WalAssumption
<1>3. Without \subseteq Nat BY <1>2
<1>4. PICK k \in Without : \A y \in Without : k <= y
  <2> HIDE DEF Without
  <2> QED BY <1>1, <1>3, Least
<1>5. k # 0
  <2>1. ReplayedUpTo[-1] = << >> BY ReplayEquation DEF Follows
  <2>2. Lists(<< >>, -1)
    <3>1. Len(<< >>) = 0 /\ << >> \in Seq(Entries) OBVIOUS
    <3>2. \A i \in 1..0 : FALSE OBVIOUS
    <3> QED BY <3>1, <3>2 DEF Lists, IsIncreasing
  <2>3. 0 - 1 = -1 OBVIOUS
  <2> QED BY <2>1, <2>2, <2>3
<1>6. k - 1 \in FileNumbers /\ k - 1 \in 0..MaxFiles + 1 /\ k \in Nat BY <1>2, <1>5 DEF FileNumbers
<1>7. Lists(ReplayedUpTo[k - 1 - 1], k - 1 - 1) BY <1>4, <1>6
<1>8. ReplayedUpTo[k - 1] = Adds(ReplayedUpTo[k - 1 - 1], k - 1)
  BY <1>6, ReplayEquation DEF Follows, FileNumbers
<1>9. Lists(ReplayedUpTo[k - 1], k - 1)
  <2>1. PICK n \in FileNumbers : n = k - 1 BY <1>6
  <2>2. PICK s : s = ReplayedUpTo[n - 1] OBVIOUS
  <2>3. Lists(s, n - 1) BY <1>7, <2>1, <2>2
  <2>4. Lists(Adds(s, n), n) BY <2>3, ListsAnother
  <2> QED BY <1>8, <2>1, <2>2, <2>4
<1> QED BY <1>9

(* Until the first crash, replay_all_wals (wal/replay.rs) applies the entries of a task that *)
(* appends alone in the order in which WalWriter::append numbered them (wal/writer.rs),      *)
(* whatever the size of a file, and although files were rotated and compacted in between.    *)
THEOREM ReplayedInOrder == Spec => []ReplayInOrder
<1>1. ASSUME Inv, Order PROVE ReplayInOrder
  <2> SUFFICES ASSUME Alone, crashes = 0 PROVE IsIncreasing(Replayed) BY DEF ReplayInOrder
  <2>1. Sorted BY <1>1 DEF Order, Steady
  <2> DEFINE k == MaxFiles + 1
  <2>2. k \in 0..MaxFiles + 1 /\ k - 1 = MaxFiles BY WalAssumption
  <2> HIDE DEF k
  <2>3. Lists(ReplayedUpTo[k - 1], k - 1) BY <1>1, <2>1, <2>2, ListsAll
  <2>4. Lists(ReplayedUpTo[MaxFiles], MaxFiles) BY <2>2, <2>3
  <2> QED BY <2>4 DEF Lists, Replayed
<1> QED BY <1>1, InvInit, InvNext, OrderInit, OrderNext, PTL DEF Spec
=============================================================================
