---------------------------- MODULE KeyRotation ----------------------------
(***************************************************************************)
(* Key rotation with re-encryption: EncryptionEngine (encryption/mod.rs),  *)
(* KeyManager (key_manager.rs), KeyRotationScheduler (key_rotation.rs) and *)
(* the persisted state of a rotation (rotation_state*.rs), with crashes,   *)
(* restarts and failing writes.                                            *)
(*                                                                         *)
(* The collection of every key keeps the documents 1..NumDocs, in scan     *)
(* order; log entries and snapshots are found by no scan.  Storage holds   *)
(* the documents as plain JSON, so the re-encryption decrypts none of them *)
(* and skips them all; what is encrypted is in the hands of the callers of *)
(* encrypt_document.  Key material is random, so each generation of a key  *)
(* is a number that is never handed out twice.  A step is one durable      *)
(* write, or the loads and assignments between two of them.  Whoever       *)
(* changes keys borrows the engine mutably (the connection holds its write *)
(* lock), so there is one such call at a time and nothing is encrypted     *)
(* meanwhile.  The master key is configured and stays the same; encryption *)
(* is enabled for every collection.                                        *)
(***************************************************************************)
EXTENDS Integers

CONSTANTS Keys, NumDocs,
          LogKeys,        \* "wal_key" and "snapshot_key": no collection uses them
          BatchSize,      \* reencryption_batch_size
          EnginePath,     \* where the start-up check looks for the state file:
                          \* <data_dir>/keys
          SchedulerPath,  \* where the scheduler keeps it: "./encryption"
          NoKey, Torn, None,
          MaxGeneration,  \* bound: key generations
          MaxCrashes,     \* bound: crashes
          MaxIoErrors     \* bound: failing writes


ASSUME ConstantsAssumption ==
  /\ NumDocs \in Nat \ {0} /\ BatchSize \in Nat \ {0}
  /\ NoKey \notin Keys /\ LogKeys \subseteq Keys
  /\ Torn \notin [keys : [Keys -> Nat], inactive : SUBSET Keys]
  /\ None \notin [key : Keys, generation : Nat, active : BOOLEAN]
  /\ None \notin [key : Keys, generation : Nat]
  /\ MaxGeneration \in Nat /\ MaxCrashes \in Nat /\ MaxIoErrors \in Nat

VARIABLES
  keys,          \* KeyManager.keys: the generation of each key in memory, or Missing
  inactive,      \* the keys in memory that were deactivated
  keys_json,     \* its file: what was saved of both, or Torn
  exported,      \* the last export of a key, in the hands of an operator
  minted,        \* generations handed out so far
  rotation_state,\* the state file at each path
  up, scheduler, \* the server runs; its engine has a scheduler
  statuses,      \* rotation_statuses of the scheduler
  step,          \* what the call in progress does next, or "none"
  r_key,         \* the key it rotates
  r_kind,        \* "rotate", "resume" (from the checkpoint), "bare" (no scheduler), or
                 \* "manage": not a rotation but another change of the keys
  r_checked,     \* it was started by check_and_rotate_keys
  r_next,        \* the next document of its list
  crashes, io_errors,   \* faults so far
  sealed,        \* a ciphertext that a caller keeps, made with a key that was in the
                 \* file, until that key is rotated: [key, generation] or None
  rotated_to     \* the generation of each key its last completed rotation put in use

keyVars == <<keys, inactive, keys_json, exported, minted>>
ctxVars == <<r_key, r_kind, r_checked, r_next>>
faultVars == <<crashes, io_errors>>
history == <<sealed, rotated_to>>
vars == <<keyVars, rotation_state, up, scheduler, statuses, step, ctxVars, faultVars, history>>

Documents == 1..NumDocs
Missing == 0
Paths == {EnginePath, SchedulerPath}

\* KeyRotationState.  Nothing in the code ever saves the state Failed, and the number
\* of documents processed is always 0.
Idle == [state |-> "Idle", key |-> NoKey, last_checkpoint |-> 0]
ReEncrypting(k, c) == [state |-> "ReEncrypting", key |-> k, last_checkpoint |-> c]
Completed(k) == [state |-> "Completed", key |-> k, last_checkpoint |-> 0]

can_start_rotation(s) == s.state \in {"Idle", "Completed"}

\* enforce_rotation_state_on_startup lets the server start.
enforce_rotation_state_on_startup(s) == s.state \in {"Idle", "Completed"}

\* What save_keys writes.
KeyStorage == [keys |-> keys, inactive |-> inactive]

\* Mutated form: a file that cannot be read counts as one without keys.
load_keys_or_none(file) ==
  IF file = Torn THEN {[keys |-> [k \in Keys |-> Missing], inactive |-> {}]} ELSE {file}

\* What load_keys may return: nothing for a file that cannot be parsed.
load_keys(file) == {file} \ {Torn}

Init ==
  /\ keys \in [Keys -> {Missing, 1}] /\ inactive = {} /\ exported = None
  /\ keys_json = KeyStorage /\ minted = 1
  /\ rotation_state = [p \in Paths |-> Idle]
  /\ up = TRUE /\ scheduler = FALSE
  /\ statuses = [k \in Keys |-> "None"]
  /\ step = "none" /\ r_key = NoKey /\ r_kind = "rotate" /\ r_checked = FALSE /\ r_next = 1
  /\ crashes = 0 /\ io_errors = 0
  /\ sealed = None /\ rotated_to = [k \in Keys |-> Missing]

\* The call that changes keys has returned, and its context is gone.
NoContext == r_key' = NoKey /\ r_kind' = "rotate" /\ r_checked' = FALSE /\ r_next' = 1

\* save_rotation_state: written to a temporary file and renamed, so atomic.
save_rotation_state(s) == rotation_state' = [rotation_state EXCEPT ![SchedulerPath] = s]

-----------------------------------------------------------------------------
(* The engine outside a rotation. *)

AtRest == up /\ step = "none"

\* get_key finds the key.
get_key(k) == keys[k] # Missing /\ k \notin inactive

\* encrypt_document, encrypt_wal_entry or encrypt_snapshot, for a caller that keeps the
\* ciphertext; the key was saved.  The latter two create a key that is missing first.
encrypt_document(k) ==
  /\ AtRest /\ get_key(k) /\ sealed = None
  /\ keys_json # Torn /\ keys_json.keys[k] = keys[k]
  /\ sealed' = [key |-> k, generation |-> keys[k]]
  /\ UNCHANGED <<keyVars, rotation_state, up, scheduler, statuses, step, ctxVars, faultVars,
                 rotated_to>>

enable_key_rotation ==
  /\ AtRest /\ ~scheduler
  /\ scheduler' = TRUE
  /\ statuses' = [k \in Keys |-> "None"]
  /\ UNCHANGED <<keyVars, rotation_state, up, step, ctxVars, faultVars, history>>

disable_key_rotation ==
  /\ AtRest /\ scheduler
  /\ scheduler' = FALSE
  /\ statuses' = [k \in Keys |-> "None"]
  /\ UNCHANGED <<keyVars, rotation_state, up, step, ctxVars, faultVars, history>>

\* The end of create_key, deactivate_key and import_key: save_keys follows.
Managed ==
  /\ step' = "save_keys"
  /\ r_kind' = "manage" /\ r_checked' = FALSE
  /\ UNCHANGED <<keys_json, exported, rotation_state, up, scheduler, statuses, r_key, r_next,
                 faultVars, history>>

create_key(k) ==
  /\ AtRest /\ keys[k] = Missing /\ minted < MaxGeneration
  /\ minted' = minted + 1
  /\ keys' = [keys EXCEPT ![k] = minted + 1]
  /\ UNCHANGED inactive
  /\ Managed

deactivate_key(k) ==
  /\ AtRest /\ keys[k] # Missing
  /\ inactive' = inactive \cup {k}
  /\ UNCHANGED <<keys, minted>>
  /\ Managed

export_key(k) ==
  /\ AtRest /\ keys[k] # Missing
  /\ exported' = [key |-> k, generation |-> keys[k], active |-> k \notin inactive]
  /\ UNCHANGED <<keys, inactive, keys_json, minted, rotation_state, up, scheduler, statuses,
                 step, ctxVars, faultVars, history>>

\* Mutated form: an import replaces a key of the same name.
importable_always(x) == x # None

\* A key that is there is not imported over.
importable(x) == x # None /\ keys[x.key] = Missing

import_key ==
  /\ AtRest /\ importable(exported)
  /\ keys' = [keys EXCEPT ![exported.key] = exported.generation]
  /\ inactive' = IF exported.active THEN inactive \ {exported.key}
                 ELSE inactive \cup {exported.key}
  /\ UNCHANGED minted
  /\ Managed

cancel_rotation(k) ==
  /\ AtRest /\ scheduler /\ statuses[k] = "InProgress"
  /\ statuses' = [statuses EXCEPT ![k] = "Cancelled"]
  /\ UNCHANGED <<keyVars, rotation_state, up, scheduler, step, ctxVars, faultVars, history>>

\* Only a completed rotation has a completion time to be older than the cutoff.
cleanup_old_statuses(k) ==
  /\ AtRest /\ scheduler /\ statuses[k] = "Completed"
  /\ statuses' = [statuses EXCEPT ![k] = "None"]
  /\ UNCHANGED <<keyVars, rotation_state, up, scheduler, step, ctxVars, faultVars, history>>

-----------------------------------------------------------------------------
(* A rotation: rotate_key, or resume_from_checkpoint. *)

\* rotate_key_with_backup in memory; save_keys follows.  The old generation is kept in
\* the call's context only, and what was encrypted with it is given up.
rotate_key_with_backup(k, kind, checked) ==
  /\ keys[k] # Missing /\ minted < MaxGeneration
  /\ minted' = minted + 1
  /\ keys' = [keys EXCEPT ![k] = minted + 1]
  /\ sealed' = IF sealed # None /\ sealed.key = k THEN None ELSE sealed
  /\ step' = "save_keys"
  /\ r_key' = k /\ r_kind' = kind /\ r_checked' = checked
  /\ UNCHANGED <<inactive, keys_json, exported, rotation_state, up, scheduler, faultVars,
                 rotated_to>>

\* EncryptionEngine::rotate_key without a scheduler, and KeyManager::rotate_key.
RotateWithoutScheduler(k) ==
  /\ AtRest /\ ~scheduler
  /\ rotate_key_with_backup(k, "bare", FALSE)
  /\ UNCHANGED <<statuses, r_next>>

\* Called by a client (rotate_key, force_rotate_key) or by the daily check,
\* which takes active keys of the right age and skips one whose status is InProgress.
rotate_key(k, checked) ==
  /\ AtRest /\ scheduler
  /\ checked => get_key(k) /\ statuses[k] # "InProgress"
  /\ can_start_rotation(rotation_state[SchedulerPath])
  /\ statuses' = [statuses EXCEPT ![k] = "InProgress"]
  /\ rotate_key_with_backup(k, "rotate", checked)
  /\ r_next' = 1

\* mark_rotation_failed, for the daily check only.
Failed(k) == IF statuses[k] = "None" THEN statuses ELSE [statuses EXCEPT ![k] = "Failed"]

\* rotate_key for a key that does not exist: the status is left InProgress.
RotateMissing(k) ==
  /\ AtRest /\ scheduler /\ keys[k] = Missing
  /\ can_start_rotation(rotation_state[SchedulerPath])
  /\ statuses' = [statuses EXCEPT ![k] = "InProgress"]
  /\ UNCHANGED <<keyVars, rotation_state, up, scheduler, step, ctxVars, faultVars, history>>

RotateRefused(k) ==
  /\ AtRest /\ scheduler /\ get_key(k)
  /\ statuses[k] # "InProgress"
  /\ ~can_start_rotation(rotation_state[SchedulerPath])
  /\ statuses' = Failed(k)
  /\ UNCHANGED <<keyVars, rotation_state, up, scheduler, step, ctxVars, faultVars, history>>

\* Documents up to the checkpoint are skipped, the checkpoint itself is not.
ResumeAt(c) == IF c = 0 THEN 1 ELSE c

\* is_collection_using_key: only the keys of collections have documents.
FirstOf(k, first) == IF k \in LogKeys THEN NumDocs + 1 ELSE first

resume_rotation ==
  /\ AtRest /\ scheduler
  /\ rotation_state[SchedulerPath].state = "ReEncrypting"
  /\ rotate_key_with_backup(rotation_state[SchedulerPath].key, "resume", FALSE)
  /\ r_next' = FirstOf(r_key', ResumeAt(rotation_state[SchedulerPath].last_checkpoint))
  /\ UNCHANGED statuses

\* After the save, get_key refuses the new generation of an inactive key, and the
\* rotation ends.
save_keys ==
  /\ step = "save_keys"
  /\ keys_json' = KeyStorage
  /\ step' = IF r_kind \in {"rotate", "resume"} /\ r_key \in inactive THEN "none"
             ELSE [rotate |-> "scan", resume |-> "reencrypt",
                   bare |-> "none", manage |-> "none"][r_kind]
  /\ IF step' = "none" THEN NoContext ELSE UNCHANGED ctxVars
  /\ UNCHANGED <<keys, inactive, exported, minted, rotation_state, up, scheduler, statuses,
                 faultVars, history>>

\* The scan of the collection and the save of ReEncrypting.
StartReencryption ==
  /\ step = "scan"
  /\ save_rotation_state(ReEncrypting(r_key, 0))
  /\ r_next' = FirstOf(r_key, 1)
  /\ step' = "reencrypt"
  /\ UNCHANGED <<keyVars, up, scheduler, statuses, r_key, r_kind, r_checked, faultVars, history>>

\* One batch: the old key decrypts none of the documents, which are plain JSON, so
\* each is logged and skipped.
reencrypt_batch ==
  /\ step = "reencrypt" /\ r_next <= NumDocs
  /\ r_next' = IF r_next + BatchSize <= NumDocs THEN r_next + BatchSize ELSE NumDocs + 1
  /\ step' = IF r_kind = "resume" THEN "checkpoint" ELSE "reencrypt"
  /\ UNCHANGED <<keyVars, rotation_state, up, scheduler, statuses, r_key, r_kind, r_checked,
                 faultVars, history>>

SaveCheckpoint ==
  /\ step = "checkpoint"
  /\ save_rotation_state(ReEncrypting(r_key, r_next - 1))
  /\ step' = "reencrypt"
  /\ UNCHANGED <<keyVars, up, scheduler, statuses, ctxVars, faultVars, history>>

CompleteRotation ==
  /\ step = "reencrypt" /\ r_next > NumDocs
  /\ save_rotation_state(Completed(r_key))
  /\ statuses' = IF r_kind = "resume" THEN statuses ELSE [statuses EXCEPT ![r_key] = "Completed"]
  /\ rotated_to' = [rotated_to EXCEPT ![r_key] = keys[r_key]]
  /\ step' = "none" /\ NoContext
  /\ UNCHANGED <<keyVars, up, scheduler, faultVars, sealed>>

-----------------------------------------------------------------------------
(* Faults. *)

\* A write or a scan returns an error, which ends the call; a failed fs::write of
\* keys.json may have truncated the file.
IoError ==
  /\ step \in {"save_keys", "scan", "reencrypt", "checkpoint"}
  /\ io_errors < MaxIoErrors
  /\ io_errors' = io_errors + 1
  /\ keys_json' \in {keys_json} \cup (IF step = "save_keys" THEN {Torn} ELSE {})
  /\ statuses' = IF r_checked THEN Failed(r_key) ELSE statuses
  /\ step' = "none" /\ NoContext
  /\ UNCHANGED <<keys, inactive, exported, minted, rotation_state, up, scheduler, crashes, history>>

\* The process dies; keys.json is written in place and may be cut short.
Crash ==
  /\ up /\ crashes < MaxCrashes
  /\ crashes' = crashes + 1
  /\ keys_json' \in {keys_json} \cup (IF step = "save_keys" THEN {Torn} ELSE {})
  /\ up' = FALSE /\ scheduler' = FALSE
  /\ statuses' = [k \in Keys |-> "None"]
  /\ step' = "none" /\ NoContext
  /\ UNCHANGED <<keys, inactive, exported, minted, rotation_state, io_errors, history>>

\* EncryptionEngine::new: load the keys, then enforce the rotation state.
Start ==
  /\ ~up
  /\ \E file \in load_keys(keys_json) : keys' = file.keys /\ inactive' = file.inactive
  /\ enforce_rotation_state_on_startup(rotation_state[EnginePath])
  /\ up' = TRUE
  /\ UNCHANGED <<keys_json, exported, minted, rotation_state, scheduler, statuses, step,
                 ctxVars, faultVars, history>>

\* The operator resets the state of a rotation that a crash left behind.
clear_rotation_state ==
  /\ ~up
  /\ rotation_state[SchedulerPath].state = "ReEncrypting"
  /\ rotation_state' = [rotation_state EXCEPT ![SchedulerPath] = Idle]
  /\ UNCHANGED <<keyVars, up, scheduler, statuses, step, ctxVars, faultVars, history>>

Next ==
  \/ enable_key_rotation \/ disable_key_rotation
  \/ \E k \in Keys : \/ encrypt_document(k)
                     \/ create_key(k) \/ deactivate_key(k) \/ export_key(k)
                     \/ RotateWithoutScheduler(k) \/ RotateMissing(k)
                     \/ cancel_rotation(k) \/ cleanup_old_statuses(k)
                     \/ \E b \in BOOLEAN : rotate_key(k, b)
                     \/ RotateRefused(k)
  \/ import_key \/ resume_rotation \/ save_keys \/ StartReencryption
  \/ reencrypt_batch \/ SaveCheckpoint \/ CompleteRotation
  \/ IoError \/ Crash \/ Start \/ clear_rotation_state

Spec == Init /\ [][Next]_vars

-----------------------------------------------------------------------------
RotationStates ==
  [state : {"Idle", "ReEncrypting", "Completed"}, key : Keys \cup {NoKey},
   last_checkpoint : 0..NumDocs]

\* Every variable keeps its type.
TypeOK ==
  /\ keys \in [Keys -> 0..minted] /\ inactive \subseteq Keys
  /\ keys_json = Torn \/ keys_json \in [keys : [Keys -> 0..minted], inactive : SUBSET Keys]
  /\ exported = None \/ exported \in [key : Keys, generation : 1..minted, active : BOOLEAN]
  /\ minted \in Nat
  /\ rotation_state \in [Paths -> RotationStates]
  /\ up \in BOOLEAN /\ scheduler \in BOOLEAN
  /\ statuses \in [Keys -> {"None", "InProgress", "Completed", "Failed", "Cancelled"}]
  /\ step \in {"none", "save_keys", "scan", "reencrypt", "checkpoint"}
  /\ r_key \in Keys \cup {NoKey}
  /\ r_kind \in {"rotate", "resume", "bare", "manage"} /\ r_checked \in BOOLEAN
  /\ r_next \in 1..NumDocs + 1
  /\ crashes \in 0..MaxCrashes /\ io_errors \in 0..MaxIoErrors
  /\ sealed = None \/ sealed \in [key : Keys, generation : 1..minted]
  /\ rotated_to \in [Keys -> 0..minted]

\* "A data encryption key (DEK) MUST NOT be used after rotation completes"
\* (INVARIANTS.md:116-128, E1): once a rotation is recorded as completed, the server
\* never runs again with an older generation of the key, whatever crashes, failing or
\* torn writes, restarts, imports of an old export, refused and resumed rotations
\* follow (key_rotation.rs:198-320, key_manager.rs:140-241 and 375-446).
NoRetiredKey == up => \A k \in Keys : keys[k] >= rotated_to[k]

\* What was encrypted with a key that is in the key file can be decrypted whenever the
\* server runs, until that key itself is rotated: through crashes, failing and torn
\* writes, imports and rotations of the other keys (key_manager.rs:140-209 and
\* 331-446, encryption/mod.rs:91-111).
CiphertextReadable == up /\ sealed # None => keys[sealed.key] = sealed.generation
=============================================================================
