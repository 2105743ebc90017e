-------------------------- MODULE KeyRotationProofs --------------------------
(***************************************************************************)
(* What KeyRotation promises for any number of keys and documents, any     *)
(* batch size, any number of generations, crashes and failing writes.      *)
(***************************************************************************)
EXTENDS KeyRotation, TLAPS

KeyTypes ==
  /\ minted \in Nat
  /\ keys \in [Keys -> 0..minted] /\ inactive \subseteq Keys
  /\ keys_json = Torn \/ keys_json \in [keys : [Keys -> 0..minted], inactive : SUBSET Keys]
  /\ exported = None \/ exported \in [key : Keys, generation : 1..minted, active : BOOLEAN]
  /\ sealed = None \/ sealed \in [key : Keys, generation : 1..minted]
  /\ rotated_to \in [Keys -> 0..minted]

CallTypes ==
  /\ rotation_state \in [Paths -> RotationStates]
  /\ up \in BOOLEAN /\ scheduler \in BOOLEAN
  /\ step \in {"none", "save_keys", "scan", "reencrypt", "checkpoint"}
  /\ r_key \in Keys \cup {NoKey}
  /\ r_kind \in {"rotate", "resume", "bare", "manage"} /\ r_checked \in BOOLEAN
  /\ r_next \in 1..NumDocs + 1

OtherTypes ==
  /\ statuses \in [Keys -> {"None", "InProgress", "Completed", "Failed", "Cancelled"}]
  /\ crashes \in 0..MaxCrashes /\ io_errors \in 0..MaxIoErrors

Reworking == {"scan", "reencrypt", "checkpoint"}

(* The context of a call belongs to the step it is in. *)
Working ==
  /\ ~up => step = "none"
  /\ step = "none" => r_kind = "rotate" /\ ~r_checked
  /\ step # "none" /\ r_kind # "manage" => r_key \in Keys
  /\ r_checked => r_key \in Keys
  /\ step \in Reworking => r_kind \in {"rotate", "resume"}
  /\ \A p \in Paths : rotation_state[p].state = "ReEncrypting" => rotation_state[p].key \in Keys

Typed == KeyTypes /\ CallTypes /\ OtherTypes /\ Working

(* Once a rotation has saved its keys, the key file is what is in memory. *)
Saved == step \in Reworking => keys_json = KeyStorage

(* What memory promises to a running server, the key file promises to the next start. *)
FileKept ==
  keys_json # Torn =>
    /\ \A k \in Keys : keys_json.keys[k] >= rotated_to[k]
    /\ sealed # None => keys_json.keys[sealed.key] = sealed.generation

-----------------------------------------------------------------------------
(* The parts of TypeOK. *)
LEMMA TypedIsTypeOK == Typed => TypeOK
BY DEF Typed, KeyTypes, CallTypes, OtherTypes, TypeOK

(* The initial states are typed. *)
LEMMA TypedInit == Init => Typed
<1> SUFFICES ASSUME Init PROVE Typed
  OBVIOUS
<1> USE ConstantsAssumption DEF Init
<1>1. KeyTypes BY DEF KeyTypes, KeyStorage, Missing
<1>2. CallTypes
  <2>1. Idle \in RotationStates BY DEF Idle, RotationStates
  <2>2. rotation_state \in [Paths -> RotationStates] BY <2>1
  <2>3. up \in BOOLEAN /\ scheduler \in BOOLEAN /\ r_checked \in BOOLEAN BY Zenon
  <2> QED BY <2>2, <2>3 DEF CallTypes
<1>3. OtherTypes BY DEF OtherTypes
<1>4. Working BY DEF Working, Reworking, Idle
<1> QED BY <1>1, <1>2, <1>3, <1>4 DEF Typed

(* A new generation makes room for itself. *)
LEMMA Minting ==
  ASSUME KeyTypes, minted' = minted + 1, inactive' \subseteq Keys,
         UNCHANGED <<keys_json, exported, rotated_to>>, sealed' \in {sealed, None},
         NEW k \in Keys, keys' = [keys EXCEPT ![k] = minted + 1]
  PROVE  KeyTypes'
<1>1. minted \in Nat /\ minted' \in Nat BY DEF KeyTypes
<1>2. 0..minted \subseteq 0..minted' /\ 1..minted \subseteq 1..minted' BY <1>1
<1>3. keys' \in [Keys -> 0..minted'] BY <1>1 DEF KeyTypes
<1>4. keys_json' = Torn \/ keys_json' \in [keys : [Keys -> 0..minted'], inactive : SUBSET Keys]
  BY <1>2 DEF KeyTypes
<1>5. exported' = None \/ exported' \in [key : Keys, generation : 1..minted', active : BOOLEAN]
  BY <1>2 DEF KeyTypes
<1>6. sealed' = None \/ sealed' \in [key : Keys, generation : 1..minted']
  BY <1>2 DEF KeyTypes
<1>7. rotated_to' \in [Keys -> 0..minted'] BY <1>2 DEF KeyTypes
<1> QED BY <1>1, <1>3, <1>4, <1>5, <1>6, <1>7 DEF KeyTypes

(* What any rotation does to the keys first. *)
LEMMA Renewing ==
  ASSUME Typed, NEW k \in Keys, NEW kind, NEW checked, rotate_key_with_backup(k, kind, checked)
  PROVE  KeyTypes'
BY Minting DEF rotate_key_with_backup, Typed, KeyTypes

(* Every step keeps the types of the keys and of the files. *)
LEMMA KeyTypesNext == Typed /\ [Next]_vars => KeyTypes'
<1> SUFFICES ASSUME Typed, [Next]_vars PROVE KeyTypes'
  OBVIOUS
<1>t. KeyTypes BY DEF Typed
<1>q. ASSUME UNCHANGED <<keyVars, history>> PROVE KeyTypes'
  BY <1>t, <1>q DEF KeyTypes, keyVars, history
<1>1. ASSUME NEW k \in Keys, encrypt_document(k) PROVE KeyTypes'
  <2>1. keys[k] \in 1..minted BY <1>1, <1>t DEF encrypt_document, get_key, KeyTypes, Missing
  <2>2. sealed' \in [key : Keys, generation : 1..minted] BY <1>1, <2>1 DEF encrypt_document
  <2> QED BY <1>1, <1>t, <2>2 DEF encrypt_document, KeyTypes, keyVars
<1>2. ASSUME NEW k \in Keys, create_key(k) PROVE KeyTypes'
  BY <1>2, <1>t, Minting DEF create_key, Managed, history, KeyTypes
<1>3. ASSUME NEW k \in Keys, deactivate_key(k) PROVE KeyTypes'
  BY <1>3, <1>t DEF deactivate_key, Managed, history, KeyTypes
<1>4. ASSUME NEW k \in Keys, export_key(k) PROVE KeyTypes'
  <2>1. keys[k] \in 1..minted BY <1>4, <1>t DEF export_key, KeyTypes, Missing
  <2>2. exported' \in [key : Keys, generation : 1..minted, active : BOOLEAN]
    BY <1>4, <2>1 DEF export_key
  <2> QED BY <1>4, <1>t, <2>2 DEF export_key, KeyTypes, history
<1>5. CASE import_key
  <2>1. exported.key \in Keys /\ exported.generation \in 0..minted
    BY <1>5, <1>t DEF import_key, importable, KeyTypes
  <2>2. keys' \in [Keys -> 0..minted] /\ inactive' \subseteq Keys
    BY <1>5, <1>t, <2>1 DEF import_key, KeyTypes
  <2>3. UNCHANGED <<keys_json, exported, minted, history>>
    BY <1>5 DEF import_key, Managed
  <2> QED BY <1>t, <2>2, <2>3 DEF KeyTypes, history
<1>6. ASSUME NEW k \in Keys, RotateWithoutScheduler(k) PROVE KeyTypes'
  BY <1>6, Renewing DEF RotateWithoutScheduler
<1>7. ASSUME NEW k \in Keys, NEW b \in BOOLEAN, rotate_key(k, b) PROVE KeyTypes'
  BY <1>7, Renewing DEF rotate_key
<1>8. CASE resume_rotation
  <2> DEFINE k == rotation_state[SchedulerPath].key
  <2>1. rotate_key_with_backup(k, "resume", FALSE) BY <1>8 DEF resume_rotation
  <2>2. k \in Keys BY <1>8 DEF resume_rotation, Typed, Working, Paths
  <2> QED BY <2>1, <2>2, Renewing
<1>9. CASE save_keys
  <2>1. keys_json' \in [keys : [Keys -> 0..minted], inactive : SUBSET Keys]
    BY <1>9, <1>t DEF save_keys, KeyStorage, KeyTypes
  <2> QED BY <1>9, <1>t, <2>1 DEF save_keys, KeyTypes, history
<1>10. CASE CompleteRotation
  <2>1. r_key \in Keys BY <1>10 DEF CompleteRotation, Typed, Working, Reworking
  <2>2. rotated_to' \in [Keys -> 0..minted] BY <1>10, <1>t, <2>1 DEF CompleteRotation, KeyTypes
  <2> QED BY <1>10, <1>t, <2>2 DEF CompleteRotation, KeyTypes, keyVars
<1>11. CASE IoError BY <1>11, <1>t DEF IoError, KeyTypes, history
<1>12. CASE Crash BY <1>12, <1>t DEF Crash, KeyTypes, history
<1>13. CASE Start
  <2>1. keys_json # Torn /\ keys' = keys_json.keys /\ inactive' = keys_json.inactive
    BY <1>13 DEF Start, load_keys
  <2> QED BY <1>13, <1>t, <2>1 DEF Start, KeyTypes, history
<1>14. CASE enable_key_rotation \/ disable_key_rotation
  BY <1>14, <1>q DEF enable_key_rotation, disable_key_rotation
<1>15. ASSUME NEW k \in Keys,
              RotateMissing(k) \/ cancel_rotation(k) \/ cleanup_old_statuses(k) \/ RotateRefused(k)
       PROVE  KeyTypes'
  BY <1>15, <1>q DEF RotateMissing, cancel_rotation, cleanup_old_statuses, RotateRefused
<1>16. CASE StartReencryption \/ reencrypt_batch \/ SaveCheckpoint \/ clear_rotation_state
  BY <1>16, <1>q DEF StartReencryption, reencrypt_batch, SaveCheckpoint, clear_rotation_state
<1>17. CASE UNCHANGED vars BY <1>17, <1>q DEF vars
<1> QED BY <1>1, <1>2, <1>3, <1>4, <1>5, <1>6, <1>7, <1>8, <1>9, <1>10, <1>11, <1>12, <1>13,
           <1>14, <1>15, <1>16, <1>17 DEF Next

-----------------------------------------------------------------------------
(* The state file is replaced by a well-formed one. *)
LEMMA StateSaved ==
  ASSUME Typed, NEW s \in RotationStates, save_rotation_state(s),
         s.state = "ReEncrypting" => s.key \in Keys
  PROVE  /\ rotation_state' \in [Paths -> RotationStates]
         /\ \A p \in Paths :
              rotation_state'[p].state = "ReEncrypting" => rotation_state'[p].key \in Keys
BY DEF save_rotation_state, Typed, CallTypes, Working

(* The calls that begin with save_keys. *)
LEMMA Begun ==
  ASSUME Typed, up, step' = "save_keys", UNCHANGED <<rotation_state, up, scheduler>>,
         r_kind' \in {"rotate", "resume", "bare", "manage"}, r_checked' \in BOOLEAN,
         r_next' \in 1..NumDocs + 1,
         \/ r_kind' = "manage" /\ ~r_checked' /\ r_key' = r_key
         \/ r_key' \in Keys
  PROVE  CallTypes' /\ Working'
BY DEF Typed, CallTypes, Working, Reworking

(* Every step keeps the types of the calls. *)
LEMMA CallTypesNext == Typed /\ [Next]_vars => CallTypes' /\ Working'
<1> SUFFICES ASSUME Typed, [Next]_vars PROVE CallTypes' /\ Working'
  OBVIOUS
<1>t. CallTypes /\ Working BY DEF Typed
<1>n. NumDocs \in Nat \ {0} /\ BatchSize \in Nat \ {0} BY ConstantsAssumption
<1>q. ASSUME UNCHANGED <<rotation_state, up, step, ctxVars>>, scheduler' \in BOOLEAN
      PROVE  CallTypes' /\ Working'
  BY <1>t, <1>q DEF CallTypes, Working, ctxVars
<1>f. ASSUME rotation_state' \in [Paths -> RotationStates],
             \A p \in Paths : rotation_state'[p].state = "ReEncrypting" => rotation_state'[p].key \in Keys,
             up' \in BOOLEAN, scheduler' \in BOOLEAN, step' = "none", NoContext
      PROVE  CallTypes' /\ Working'
  <2>1. r_checked' \in BOOLEAN /\ ~r_checked' BY <1>f, Zenon DEF NoContext
  <2>2. CallTypes' BY <1>f, <2>1, <1>n DEF CallTypes, NoContext
  <2>3. Working' BY <1>f, <2>1 DEF Working, NoContext, Reworking
  <2> QED BY <2>2, <2>3
<1>e. ASSUME UNCHANGED rotation_state, up' \in BOOLEAN, scheduler' \in BOOLEAN, step' = "none", NoContext
      PROVE  CallTypes' /\ Working'
  BY <1>t, <1>e, <1>f DEF CallTypes, Working
<1>1. ASSUME NEW k \in Keys, encrypt_document(k) \/ export_key(k) \/ RotateMissing(k)
                             \/ cancel_rotation(k) \/ cleanup_old_statuses(k) \/ RotateRefused(k)
      PROVE  CallTypes' /\ Working'
  BY <1>1, <1>q, <1>t DEF encrypt_document, export_key, RotateMissing, cancel_rotation,
     cleanup_old_statuses, RotateRefused, CallTypes
<1>2. ASSUME AtRest, Managed PROVE CallTypes' /\ Working'
  BY <1>2, <1>t, Begun DEF AtRest, Managed, CallTypes
<1>3. ASSUME NEW k \in Keys, create_key(k) \/ deactivate_key(k) PROVE CallTypes' /\ Working'
  BY <1>3, <1>2 DEF create_key, deactivate_key
<1>4. CASE import_key BY <1>4, <1>2 DEF import_key
<1>5. ASSUME AtRest, NEW k \in Keys, NEW kind \in {"rotate", "resume", "bare"}, NEW b \in BOOLEAN,
             rotate_key_with_backup(k, kind, b), r_next' \in 1..NumDocs + 1
      PROVE  CallTypes' /\ Working'
  BY <1>5, Begun DEF AtRest, rotate_key_with_backup
<1>6. ASSUME NEW k \in Keys, RotateWithoutScheduler(k) PROVE CallTypes' /\ Working'
  BY <1>6, <1>5, <1>t DEF RotateWithoutScheduler, CallTypes
<1>7. ASSUME NEW k \in Keys, NEW b \in BOOLEAN, rotate_key(k, b) PROVE CallTypes' /\ Working'
  BY <1>7, <1>5, <1>n DEF rotate_key
<1>8. CASE resume_rotation
  <2> DEFINE s == rotation_state[SchedulerPath]
  <2>1. s \in RotationStates /\ s.key \in Keys
    BY <1>8, <1>t DEF resume_rotation, CallTypes, Working, Paths
  <2>2. r_next' \in 1..NumDocs + 1
    BY <1>8, <2>1, <1>n DEF resume_rotation, FirstOf, ResumeAt, RotationStates
  <2>3. AtRest /\ rotate_key_with_backup(s.key, "resume", FALSE) BY <1>8 DEF resume_rotation
  <2> QED BY <2>1, <2>2, <2>3, <1>5
<1>9. CASE save_keys
  <2>1. CASE step' = "none"
    BY <1>9, <2>1, <1>e, <1>t DEF save_keys, CallTypes
  <2>2. CASE step' # "none"
    <3>1. UNCHANGED <<ctxVars, rotation_state, up, scheduler>> /\ step # "none"
      BY <1>9, <2>2 DEF save_keys
    <3>2. step' \in {"scan", "reencrypt"} /\ r_kind \in {"rotate", "resume"}
      BY <1>9, <2>2, <1>t DEF save_keys, CallTypes
    <3> QED BY <3>1, <3>2, <1>t DEF CallTypes, Working, ctxVars, Reworking
  <2> QED BY <2>1, <2>2
<1>10. CASE StartReencryption
  <2>1. r_key \in Keys BY <1>10, <1>t DEF StartReencryption, Working, Reworking
  <2>2. ReEncrypting(r_key, 0) \in RotationStates BY <2>1, <1>n DEF ReEncrypting, RotationStates
  <2>3. r_next' \in 1..NumDocs + 1 BY <1>10, <1>n DEF StartReencryption, FirstOf
  <2> QED BY <1>10, <1>t, <2>1, <2>2, <2>3, StateSaved
          DEF StartReencryption, CallTypes, Working, Reworking, ReEncrypting
<1>11. CASE reencrypt_batch
  <2>1. r_next' \in 1..NumDocs + 1 BY <1>11, <1>t, <1>n DEF reencrypt_batch, CallTypes
  <2> QED BY <1>11, <1>t, <2>1 DEF reencrypt_batch, CallTypes, Working, Reworking
<1>12. CASE SaveCheckpoint
  <2>1. r_key \in Keys /\ r_next - 1 \in 0..NumDocs
    BY <1>12, <1>t, <1>n DEF SaveCheckpoint, Working, Reworking, CallTypes
  <2>2. ReEncrypting(r_key, r_next - 1) \in RotationStates
    BY <2>1 DEF ReEncrypting, RotationStates
  <2> QED BY <1>12, <1>t, <2>1, <2>2, StateSaved
          DEF SaveCheckpoint, CallTypes, Working, Reworking, ReEncrypting, ctxVars
<1>13. CASE CompleteRotation
  <2>1. r_key \in Keys BY <1>13, <1>t DEF CompleteRotation, Working, Reworking
  <2>2. Completed(r_key) \in RotationStates BY <2>1, <1>n DEF Completed, RotationStates
  <2>3. save_rotation_state(Completed(r_key)) BY <1>13 DEF CompleteRotation
  <2>4. /\ rotation_state' \in [Paths -> RotationStates]
        /\ \A p \in Paths : rotation_state'[p].state = "ReEncrypting" => rotation_state'[p].key \in Keys
    BY <2>1, <2>2, <2>3, StateSaved DEF Completed
  <2> QED BY <1>13, <1>t, <2>4, <1>f DEF CompleteRotation, CallTypes
<1>14. CASE IoError BY <1>14, <1>e, <1>t DEF IoError, CallTypes
<1>15. CASE Crash BY <1>15, <1>e DEF Crash
<1>16. CASE Start
  <2>1. UNCHANGED <<rotation_state, scheduler, step, ctxVars>> /\ up' = TRUE /\ ~up BY <1>16 DEF Start
  <2> QED BY <2>1, <1>t DEF CallTypes, Working, ctxVars, Reworking
<1>17. CASE clear_rotation_state
  <2>1. Idle \in RotationStates /\ Idle.state # "ReEncrypting" BY <1>n DEF Idle, RotationStates
  <2>2. save_rotation_state(Idle) BY <1>17 DEF clear_rotation_state, save_rotation_state
  <2> QED BY <1>17, <1>t, <2>1, <2>2, StateSaved
          DEF clear_rotation_state, CallTypes, Working, ctxVars
<1>18. CASE enable_key_rotation \/ disable_key_rotation
  BY <1>18, <1>q DEF enable_key_rotation, disable_key_rotation
<1>19. CASE UNCHANGED vars BY <1>19, <1>q, <1>t DEF vars, CallTypes
<1> QED BY <1>1, <1>3, <1>4, <1>6, <1>7, <1>8, <1>9, <1>10, <1>11, <1>12, <1>13, <1>14, <1>15,
           <1>16, <1>17, <1>18, <1>19 DEF Next

(* Every step keeps the types of the statuses and of the counts of faults. *)
LEMMA OtherTypesNext == Typed /\ [Next]_vars => OtherTypes'
<1> SUFFICES ASSUME Typed, [Next]_vars PROVE OtherTypes'
  OBVIOUS
<1>t. OtherTypes BY DEF Typed
<1>c. MaxCrashes \in Nat /\ MaxIoErrors \in Nat BY ConstantsAssumption
<1>q. ASSUME UNCHANGED faultVars, UNCHANGED statuses PROVE OtherTypes'
  BY <1>q, <1>t DEF OtherTypes, faultVars
<1>s. ASSUME UNCHANGED faultVars, NEW k \in Keys,
             NEW s \in {"None", "InProgress", "Completed", "Failed", "Cancelled"},
             statuses' = [statuses EXCEPT ![k] = s]
      PROVE  OtherTypes'
  BY <1>s, <1>t DEF OtherTypes, faultVars
<1>1. ASSUME NEW k \in Keys,
             encrypt_document(k) \/ create_key(k) \/ deactivate_key(k) \/ export_key(k)
             \/ RotateWithoutScheduler(k)
      PROVE  OtherTypes'
  BY <1>1, <1>q DEF encrypt_document, create_key, deactivate_key, export_key, Managed,
     RotateWithoutScheduler, rotate_key_with_backup
<1>2. ASSUME NEW k \in Keys, RotateMissing(k) \/ cancel_rotation(k) \/ cleanup_old_statuses(k)
      PROVE  OtherTypes'
  BY <1>2, <1>s DEF RotateMissing, cancel_rotation, cleanup_old_statuses
<1>3. ASSUME NEW k \in Keys, NEW b \in BOOLEAN, rotate_key(k, b) PROVE OtherTypes'
  BY <1>3, <1>s DEF rotate_key, rotate_key_with_backup
<1>4. ASSUME NEW k \in Keys, RotateRefused(k) PROVE OtherTypes'
  BY <1>4, <1>s, <1>q DEF RotateRefused, Failed
<1>5. CASE enable_key_rotation \/ disable_key_rotation
  BY <1>5, <1>t DEF enable_key_rotation, disable_key_rotation, OtherTypes, faultVars
<1>6. CASE import_key \/ resume_rotation \/ save_keys \/ StartReencryption \/ reencrypt_batch
           \/ SaveCheckpoint \/ Start \/ clear_rotation_state
  BY <1>6, <1>q DEF import_key, Managed, resume_rotation, rotate_key_with_backup, save_keys,
     StartReencryption, reencrypt_batch, SaveCheckpoint, Start, clear_rotation_state
<1>7. CASE CompleteRotation
  <2>1. r_key \in Keys BY <1>7 DEF CompleteRotation, Typed, Working, Reworking
  <2> QED BY <1>7, <2>1, <1>s, <1>q DEF CompleteRotation
<1>8. CASE IoError
  <2>1. io_errors' \in 0..MaxIoErrors BY <1>8, <1>t, <1>c DEF IoError, OtherTypes
  <2>2. \/ statuses' = statuses
        \/ r_key \in Keys /\ statuses' = [statuses EXCEPT ![r_key] = "Failed"]
    BY <1>8 DEF IoError, Failed, Typed, Working
  <2> QED BY <1>8, <1>t, <2>1, <2>2 DEF IoError, OtherTypes
<1>9. CASE Crash
  <2>1. crashes' \in 0..MaxCrashes BY <1>9, <1>t, <1>c DEF Crash, OtherTypes
  <2> QED BY <1>9, <1>t, <2>1 DEF Crash, OtherTypes
<1>10. CASE UNCHANGED vars BY <1>10, <1>q DEF vars
<1> QED BY <1>1, <1>2, <1>3, <1>4, <1>5, <1>6, <1>7, <1>8, <1>9, <1>10 DEF Next

(* The types are inductive. *)
LEMMA TypedNext == Typed /\ [Next]_vars => Typed'
BY KeyTypesNext, CallTypesNext, OtherTypesNext DEF Typed

(* Every variable of key rotation keeps its type (key_manager.rs, key_rotation.rs). *)
THEOREM TypeCorrect == Spec => []TypeOK
<1>1. Spec => []Typed BY TypedInit, TypedNext, PTL DEF Spec
<1> QED BY <1>1, TypedIsTypeOK, PTL

-----------------------------------------------------------------------------
Safe == Saved /\ FileKept /\ NoRetiredKey /\ CiphertextReadable

(* Initially nothing is retired and nothing is encrypted. *)
LEMMA SafeInit == Init => Safe
BY DEF Init, Safe, Saved, FileKept, NoRetiredKey, CiphertextReadable, Reworking, Missing, KeyStorage

(* A generation that is new to a key that is renewed or absent leaves the promises of *)
(* the key file as they are, and those of memory hold for it.                         *)
LEMMA Replacing ==
  ASSUME Typed, Safe, up, NEW k \in Keys, NEW g \in Nat, keys' = [keys EXCEPT ![k] = g],
         g >= rotated_to[k], UNCHANGED <<keys_json, rotated_to>>, sealed' \in {sealed, None},
         sealed' # None => sealed'.key # k, step' \notin Reworking
  PROVE  Safe'
<1>1. Saved' /\ FileKept' BY DEF Safe, Saved, FileKept
<1>2. NoRetiredKey' BY DEF Safe, NoRetiredKey, Typed, KeyTypes
<1>3. CiphertextReadable' BY DEF Safe, CiphertextReadable, Typed, KeyTypes
<1> QED BY <1>1, <1>2, <1>3 DEF Safe

(* A rotation begins with a generation that exceeds every one before. *)
LEMMA RotationBegins ==
  ASSUME Typed, Safe, up, NEW k \in Keys, NEW kind, NEW checked,
         rotate_key_with_backup(k, kind, checked)
  PROVE  Safe'
<1>1. minted + 1 \in Nat /\ minted + 1 >= rotated_to[k] BY DEF Typed, KeyTypes
<1>2. /\ keys' = [keys EXCEPT ![k] = minted + 1]
      /\ sealed' \in {sealed, None} /\ (sealed' # None => sealed'.key # k)
      /\ UNCHANGED <<keys_json, rotated_to>> /\ step' \notin Reworking
  BY DEF rotate_key_with_backup, Reworking
<1> QED BY <1>1, <1>2, Replacing

(* Every step keeps the promises of memory and of the key file. *)
LEMMA SafeNext == Typed /\ Safe /\ [Next]_vars => Safe'
<1> SUFFICES ASSUME Typed, Safe, [Next]_vars PROVE Safe'
  OBVIOUS
<1>w. Working /\ KeyTypes BY DEF Typed
<1>q. ASSUME UNCHANGED <<keys, inactive, keys_json, rotated_to, sealed>>, up' = up \/ ~up',
             step' \in Reworking => step \in Reworking
      PROVE  Safe'
  BY <1>q DEF Safe, Saved, FileKept, NoRetiredKey, CiphertextReadable, KeyStorage
<1>1. ASSUME NEW k \in Keys, encrypt_document(k) PROVE Safe'
  BY <1>1 DEF encrypt_document, keyVars, AtRest, Safe, Saved, FileKept, NoRetiredKey,
     CiphertextReadable, Reworking
<1>2. ASSUME NEW k \in Keys, create_key(k) PROVE Safe'
  <2>1. minted + 1 \in Nat /\ minted + 1 >= rotated_to[k] BY <1>w DEF KeyTypes
  <2>2. sealed # None => sealed.key # k
    BY <1>2, <1>w DEF create_key, AtRest, Safe, CiphertextReadable, KeyTypes, Missing
  <2>3. /\ up /\ keys' = [keys EXCEPT ![k] = minted + 1] /\ sealed' = sealed
        /\ UNCHANGED <<keys_json, rotated_to>> /\ step' \notin Reworking
    BY <1>2 DEF create_key, AtRest, Managed, history, Reworking
  <2> QED BY <2>1, <2>2, <2>3, Replacing
<1>3. ASSUME NEW k \in Keys, deactivate_key(k) PROVE Safe'
  BY <1>3 DEF deactivate_key, Managed, history, Safe, Saved, FileKept, NoRetiredKey,
     CiphertextReadable, Reworking
<1>4. CASE import_key
  <2> DEFINE k == exported.key
             g == exported.generation
  <2>1. up /\ k \in Keys /\ g \in Nat /\ keys[k] = Missing
    BY <1>4, <1>w DEF import_key, importable, AtRest, KeyTypes
  <2>2. g >= rotated_to[k]
    BY <2>1, <1>w DEF Safe, NoRetiredKey, KeyTypes, Missing
  <2>3. sealed # None => sealed.key # k
    BY <2>1, <1>w DEF Safe, CiphertextReadable, KeyTypes, Missing
  <2>4. /\ keys' = [keys EXCEPT ![k] = g] /\ sealed' = sealed
        /\ UNCHANGED <<keys_json, rotated_to>> /\ step' \notin Reworking
    BY <1>4 DEF import_key, Managed, history, Reworking
  <2> HIDE DEF k, g
  <2> QED BY <2>1, <2>2, <2>3, <2>4, Replacing
<1>5. ASSUME NEW k \in Keys, RotateWithoutScheduler(k) PROVE Safe'
  BY <1>5, RotationBegins DEF RotateWithoutScheduler, AtRest
<1>6. ASSUME NEW k \in Keys, NEW b \in BOOLEAN, rotate_key(k, b) PROVE Safe'
  BY <1>6, RotationBegins DEF rotate_key, AtRest
<1>7. CASE resume_rotation
  <2>1. rotation_state[SchedulerPath].key \in Keys BY <1>7, <1>w DEF resume_rotation, Working, Paths
  <2> QED BY <1>7, <2>1, RotationBegins DEF resume_rotation, AtRest
<1>8. CASE save_keys
  <2>1. /\ up /\ keys_json' = KeyStorage /\ up' = up
        /\ UNCHANGED <<keys, inactive, rotated_to, sealed>>
    BY <1>8, <1>w DEF save_keys, Working, history
  <2>2. Saved' BY <2>1 DEF Saved, KeyStorage
  <2>3. FileKept' BY <2>1 DEF FileKept, KeyStorage, Safe, NoRetiredKey, CiphertextReadable
  <2>4. NoRetiredKey' /\ CiphertextReadable' BY <2>1 DEF Safe, NoRetiredKey, CiphertextReadable
  <2> QED BY <2>2, <2>3, <2>4 DEF Safe
<1>9. CASE StartReencryption \/ reencrypt_batch \/ SaveCheckpoint
  <2>1. /\ UNCHANGED <<keys, inactive, keys_json, rotated_to, sealed, up>> /\ step \in Reworking
    BY <1>9 DEF StartReencryption, reencrypt_batch, SaveCheckpoint, keyVars, history, Reworking
  <2> QED BY <2>1, <1>q
<1>10. CASE CompleteRotation
  <2>1. step \in Reworking /\ up /\ r_key \in Keys /\ keys_json = KeyStorage
    BY <1>10, <1>w DEF CompleteRotation, Reworking, Working, Safe, Saved
  <2>2. /\ rotated_to' = [rotated_to EXCEPT ![r_key] = keys[r_key]] /\ step' = "none"
        /\ UNCHANGED <<keys, inactive, keys_json, sealed, up>>
    BY <1>10 DEF CompleteRotation, keyVars
  <2>3. \A k \in Keys : keys[k] >= rotated_to'[k]
    BY <2>1, <2>2, <1>w DEF Safe, NoRetiredKey, KeyTypes
  <2>4. FileKept' BY <2>1, <2>2, <2>3 DEF FileKept, KeyStorage, Safe
  <2>5. Saved' /\ NoRetiredKey' /\ CiphertextReadable'
    BY <2>2, <2>3 DEF Saved, Reworking, NoRetiredKey, CiphertextReadable, Safe
  <2> QED BY <2>4, <2>5 DEF Safe
<1>11. CASE IoError \/ Crash
  <2>1. /\ UNCHANGED <<keys, inactive, rotated_to, sealed>> /\ keys_json' \in {keys_json, Torn}
        /\ (up' = up \/ ~up') /\ step' = "none"
    BY <1>11 DEF IoError, Crash, history
  <2>2. Saved' /\ FileKept' BY <2>1 DEF Safe, Saved, FileKept, Reworking
  <2>3. NoRetiredKey' /\ CiphertextReadable' BY <2>1 DEF Safe, NoRetiredKey, CiphertextReadable
  <2> QED BY <2>2, <2>3 DEF Safe
<1>12. CASE Start
  <2>1. /\ keys_json # Torn /\ keys' = keys_json.keys /\ step' = "none"
        /\ UNCHANGED <<keys_json, rotated_to, sealed>>
    BY <1>12, <1>w DEF Start, load_keys, Working, history
  <2>2. Saved' /\ FileKept' BY <2>1 DEF Safe, Saved, FileKept, Reworking
  <2>3. NoRetiredKey' /\ CiphertextReadable'
    BY <2>1 DEF Safe, FileKept, NoRetiredKey, CiphertextReadable
  <2> QED BY <2>2, <2>3 DEF Safe
<1>13. ASSUME NEW k \in Keys,
              export_key(k) \/ RotateMissing(k) \/ cancel_rotation(k) \/ cleanup_old_statuses(k)
              \/ RotateRefused(k)
       PROVE  Safe'
  BY <1>13, <1>q DEF export_key, RotateMissing, cancel_rotation, cleanup_old_statuses,
     RotateRefused, keyVars, history
<1>14. CASE enable_key_rotation \/ disable_key_rotation \/ clear_rotation_state
  BY <1>14, <1>q DEF enable_key_rotation, disable_key_rotation, clear_rotation_state, keyVars,
     history
<1>15. CASE UNCHANGED vars BY <1>15, <1>q DEF vars, keyVars, history
<1> QED BY <1>1, <1>2, <1>3, <1>4, <1>5, <1>6, <1>7, <1>8, <1>9, <1>10, <1>11, <1>12, <1>13,
           <1>14, <1>15 DEF Next

(* The two promises hold of every reachable state. *)
LEMMA AlwaysSafe == Spec => []Safe
<1>1. Init => Typed /\ Safe BY TypedInit, SafeInit
<1>2. Typed /\ Safe /\ [Next]_vars => (Typed /\ Safe)' BY TypedNext, SafeNext
<1>3. Spec => [](Typed /\ Safe) BY <1>1, <1>2, PTL DEF Spec
<1> QED BY <1>3, PTL

(* Once a rotation of a key is recorded as completed, the server never again runs *)
(* with an older generation of the key (key_rotation.rs:198-320).                 *)
THEOREM RetiredKeysStayRetired == Spec => []NoRetiredKey
<1>1. Safe => NoRetiredKey BY DEF Safe
<1> QED BY <1>1, AlwaysSafe, PTL

(* A ciphertext of a key that was in the key file can be decrypted whenever the *)
(* server runs, until the key is rotated (key_manager.rs:140-209).              *)
THEOREM CiphertextsStayReadable == Spec => []CiphertextReadable
<1>1. Safe => CiphertextReadable BY DEF Safe
<1> QED BY <1>1, AlwaysSafe, PTL
=============================================================================
