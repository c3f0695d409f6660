----------------------------- MODULE BackupProofs -----------------------------
(***************************************************************************)
(* Exports can be restored by whoever can open the key store.  An export   *)
(* depends on keystore.json alone, and no complete keystore.json that is   *)
(* written drops a key; so an imported profile is as good as the one it    *)
(* was exported from, and the invariants of the wallet survive it.         *)
(***************************************************************************)
EXTENDS Backup, LedgerProofs

Restorable(p) ==
    /\ IsProfile(p) /\ Sound(p, draws)
    /\ References(p) \subseteq DOMAIN keystore_file.value
    /\ Matches(p, keystore_file.value)

BackupInv ==
    /\ CustodyInv(Sessions)
    /\ RecordInv
    /\ \A p \in exports : Restorable(p)

LEMMA DrawsGrow ==
    ASSUME draws \in Nat, NEW s \in Sessions, Step(s)
    PROVE  draws' \in Nat /\ draws <= draws'
  <1>1. CASE \/ Open(s) \/ LoadOrCreateProfile(s) \/ FlushKeyStore(s) \/ Register(s)
             \/ Close(s) \/ FlushTruncate(s) \/ FlushWrite(s) \/ FlushFail(s)
             \/ SaveTruncate(s) \/ SaveWrite(s) \/ SaveFail(s)
    BY <1>1 DEF Open, LoadOrCreateProfile, FlushKeyStore, Register, Close,
                FlushTruncate, FlushWrite, FlushFail, SaveTruncate, SaveWrite,
                SaveFail
  <1>2. CASE \/ CreateIdentity(s) \/ ImportIdentity(s) \/ RotateActiveIdentity(s)
             \/ CreatePaymentAccount(s) \/ ImportPaymentAccount(s)
    <2>1. draws' = draws + 1
      <3>1. ASSUME NEW kind, NEW from, NEW algorithm, NEW secret,
                   BeginKeyCall(s, kind, from, algorithm, secret)
            PROVE  draws' = draws + 1
        BY <3>1 DEF BeginKeyCall
      <3> QED
        BY <1>2, <3>1 DEF CreateIdentity, ImportIdentity, RotateActiveIdentity,
                          CreatePaymentAccount, ImportPaymentAccount
    <2> QED BY <2>1
  <1>3. CASE \/ RegisterWatchPaymentAccount(s) \/ SetActiveIdentity(s)
             \/ SetActivePaymentAccount(s) \/ SaveProfile(s)
    BY <1>3 DEF RegisterWatchPaymentAccount, SetActiveIdentity,
                SetActivePaymentAccount, SaveProfile
  <1> QED
    BY <1>1, <1>2, <1>3 DEF Step

\* A wallet step keeps what exports depend on.
LEMMA RestorableStays ==
    ASSUME CustodyInv(Sessions), RecordInv, [Next]_vars, NEW p, Restorable(p)
    PROVE  Restorable(p)'
  <1>1. TypeOK /\ draws \in Nat
    BY DEF CustodyInv, TypeInv, TypeOK
  <1>2. CASE UNCHANGED vars
    BY <1>2 DEF Restorable, vars
  <1>3. ASSUME NEW s \in Sessions, Step(s)
        PROVE  Restorable(p)'
    <2>1. Ledger!Contains(keystore_file'.value, keystore_file.value)
      <3>1. CASE FlushWrite(s)
        BY <3>1, VaultGrows DEF OnlyFlush
      <3>2. CASE ~FlushWrite(s)
        BY <1>1, <1>3, <3>2, WhoWrites DEF Ledger!Contains
      <3> QED BY <3>1, <3>2
    <2>2. References(p) \subseteq DOMAIN keystore_file'.value
      BY <2>1 DEF Restorable, Ledger!Contains
    <2>3. /\ \A i \in DOMAIN p.identities :
                p.identities[i].key_handle \in DOMAIN keystore_file.value
          /\ \A a \in DOMAIN p.payment_accounts :
                \/ p.payment_accounts[a].key_handle = None
                \/ p.payment_accounts[a].key_handle \in DOMAIN keystore_file.value
      BY DEF Restorable, References, IsKeyControlled
    <2>4. IsKeyMap(keystore_file'.value)
      BY StepType DEF RecordInv, TypeInv, TypeOK
    <2>5. None \notin DOMAIN keystore_file'.value
      BY <2>4, NoneIsNotDrawn DEF IsKeyMap, IsMap
    <2>6. Matches(p, keystore_file'.value)
      BY <2>1, <2>3, <2>5 DEF Restorable, Matches, Ledger!Contains
    <2>7. draws' \in Nat /\ draws <= draws'
      BY <1>1, <1>3, DrawsGrow
    <2>8. Sound(p, draws')
      BY <1>1, <2>7, SoundGrows DEF Restorable
    <2> QED BY <2>2, <2>6, <2>8 DEF Restorable
  <1> QED
    BY <1>2, <1>3 DEF Next

LEMMA ExportStep ==
    ASSUME BackupInv, NEW s \in Sessions, ExportJson(s)
    PROVE  BackupInv'
  <1>1. vars' = vars /\ exports' = exports \cup {profile[s]} /\ stage[s] = "idle"
    BY DEF ExportJson, vars
  <1>2. CustodyInv(Sessions)' /\ RecordInv'
    <2>1. TypeInv'
      BY <1>1, StepType DEF BackupInv, RecordInv
    <2>2. KeyMaps' = KeyMaps /\ Profiles' = Profiles /\ draws' = draws
      BY <1>1 DEF vars, KeyMaps, Profiles
    <2>3. \A t \in Sessions : Making(t)' => SameCall(t)
      BY <1>1 DEF vars, Making, SameCall
    <2>4. RecordInv'
      BY <2>1, <2>2, <2>3, CopiesKeepRecords DEF BackupInv, Copies
    <2>5. KeyCustody' /\ \A t \in Sessions : SessionCustody(t, Sessions)'
      BY <1>1 DEF BackupInv, CustodyInv, KeyCustody, SessionCustody, vars
    <2> QED BY <2>1, <2>4, <2>5 DEF CustodyInv
  <1>3. Restorable(profile[s])
    <2>1. /\ IsProfile(profile[s]) /\ SessionCustody(s, Sessions)
          /\ Sound(profile[s], draws)
          /\ Matches(profile[s], keystore_file.value)
      BY DEF BackupInv, CustodyInv, RecordInv, TypeInv, TypeOK, Profiles, KeyMaps
    <2> QED BY <1>1, <2>1 DEF Restorable, SessionCustody
  <1>4. \A p \in exports' : Restorable(p)
    BY <1>1, <1>3 DEF BackupInv
  <1>5. ASSUME NEW p, Restorable(p) PROVE Restorable(p)'
    BY <1>1, <1>5 DEF Restorable, vars
  <1> QED
    BY <1>2, <1>4, <1>5 DEF BackupInv

LEMMA ImportStep ==
    ASSUME BackupInv, NEW s \in Sessions, ImportJson(s)
    PROVE  BackupInv'
  <1>1. PICK p \in exports : profile' = [profile EXCEPT ![s] = p]
    BY DEF ImportJson
  <1>2. /\ stage[s] \in {"opened", "idle"}
        /\ stage' = [stage EXCEPT ![s] = "idle"]
        /\ stage'[s] = "idle" /\ profile'[s] = p
        /\ \A t \in Sessions : t # s => stage'[t] = stage[t] /\ profile'[t] = profile[t]
        /\ UNCHANGED <<keys, call, keystore_file, metadata_file, draws,
                       acknowledged, exports>>
    BY <1>1 DEF ImportJson, files, BackupInv, RecordInv, TypeInv, TypeOK
  <1>3. /\ Restorable(p) /\ TypeInv /\ TypeOK
        /\ \A t \in Sessions : SessionCustody(t, Sessions)
    BY DEF BackupInv, CustodyInv, TypeInv
  <1>4. call[s] = Other
    BY <1>2, <1>3 DEF TypeInv, PendingCall
  <1>5. TypeInv'
    <2>1. TypeOK'
      BY <1>1, <1>2, <1>3 DEF Restorable, TypeOK, Stages
    <2>2. ASSUME NEW t \in Sessions PROVE PendingCall(t)'
      BY <1>2, <1>3, <1>4 DEF TypeInv, PendingCall
    <2> QED BY <2>1, <2>2 DEF TypeInv
  <1>6. ASSUME NEW t \in Sessions PROVE SessionCustody(t, Sessions)'
    BY <1>2, <1>3 DEF SessionCustody, Restorable
  <1>7. CustodyInv(Sessions)'
    BY <1>2, <1>5, <1>6 DEF BackupInv, CustodyInv, KeyCustody
  <1>8. KeyMaps' = KeyMaps /\ Profiles' \subseteq Profiles \cup {p}
    BY <1>1, <1>2, <1>3 DEF KeyMaps, Profiles, TypeOK
  <1>9. ASSUME NEW k \in KeyMaps PROVE Matches(p, k)
    <2>1. Agree(keystore_file.value, k)
      BY <1>9 DEF BackupInv, RecordInv, KeyMaps
    <2>2. /\ \A i \in DOMAIN p.identities :
                p.identities[i].key_handle \in DOMAIN keystore_file.value
          /\ \A a \in DOMAIN p.payment_accounts :
                \/ p.payment_accounts[a].key_handle = None
                \/ p.payment_accounts[a].key_handle \in DOMAIN keystore_file.value
      BY <1>3 DEF Restorable, References, IsKeyControlled
    <2>3. None \notin DOMAIN k
      BY <1>3, <1>9, SnapshotTypes, NoneIsNotDrawn DEF IsKeyMap, IsMap
    <2>4. Matches(p, keystore_file.value)
      BY <1>3 DEF Restorable
    <2> QED BY <2>1, <2>2, <2>3, <2>4 DEF Matches, Agree
  <1>10. RecordInv'
    <2>1. \A k \in KeyMaps' : \A h \in DOMAIN k : h <= draws'
      BY <1>2, <1>8 DEF BackupInv, RecordInv
    <2>2. \A k, l \in KeyMaps' : Agree(k, l)
      BY <1>8 DEF BackupInv, RecordInv
    <2>3. \A q \in Profiles' : Sound(q, draws')
      BY <1>2, <1>3, <1>8 DEF BackupInv, RecordInv, Restorable
    <2>4. \A q \in Profiles', k \in KeyMaps' : Matches(q, k)
      BY <1>8, <1>9 DEF BackupInv, RecordInv
    <2>5. \A t \in Sessions : PendingRecord(t)'
      BY <1>2 DEF BackupInv, RecordInv, PendingRecord
    <2> QED BY <1>5, <2>1, <2>2, <2>3, <2>4, <2>5 DEF RecordInv
  <1>11. \A q \in exports : Restorable(q)'
    BY <1>2 DEF BackupInv, Restorable
  <1> QED
    BY <1>2, <1>7, <1>10, <1>11 DEF BackupInv

\* The invariant of sessions that export and import.
LEMMA BackupHolds == FileBacked => (BackupSpec => []BackupInv)
  <1> SUFFICES ASSUME FileBacked PROVE BackupSpec => []BackupInv
    OBVIOUS
  <1>1. BackupInit => BackupInv /\ TakeTurns(Sessions)
    BY InitLedger DEF BackupInit, BackupInv, LedgerInv, Init, TakeTurns
  <1>2. ASSUME BackupInv, TakeTurns(Sessions),
               [BackupNext /\ TakeTurns(Sessions)']_<<vars, exports>>
        PROVE  BackupInv' /\ TakeTurns(Sessions)'
    <2>1. ASSUME [Next]_vars, exports' = exports PROVE BackupInv'
      <3>1. CustodyInv(Sessions)' /\ RecordInv'
        BY <1>2, <2>1, StepCustody, StepRecords DEF BackupInv, OnlyFlush
      <3>2. \A p \in exports : Restorable(p)'
        BY <1>2, <2>1, RestorableStays DEF BackupInv
      <3> QED BY <2>1, <3>1, <3>2 DEF BackupInv
    <2>2. ASSUME NEW s \in Sessions, ExportJson(s) \/ ImportJson(s) PROVE BackupInv'
      BY <1>2, <2>2, ExportStep, ImportStep
    <2>3. TakeTurns(Sessions)'
      BY <1>2 DEF TakeTurns, vars
    <2> QED BY <1>2, <2>1, <2>2, <2>3 DEF BackupNext
  <1> QED
    BY <1>1, <1>2, PTL DEF BackupSpec

\* What an export says, a key map backs that has the keys of keystore.json.
LEMMA RestorableIsBacked ==
    ASSUME NEW p, Restorable(p), NEW k, None \notin DOMAIN k,
           Ledger!Contains(k, keystore_file.value)
    PROVE  Ledger!Backed(p, k)
  <1>1. /\ \A i \in DOMAIN p.identities :
              p.identities[i].key_handle \in DOMAIN keystore_file.value
        /\ \A a \in DOMAIN p.payment_accounts :
              \/ p.payment_accounts[a].key_handle = None
              \/ p.payment_accounts[a].key_handle \in DOMAIN keystore_file.value
    BY DEF Restorable, References, IsKeyControlled
  <1>2. Matches(p, keystore_file.value)
    BY DEF Restorable
  <1> QED
    BY <1>1, <1>2
       DEF Matches, DidOf, PublicKey, AddressOf, Ledger!Backed, Ledger!Contains,
           Ledger!IsKeyControlled, Ledger!DidOf, Ledger!PublicKey, Ledger!AddressOf

\* One session at a time on a FileKeyStore: a session that has its key store
\* open, or can open it, can restore every export, however many calls, failures,
\* stops and other restores have come since (export_json, import_json; what
\* generate, import, open and flush do to keystore.json).
THEOREM ExportsStayRestorable == FileBacked => (BackupSpec => []ExportsRestorable)
  <1>1. ASSUME BackupInv PROVE ExportsRestorable
    <2> SUFFICES ASSUME NEW p \in exports
        PROVE  /\ Ledger!Backed(p, keystore_file.value)
               /\ \A s \in Sessions :
                     stage[s] # "closed" => Ledger!Backed(p, keys[s])
      BY DEF ExportsRestorable
    <2>1. Restorable(p)
      BY <1>1 DEF BackupInv
    <2>2. /\ keystore_file.value \in KeyMaps
          /\ \A s \in Sessions : keys[s] \in KeyMaps
          /\ \A k \in KeyMaps : None \notin DOMAIN k
      BY <1>1, SnapshotTypes, NoneIsNotDrawn
         DEF BackupInv, RecordInv, KeyMaps, IsKeyMap, IsMap
    <2>3. Ledger!Backed(p, keystore_file.value)
      BY <2>1, <2>2, RestorableIsBacked DEF Ledger!Contains
    <2>4. ASSUME NEW s \in Sessions, stage[s] # "closed"
          PROVE  Ledger!Backed(p, keys[s])
      <3>1. DOMAIN keystore_file.value \subseteq DOMAIN keys[s]
        BY <1>1, <2>4 DEF BackupInv, CustodyInv, SessionCustody
      <3>2. Agree(keys[s], keystore_file.value)
        BY <1>1, <2>2 DEF BackupInv, RecordInv
      <3>3. Ledger!Contains(keys[s], keystore_file.value)
        BY <3>1, <3>2 DEF Agree, Ledger!Contains
      <3> QED BY <2>1, <2>2, <3>3, RestorableIsBacked
    <2> QED
      BY <2>3, <2>4
  <1> SUFFICES ASSUME FileBacked PROVE BackupSpec => []ExportsRestorable
    OBVIOUS
  <1> QED
    BY BackupHolds, <1>1, PTL

\* What a session restored and then saved over a newer profile has a sound
\* lineage, although identities are forgotten and others are active again
\* (import_json, rotate_active_identity).
THEOREM RestoredLineage == FileBacked => (BackupSpec => []RotationLineage)
  <1>1. BackupInv => RotationLineage
    BY DEF BackupInv, RecordInv, Sound, RotationLineage
  <1> SUFFICES ASSUME FileBacked PROVE BackupSpec => []RotationLineage
    OBVIOUS
  <1> QED
    BY BackupHolds, <1>1, PTL

\* After a restore the selected identity and account can be used with the keys
\* the session has (import_json; sign_with_active_identity and the other calls
\* on the selection).
THEOREM RestoredSelection == FileBacked => (BackupSpec => []SelectionWorks)
  <1>1. BackupInv => SelectionWorks
    BY SelectionUsable DEF BackupInv
  <1> SUFFICES ASSUME FileBacked PROVE BackupSpec => []SelectionWorks
    OBVIOUS
  <1> QED
    BY BackupHolds, <1>1, PTL

\* Importing takes the book back, but never beyond what is backed: the directory
\* keeps the weaker promise of Custody on its last complete documents, whichever
\* exports are imported and saved, also over a metadata.json that does not parse
\* (import_json; the order of flush and save in every call).
THEOREM RestoringKeepsSafe == FileBacked => (BackupSpec => ImplementsSafekeeping)
  <1> SUFFICES ASSUME FileBacked PROVE BackupSpec => ImplementsSafekeeping
    OBVIOUS
  <1>1. BackupInit => Ledger!Init
    BY InitIsLedgerInit DEF BackupInit
  <1>2. ASSUME BackupInv, [BackupNext /\ TakeTurns(Sessions)']_<<vars, exports>>
        PROVE  [Ledger!Keep \/ Ledger!Replace]_<<keystore_file.value,
                                                 metadata_file.value>>
    <2>1. CASE [Next]_vars
      BY <1>2, <2>1, SafekeepingStep DEF BackupInv, OnlyFlush
    <2>2. CASE \E s \in Sessions : ExportJson(s) \/ ImportJson(s)
      <3>1. UNCHANGED files
        BY <2>2 DEF ExportJson, ImportJson, vars, files
      <3> QED BY <3>1 DEF files
    <2> QED BY <1>2, <2>1, <2>2 DEF BackupNext
  <1> QED
    BY <1>1, <1>2, BackupHolds, PTL
       DEF BackupSpec, ImplementsSafekeeping, Ledger!Safekeeping

=============================================================================
