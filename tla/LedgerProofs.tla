----------------------------- MODULE LedgerProofs -----------------------------
(***************************************************************************)
(* Sessions on a FileKeyStore that take turns: the directory implements    *)
(* module Custody.                                                         *)
(*                                                                         *)
(* The step that matters for the vault is FlushWrite, which replaces the   *)
(* document by the session's key map: CustodyInv says that the map has     *)
(* every handle of the document, RecordInv that it has the same keys under *)
(* them.  For the book it is SaveWrite: Owed adds that the session's       *)
(* profile records all that metadata.json does, so that writing it forgets *)
(* nothing.                                                                *)
(***************************************************************************)
EXTENDS RecordProofs

\* The call's identity or account is in p.
Recorded(p, c) ==
    /\ c.kind = "account" => c.id \in DOMAIN p.payment_accounts
    /\ c.kind = "identity" => /\ c.id \in DOMAIN p.identities
                              /\ p.identities[c.id].rotated_from = c.from

\* W is a set of sessions that take turns, and nobody else writes: all sessions,
\* where one is open at a time, or the processes of the tool that write.
OnlySave(W) ==
    \A s \in Sessions : stage[s] \in {"save", "saving"} => s \in W

\* What the session's profile owes to metadata.json and to its own call.
Owed(s, W) ==
    /\ stage[s] \notin {"closed", "opened"} /\ s \in W =>
          Ledger!Extends(metadata_file.value, profile[s])
    /\ stage[s] = "saving" => metadata_file.state = "empty"
    /\ stage[s] \in {"save", "saving"} => Recorded(profile[s], call[s])

LedgerInv(W) ==
    /\ CustodyInv(W)
    /\ RecordInv
    /\ metadata_file.state = "absent" => metadata_file.value = NewProfile
    /\ \A s \in Sessions : Owed(s, W)
    /\ \A c \in acknowledged : Recorded(metadata_file.value, c)

-----------------------------------------------------------------------------
(* Growing profiles.                                                       *)

LEMMA ExtendsItself ==
    ASSUME NEW p, NEW q, q.identities = p.identities,
           q.payment_accounts = p.payment_accounts
    PROVE  Ledger!Extends(p, q)
  BY DEF Ledger!Extends

LEMMA ExtendsFurther ==
    ASSUME NEW p, NEW q, NEW r, Ledger!Extends(p, q), Ledger!Extends(q, r)
    PROVE  Ledger!Extends(p, r)
  BY DEF Ledger!Extends

LEMMA RecordedStays ==
    ASSUME NEW p, NEW q, Ledger!Extends(p, q), NEW c, Recorded(p, c)
    PROVE  Recorded(q, c)
  BY DEF Ledger!Extends, Recorded

LEMMA AddPaymentAccountExtends ==
    ASSUME NEW p, IsProfile(p), NEW id \in Nat, NEW account \in PaymentAccounts
    PROVE  /\ Ledger!Extends(p, AddPaymentAccount(p, id, account))
           /\ id \in DOMAIN AddPaymentAccount(p, id, account).payment_accounts
  <1> DEFINE q == AddPaymentAccount(p, id, account)
  <1>1. /\ q.identities = p.identities
        /\ q.payment_accounts = Put(p.payment_accounts, id, account)
    BY AddPaymentAccountIsProfile
  <1> HIDE DEF q
  <1>2. DOMAIN q.payment_accounts = DOMAIN p.payment_accounts \cup {id}
    BY <1>1 DEF Put
  <1>3. Ledger!Extends(p, q)
    BY <1>1, <1>2 DEF Ledger!Extends
  <1> QED
    BY <1>2, <1>3 DEF q

LEMMA RegisteredExtends ==
    ASSUME NEW p, IsProfile(p),
           NEW c \in Calls, c.kind # "other", c.id \in Nat,
           c.id \notin DOMAIN p.identities,
           c.from # None => c.kind = "identity" /\ c.from \in DOMAIN p.identities,
           NEW record \in KeyRecords
    PROVE  /\ Ledger!Extends(p, Registered(p, c, record))
           /\ Recorded(Registered(p, c, record), c)
  <1> DEFINE identity == NewIdentity(c.id, DidOf(record))
             account == NewPaymentAccount(c.id, AddressOf(record))
  <1>1. identity \in LocalIdentities /\ identity.rotated_from = None
    BY DEF NewIdentity, LocalIdentities, Dids, DidOf, PublicKey, KeyRecords,
           IdentityStatus
  <1>2. account \in PaymentAccounts
    BY DEF NewPaymentAccount, PaymentAccounts, Addresses, AddressOf, KeyRecords,
           PaymentAccountStatus
  <1>3. CASE c.kind = "account"
    <2>1. Registered(p, c, record) = AddPaymentAccount(p, c.id, account)
      BY <1>3 DEF Registered
    <2> HIDE DEF account
    <2>2. /\ Ledger!Extends(p, AddPaymentAccount(p, c.id, account))
          /\ c.id \in DOMAIN AddPaymentAccount(p, c.id, account).payment_accounts
      BY <1>2, AddPaymentAccountExtends
    <2> QED BY <1>3, <2>1, <2>2 DEF Recorded
  <1>4. CASE c.kind = "identity" /\ c.from = None
    <2> DEFINE q == AddIdentity(p, c.id, identity)
    <2>1. Registered(p, c, record) = q
      BY <1>4 DEF Registered
    <2> HIDE DEF identity
    <2>2. /\ q.identities = Put(p.identities, c.id, identity)
          /\ q.payment_accounts = p.payment_accounts
      BY <1>1, AddIdentityIsProfile
    <2> HIDE DEF q
    <2>3. /\ DOMAIN q.identities = DOMAIN p.identities \cup {c.id}
          /\ q.identities[c.id] = identity
          /\ \A i \in DOMAIN p.identities : q.identities[i] = p.identities[i]
      BY <2>2 DEF Put
    <2>4. Ledger!Extends(p, q)
      BY <2>2, <2>3 DEF Ledger!Extends
    <2>5. Recorded(q, c)
      BY <1>1, <1>4, <2>3 DEF Recorded
    <2> QED BY <2>1, <2>4, <2>5
  <1>5. CASE c.kind = "identity" /\ c.from # None
    <2> DEFINE q == RotateIdentity(p, c.from, c.id, identity)
               retired == [p.identities[c.from] EXCEPT !.status = "rotated"]
               replacement == [identity EXCEPT !.rotated_from = c.from]
    <2>1. Registered(p, c, record) = q
      BY <1>5 DEF Registered
    <2> HIDE DEF identity
    <2>2. /\ q.identities = Put(Put(p.identities, c.from, retired), c.id, replacement)
          /\ q.payment_accounts = p.payment_accounts
      BY <1>1, <1>5, RotateIdentityIsProfile
    <2>3. p.identities[c.from] \in LocalIdentities
      BY <1>5 DEF IsProfile, IsMap
    <2>4. /\ retired.status = "rotated"
          /\ retired.rotated_from = p.identities[c.from].rotated_from
          /\ replacement.rotated_from = c.from
      BY <1>1, <2>3 DEF LocalIdentities
    <2> HIDE DEF q, retired, replacement
    <2>5. /\ DOMAIN q.identities = DOMAIN p.identities \cup {c.id}
          /\ q.identities[c.id] = replacement
          /\ q.identities[c.from] = retired
          /\ \A i \in DOMAIN p.identities :
                i # c.from => q.identities[i] = p.identities[i]
      BY <1>5, <2>2 DEF Put
    <2>6. Ledger!Extends(p, q)
      BY <2>2, <2>4, <2>5 DEF Ledger!Extends
    <2>7. Recorded(q, c)
      BY <1>5, <2>4, <2>5 DEF Recorded
    <2> QED BY <2>1, <2>6, <2>7
  <1> QED
    BY <1>3, <1>4, <1>5 DEF Calls

-----------------------------------------------------------------------------
(* The invariant.                                                          *)

LEMMA InitLedger ==
    ASSUME NEW W, Init
    PROVE  LedgerInv(W)
  <1>1. metadata_file.value = NewProfile
    BY DEF Init, NoFile
  <1>2. \A s \in Sessions : Owed(s, W)
    BY DEF Init, Owed
  <1>3. acknowledged = {}
    BY DEF Init
  <1> QED
    BY <1>1, <1>2, <1>3, InitCustody, InitRecord DEF LedgerInv

\* Which file states follow from a write.
LEMMA WrittenStates ==
    ASSUME NEW file, NEW document, IsFile(file)
    PROVE  /\ Truncated(file).state = "empty"
           /\ \A g \in WriteOutcomes(file, document) : g.state # "absent"
           /\ \A g \in InterruptedOutcomes(file) :
                 g.state = "absent" => file.state = "absent"
  BY DEF IsFile, Truncated, Torn, Intact, WriteOutcomes, InterruptedOutcomes

\* A step that leaves the document of metadata.json alone.
LEMMA SameBook ==
    ASSUME NEW W, LedgerInv(W), metadata_file'.value = metadata_file.value,
           metadata_file'.state = "absent" => metadata_file.state = "absent",
           acknowledged' = acknowledged
    PROVE  /\ metadata_file'.state = "absent" => metadata_file'.value = NewProfile
           /\ \A c \in acknowledged' : Recorded(metadata_file'.value, c)
  BY DEF LedgerInv

\* A session that takes no step owes no more: only a session of W, while no
\* other is open, touches metadata.json.
LEMMA OtherOwed ==
    ASSUME NEW W, TakeTurns(W), OnlySave(W), TypeOK,
           NEW s \in Sessions, Step(s),
           NEW t \in Sessions, t # s, Owed(t, W)
    PROVE  Owed(t, W)'
  <1>1. stage'[t] = stage[t] /\ profile'[t] = profile[t] /\ call'[t] = call[t]
    BY OwnState
  <1>2. CASE metadata_file' = metadata_file
    BY <1>1, <1>2 DEF Owed
  <1>3. CASE metadata_file' # metadata_file
    <2>1. s \in W /\ stage[s] # "closed"
      BY <1>3, OwnFile DEF OnlySave
    <2>2. stage[t] = "closed" \/ t \notin W
      BY <2>1 DEF TakeTurns
    <2>3. stage[t] \notin {"save", "saving"}
      BY <2>2 DEF OnlySave
    <2> QED BY <1>1, <2>2, <2>3 DEF Owed
  <1> QED BY <1>2, <1>3

LEMMA StepLedger ==
    ASSUME FileBacked, NEW W, TakeTurns(W), OnlyFlush(W), OnlySave(W), LedgerInv(W),
           [Next]_vars
    PROVE  LedgerInv(W)'
  <1>1. CustodyInv(W)' /\ RecordInv'
    BY StepCustody, StepRecords DEF LedgerInv
  <1> DEFINE Rest == /\ metadata_file.state = "absent" =>
                           metadata_file.value = NewProfile
                     /\ \A c \in acknowledged : Recorded(metadata_file.value, c)
  <1>2. TypeOK /\ TypeInv /\ IsFile(metadata_file) /\ Rest
    BY DEF LedgerInv, CustodyInv, TypeInv, TypeOK
  <1>3. CASE UNCHANGED vars
    <2>1. \A s \in Sessions : Owed(s, W)'
      BY <1>3 DEF LedgerInv, Owed, vars
    <2>2. Rest'
      BY <1>2, <1>3 DEF vars
    <2> QED BY <1>1, <2>1, <2>2 DEF LedgerInv
  <1>4. ASSUME NEW s \in Sessions, Step(s)
        PROVE  LedgerInv(W)'
    <2>2. /\ Owed(s, W) /\ PendingCall(s) /\ PendingRecord(s) /\ IsProfile(profile[s])
          /\ call[s] \in Calls /\ IsKeyMap(keys[s])
      BY <1>2 DEF LedgerInv, RecordInv, TypeInv, TypeOK
    <2>3. SUFFICES Rest' /\ Owed(s, W)'
      <3>1. ASSUME NEW t \in Sessions, t # s PROVE Owed(t, W)'
        BY <1>2, <1>4, <3>1, OtherOwed DEF LedgerInv
      <3> QED BY <1>1, <3>1 DEF LedgerInv
    <2>4. CASE Open(s) \/ LoadOrCreateProfile(s) \/ FlushKeyStore(s)
      <3>1. /\ metadata_file' = metadata_file /\ acknowledged' = acknowledged
            /\ stage'[s] \in {"opened", "idle", "flush"}
        BY <1>2, <2>4 DEF Open, LoadOrCreateProfile, FlushKeyStore, files, TypeOK
      <3>2. CASE Open(s)
        BY <1>2, <3>1, <3>2 DEF Open, Owed, TypeOK
      <3>3. CASE LoadOrCreateProfile(s)
        <4>1. profile'[s] = metadata_file.value
          BY <1>2, <3>3 DEF LoadOrCreateProfile, TypeOK
        <4>2. Ledger!Extends(metadata_file'.value, profile'[s])
          BY <3>1, <4>1, ExtendsItself
        <4> QED BY <1>2, <3>1, <4>2 DEF Owed
      <3>4. CASE FlushKeyStore(s)
        BY <1>2, <2>2, <3>1, <3>4 DEF FlushKeyStore, Owed
      <3> QED BY <2>4, <3>2, <3>3, <3>4
    <2>5. CASE Close(s)
      <3>1. /\ metadata_file'.value = metadata_file.value
            /\ metadata_file'.state = "absent" => metadata_file.state = "absent"
        BY <1>2, <2>5, FileOutcomes, WrittenStates DEF Close
      <3>2. stage'[s] = "closed" /\ acknowledged' = acknowledged
        BY <1>2, <2>5 DEF Close, TypeOK
      <3> QED BY <3>1, <3>2, SameBook DEF Owed
    <2>6. ASSUME NEW kind, NEW from, NEW algorithm, NEW secret,
                 BeginKeyCall(s, kind, from, algorithm, secret)
          PROVE  Rest' /\ Owed(s, W)'
      <3>1. /\ metadata_file' = metadata_file /\ acknowledged' = acknowledged
            /\ profile' = profile /\ stage[s] = "idle"
            /\ stage'[s] = "flush"
        BY <1>2, <2>6 DEF BeginKeyCall, files, TypeOK
      <3> QED BY <1>2, <2>2, <3>1 DEF Owed
    <2>7. CASE \/ CreateIdentity(s) \/ ImportIdentity(s) \/ RotateActiveIdentity(s)
               \/ CreatePaymentAccount(s) \/ ImportPaymentAccount(s)
      BY <2>6, <2>7 DEF CreateIdentity, ImportIdentity, RotateActiveIdentity,
                        CreatePaymentAccount, ImportPaymentAccount
    <2>8. CASE FlushTruncate(s) \/ FlushWrite(s) \/ FlushFail(s)
      <3>1. /\ metadata_file' = metadata_file /\ acknowledged' = acknowledged
            /\ profile' = profile /\ stage[s] \in {"flush", "flushing"}
            /\ stage'[s] \in {"flushing", "flushed", "idle"}
        BY <1>2, <2>8 DEF FlushTruncate, FlushWrite, FlushFail, TypeOK
      <3> QED BY <1>2, <2>2, <3>1 DEF Owed
    <2>9. ASSUME NEW p, stage' = [stage EXCEPT ![s] = "save"],
                 profile' = [profile EXCEPT ![s] = p],
                 stage[s] \in {"idle", "flushed"},
                 metadata_file' = metadata_file, acknowledged' = acknowledged,
                 Ledger!Extends(profile[s], p), Recorded(p, call'[s])
          PROVE  Rest' /\ Owed(s, W)'
      <3>1. profile'[s] = p /\ stage'[s] = "save"
        BY <1>2, <2>9 DEF TypeOK
      <3>2. s \in W => Ledger!Extends(metadata_file'.value, profile'[s])
        BY <2>2, <2>9, <3>1, ExtendsFurther DEF Owed
      <3> QED BY <1>2, <2>9, <3>1, <3>2 DEF Owed
    <2>10. CASE Register(s)
      <3> DEFINE c == call[s]
                 record == keys[s][c.id]
                 p == Registered(profile[s], c, record)
      <3>1. /\ stage[s] = "flushed" /\ call'[s] = c
            /\ stage' = [stage EXCEPT ![s] = "save"]
            /\ profile' = [profile EXCEPT ![s] = p]
            /\ metadata_file' = metadata_file /\ acknowledged' = acknowledged
        BY <2>10 DEF Register, files
      <3>2. /\ c # Other /\ c.kind # "other" /\ c.id \in DOMAIN keys[s]
            /\ c.from # None => c.from \in DOMAIN profile[s].identities
        BY <2>2, <3>1 DEF PendingCall
      <3>3. c.id \in Nat /\ record \in KeyRecords
        BY <2>2, <3>2 DEF IsKeyMap, IsMap
      <3>4. /\ c.id \notin DOMAIN profile[s].identities
            /\ c.from # None => c.kind = "identity"
        BY <2>2, <3>1, <3>2 DEF PendingRecord
      <3> HIDE DEF c, record
      <3>5. c \in Calls
        BY <2>2 DEF c
      <3>6. Ledger!Extends(profile[s], p) /\ Recorded(p, c)
        BY <2>2, <3>2, <3>3, <3>4, <3>5, RegisteredExtends
      <3> HIDE DEF p
      <3> QED BY <2>9, <3>1, <3>6
    <2>11. CASE RegisterWatchPaymentAccount(s)
      <3> DEFINE c == [kind |-> "account", id |-> draws + 1, from |-> None]
      <3>1. PICK address \in WatchAddresses :
               BeginSave(s, c, AddPaymentAccount(profile[s], draws + 1,
                                                 NewPaymentAccount(None, address)))
        BY <2>11 DEF RegisterWatchPaymentAccount
      <3> DEFINE account == NewPaymentAccount(None, address)
                 p == AddPaymentAccount(profile[s], draws + 1, account)
      <3>2. account \in PaymentAccounts
        BY DEF NewPaymentAccount, PaymentAccounts, Addresses, PaymentAccountStatus
      <3>3. draws + 1 \in Nat
        BY <1>2 DEF TypeOK
      <3> HIDE DEF account
      <3>4. /\ Ledger!Extends(profile[s], p)
            /\ draws + 1 \in DOMAIN p.payment_accounts
        BY <2>2, <3>2, <3>3, AddPaymentAccountExtends
      <3>5. BeginSave(s, c, p)
        BY <3>1 DEF account
      <3> HIDE DEF p
      <3>6. Recorded(p, c)
        BY <3>4 DEF Recorded
      <3>7. /\ call'[s] = c /\ stage[s] = "idle"
            /\ stage' = [stage EXCEPT ![s] = "save"]
            /\ profile' = [profile EXCEPT ![s] = p]
            /\ metadata_file' = metadata_file /\ acknowledged' = acknowledged
        BY <1>2, <3>5 DEF BeginSave, files, TypeOK
      <3> HIDE DEF c
      <3> QED BY <2>9, <3>4, <3>6, <3>7
    <2>12. ASSUME NEW p, BeginSave(s, Other, p), p.identities = profile[s].identities,
                  p.payment_accounts = profile[s].payment_accounts
           PROVE  Rest' /\ Owed(s, W)'
      <3>1. Ledger!Extends(profile[s], p)
        BY <2>12, ExtendsItself
      <3>2. Recorded(p, Other)
        BY DEF Recorded, Other
      <3>3. /\ call'[s] = Other /\ stage[s] = "idle"
            /\ stage' = [stage EXCEPT ![s] = "save"]
            /\ profile' = [profile EXCEPT ![s] = p]
            /\ metadata_file' = metadata_file /\ acknowledged' = acknowledged
        BY <1>2, <2>12 DEF BeginSave, files, TypeOK
      <3> QED BY <2>9, <3>1, <3>2, <3>3
    <2>13. CASE SetActiveIdentity(s) \/ SetActivePaymentAccount(s) \/ SaveProfile(s)
      <3>1. CASE SetActiveIdentity(s)
        <4>1. PICK id : BeginSave(s, Other, SetActiveIdentityId(profile[s], id))
          BY <3>1 DEF SetActiveIdentity
        <4> DEFINE p == SetActiveIdentityId(profile[s], id)
        <4>2. /\ p.identities = profile[s].identities
              /\ p.payment_accounts = profile[s].payment_accounts
          BY <2>2 DEF SetActiveIdentityId, IsProfile
        <4> QED BY <2>12, <4>1, <4>2
      <3>2. CASE SetActivePaymentAccount(s)
        <4>1. PICK id : BeginSave(s, Other, SetActivePaymentAccountId(profile[s], id))
          BY <3>2 DEF SetActivePaymentAccount
        <4> DEFINE p == SetActivePaymentAccountId(profile[s], id)
        <4>2. /\ p.identities = profile[s].identities
              /\ p.payment_accounts = profile[s].payment_accounts
          BY <2>2 DEF SetActivePaymentAccountId, IsProfile
        <4> QED BY <2>12, <4>1, <4>2
      <3>3. CASE SaveProfile(s)
        BY <2>12, <3>3 DEF SaveProfile
      <3> QED BY <2>13, <3>1, <3>2, <3>3
    <2>14. CASE SaveTruncate(s)
      <3>1. /\ metadata_file'.value = metadata_file.value
            /\ metadata_file'.state = "empty"
        BY <1>2, <2>14, FileOutcomes DEF SaveTruncate
      <3>2. /\ stage[s] = "save" /\ stage'[s] = "saving" /\ profile' = profile
            /\ call' = call /\ acknowledged' = acknowledged
        BY <1>2, <2>14 DEF SaveTruncate, TypeOK
      <3>3. Owed(s, W)'
        BY <2>2, <3>1, <3>2 DEF Owed
      <3> QED BY <3>1, <3>2, <3>3, SameBook
    <2>15. CASE SaveWrite(s)
      <3>1. stage[s] = "saving" /\ metadata_file.state = "empty"
        BY <2>2, <2>15 DEF SaveWrite, Owed
      <3>2. metadata_file'.value = profile[s] /\ metadata_file'.state # "absent"
        BY <1>2, <2>15, <3>1, FileOutcomes, WrittenStates DEF SaveWrite
      <3>3. /\ Ledger!Extends(metadata_file.value, profile[s])
            /\ Recorded(profile[s], call[s])
        BY <2>2, <3>1 DEF Owed, OnlySave
      <3>4. \A c \in acknowledged : Recorded(profile[s], c)
        BY <1>2, <3>3, RecordedStays
      <3>5. acknowledged' \subseteq acknowledged \cup {call[s]}
        BY <2>15 DEF SaveWrite
      <3>6. profile' = profile /\ stage'[s] = "idle"
        BY <1>2, <2>15 DEF SaveWrite, TypeOK
      <3>7. Owed(s, W)'
        BY <3>2, <3>6, ExtendsItself DEF Owed
      <3> QED BY <3>2, <3>3, <3>4, <3>5, <3>7
    <2>16. CASE SaveFail(s)
      <3>1. /\ metadata_file'.value = metadata_file.value
            /\ metadata_file'.state = "absent" => metadata_file.state = "absent"
        BY <1>2, <2>16, FileOutcomes, WrittenStates DEF SaveFail
      <3>2. /\ stage[s] \in {"save", "saving"} /\ stage'[s] = "idle"
            /\ profile' = profile /\ acknowledged' = acknowledged
        BY <1>2, <2>16 DEF SaveFail, TypeOK
      <3>3. Owed(s, W)'
        BY <2>2, <3>1, <3>2 DEF Owed
      <3> QED BY <3>1, <3>2, <3>3, SameBook
    <2> QED
      BY <1>4, <2>4, <2>5, <2>7, <2>8, <2>10, <2>11, <2>13, <2>14, <2>15, <2>16
         DEF Step
  <1> QED
    BY <1>3, <1>4 DEF Next

\* The invariant of sessions of which one is open at a time.
LEMMA SerialLedger == FileBacked => (SerialSpec => []LedgerInv(Sessions))
  <1> SUFFICES ASSUME FileBacked PROVE SerialSpec => []LedgerInv(Sessions)
    OBVIOUS
  <1>1. Init => LedgerInv(Sessions)
    BY InitLedger
  <1>2. ASSUME TakeTurns(Sessions), LedgerInv(Sessions),
               [Next /\ TakeTurns(Sessions)']_vars
        PROVE  LedgerInv(Sessions)'
    BY <1>2, StepLedger DEF OnlyFlush, OnlySave
  <1> QED
    BY <1>1, <1>2, SerialCustody, PTL DEF SerialSpec

-----------------------------------------------------------------------------
(* Refinement.                                                             *)

\* What a flush writes has every key that was there.
LEMMA VaultGrows ==
    ASSUME NEW M, OnlyFlush(M), CustodyInv(M), RecordInv,
           NEW s \in Sessions, FlushWrite(s)
    PROVE  Ledger!Contains(keystore_file'.value, keystore_file.value)
  <1>1. TypeOK /\ SessionCustody(s, M)
    BY DEF CustodyInv, TypeInv
  <1>2. stage[s] = "flushing" /\ keystore_file.state = "empty" /\ s \in M
    BY <1>1 DEF FlushWrite, SessionCustody, OnlyFlush
  <1>3. keystore_file'.value = keys[s]
    BY <1>1, <1>2, FileOutcomes DEF FlushWrite, TypeOK
  <1>4. Agree(keystore_file.value, keys[s])
    BY DEF RecordInv, KeyMaps
  <1>5. DOMAIN keystore_file.value \subseteq DOMAIN keys[s]
    BY <1>1, <1>2 DEF SessionCustody
  <1> QED
    BY <1>3, <1>4, <1>5 DEF Ledger!Contains, Agree

\* What a save writes is backed.
LEMMA BookBacked ==
    ASSUME NEW M, CustodyInv(M), RecordInv, NEW s \in Sessions, SaveWrite(s)
    PROVE  Ledger!Backed(profile[s], keystore_file.value)
  <1>1. References(profile[s]) \subseteq DOMAIN keystore_file.value
    BY DEF SaveWrite, CustodyInv, SessionCustody
  <1>2. Matches(profile[s], keystore_file.value)
    BY DEF RecordInv, Profiles, KeyMaps
  <1> QED
    BY <1>1, <1>2
       DEF References, Matches, IsKeyControlled, DidOf, PublicKey, AddressOf,
           Ledger!Backed, Ledger!IsKeyControlled, Ledger!DidOf,
           Ledger!PublicKey, Ledger!AddressOf

LEMMA LedgerStep ==
    ASSUME NEW W, OnlyFlush(W), OnlySave(W), LedgerInv(W), [Next]_vars
    PROVE  [Ledger!Next]_<<keystore_file.value, metadata_file.value>>
  <1>1. TypeOK /\ RecordInv /\ CustodyInv(W)
    BY DEF LedgerInv, CustodyInv, TypeInv
  <1>2. CASE UNCHANGED vars
    BY <1>2 DEF vars
  <1>3. ASSUME NEW s \in Sessions, Step(s)
        PROVE  [Ledger!Next]_<<keystore_file.value, metadata_file.value>>
    <2>1. Owed(s, W)
      BY DEF LedgerInv
    <2>2. CASE FlushWrite(s)
      <3>1. Ledger!Contains(keystore_file'.value, keystore_file.value)
        BY <1>1, <2>2, VaultGrows
      <3>2. metadata_file'.value = metadata_file.value
        BY <2>2 DEF FlushWrite
      <3> QED BY <3>1, <3>2 DEF Ledger!Next, Ledger!Keep
    <2>3. CASE SaveWrite(s)
      <3>1. stage[s] = "saving" /\ metadata_file.state = "empty" /\ s \in W
        BY <2>1, <2>3 DEF SaveWrite, Owed, OnlySave
      <3>2. metadata_file'.value = profile[s]
        BY <1>1, <2>3, <3>1, FileOutcomes DEF SaveWrite, TypeOK
      <3>3. Ledger!Extends(metadata_file.value, profile[s])
        BY <2>1, <3>1 DEF Owed
      <3>4. Ledger!Backed(profile[s], keystore_file.value)
        BY <1>1, <2>3, BookBacked
      <3>5. keystore_file'.value = keystore_file.value
        BY <2>3 DEF SaveWrite
      <3> QED BY <3>2, <3>3, <3>4, <3>5 DEF Ledger!Next, Ledger!Record
    <2>4. CASE ~FlushWrite(s) /\ ~SaveWrite(s)
      BY <1>1, <1>3, <2>4, WhoWrites
    <2> QED BY <2>2, <2>3, <2>4
  <1> QED
    BY <1>2, <1>3 DEF Next

LEMMA InitIsLedgerInit == Init => Ledger!Init
  BY DEF Init, NoFile, EmptyMap, NewProfile,
         Ledger!Init, Ledger!EmptyMap, Ledger!NewProfile

\* One session at a time on a FileKeyStore implements the ledger, with the last
\* complete document of each file as vault and book: from one to the next they
\* only grow, no rotated identity comes back, no handle changes its key, and
\* nothing is recorded before its key is kept, across failed calls, stops and
\* reopenings.
THEOREM DirectoryImplementsCustody ==
    FileBacked => (SerialSpec => ImplementsCustody)
  <1> SUFFICES ASSUME FileBacked PROVE SerialSpec => ImplementsCustody
    OBVIOUS
  <1>1. Init => Ledger!Init
    BY InitIsLedgerInit
  <1>2. ASSUME LedgerInv(Sessions), [Next /\ TakeTurns(Sessions)']_vars
        PROVE  [Ledger!Next]_<<keystore_file.value, metadata_file.value>>
    BY <1>2, LedgerStep DEF OnlyFlush, OnlySave
  <1> QED
    BY <1>1, <1>2, SerialLedger, PTL DEF SerialSpec, ImplementsCustody, Ledger!Spec

\* Whatever a session saves, and over whatever it saves it, is backed.
LEMMA SafekeepingStep ==
    ASSUME NEW M, OnlyFlush(M), CustodyInv(M), RecordInv, [Next]_vars
    PROVE  [Ledger!Keep \/ Ledger!Replace]_<<keystore_file.value,
                                             metadata_file.value>>
  <1> DEFINE Goal == [Ledger!Keep \/ Ledger!Replace]_<<keystore_file.value,
                                                       metadata_file.value>>
  <1>1. TypeOK
    BY DEF CustodyInv, TypeInv
  <1>2. CASE UNCHANGED vars
    BY <1>2 DEF vars
  <1>3. ASSUME NEW s \in Sessions, Step(s) PROVE Goal
    <2>1. CASE FlushWrite(s)
      <3>1. Ledger!Contains(keystore_file'.value, keystore_file.value)
        BY <2>1, VaultGrows
      <3>2. metadata_file'.value = metadata_file.value
        BY <2>1 DEF FlushWrite
      <3> QED BY <3>1, <3>2 DEF Ledger!Keep
    <2>2. CASE SaveWrite(s)
      <3>1. metadata_file'.value \in {profile[s], metadata_file.value}
        BY <1>1, <2>2, FileOutcomes DEF SaveWrite, TypeOK
      <3>2. Ledger!Backed(profile[s], keystore_file.value)
        BY <2>2, BookBacked
      <3>3. keystore_file'.value = keystore_file.value
        BY <2>2 DEF SaveWrite
      <3> QED BY <3>1, <3>2, <3>3 DEF Ledger!Replace
    <2>3. CASE ~FlushWrite(s) /\ ~SaveWrite(s)
      BY <1>1, <1>3, <2>3, WhoWrites
    <2> QED BY <2>1, <2>2, <2>3
  <1> QED
    BY <1>2, <1>3 DEF Next

-----------------------------------------------------------------------------
(* What callers rely on.                                                   *)

\* What a call reported as added is in every complete profile written to
\* metadata.json from then on (WalletMetadataStore::save).
THEOREM AcknowledgedStays == FileBacked => (SerialSpec => []AcknowledgedSurvives)
  <1> SUFFICES ASSUME FileBacked PROVE SerialSpec => []AcknowledgedSurvives
    OBVIOUS
  <1>1. LedgerInv(Sessions) => AcknowledgedSurvives
    BY DEF LedgerInv, AcknowledgedSurvives, Recorded
  <1> QED
    BY SerialLedger, <1>1, PTL

\* A session that may be called has the keys of everything in its profile, of
\* the right kind.
LEMMA IdleHasKeys ==
    ASSUME CustodyInv(Sessions), RecordInv, NEW s \in Sessions, stage[s] = "idle"
    PROVE  /\ IsProfile(profile[s])
           /\ \A i \in DOMAIN profile[s].identities :
                 LET h == profile[s].identities[i].key_handle
                 IN h \in DOMAIN keys[s] /\ keys[s][h].algorithm = "ed25519"
           /\ \A a \in DOMAIN profile[s].payment_accounts :
                 LET h == profile[s].payment_accounts[a].key_handle
                 IN h # None => /\ h \in DOMAIN keys[s]
                                /\ keys[s][h].algorithm = "secp256k1"
  <1>1. SessionCustody(s, Sessions) /\ TypeOK
    BY DEF CustodyInv, TypeInv
  <1>2. References(profile[s]) \subseteq DOMAIN keys[s]
    BY <1>1 DEF SessionCustody
  <1>3. Matches(profile[s], keys[s])
    BY DEF RecordInv, Profiles, KeyMaps
  <1> QED
    BY <1>1, <1>2, <1>3 DEF TypeOK, References, Matches, IsKeyControlled

\* Sessions whose profile has its keys and whose keys match can use what they
\* selected.
LEMMA SelectionUsable ==
    ASSUME CustodyInv(Sessions), RecordInv
    PROVE  SelectionWorks
  <1> DEFINE Bad == {"UnknownKeyHandle", "UnsupportedAlgorithm"}
  <1> SUFFICES ASSUME NEW s \in Sessions, stage[s] = "idle"
      PROVE  LET p == profile[s]
                 k == keys[s]
                 signature == SignWithActiveIdentity(p, k, "hello")
                 results == <<signature,
                              ActiveIdentityKeyInfo(p, k),
                              ExportActiveIdentitySeed(p, k),
                              SignWithActivePaymentAccount(p, k, "hello"),
                              ActivePaymentAccountKeyInfo(p, k),
                              ExportActivePaymentAccountSecret(p, k)>>
             IN /\ \A i \in DOMAIN results :
                      ~results[i].ok => results[i].value \notin Bad
                /\ signature.ok =>
                      VerifyWithIdentity(p, k, p.active_identity_id, "hello",
                                         signature.value).ok
    BY DEF SelectionWorks
  <1> DEFINE p == profile[s]
             k == keys[s]
             Fine(result) == ~result.ok => result.value \notin Bad
             signature == SignWithActiveIdentity(p, k, "hello")
             results == <<signature,
                          ActiveIdentityKeyInfo(p, k),
                          ExportActiveIdentitySeed(p, k),
                          SignWithActivePaymentAccount(p, k, "hello"),
                          ActivePaymentAccountKeyInfo(p, k),
                          ExportActivePaymentAccountSecret(p, k)>>
  <1>1. /\ \A i \in DOMAIN p.identities :
              LET h == p.identities[i].key_handle
              IN h \in DOMAIN k /\ k[h].algorithm = "ed25519"
        /\ \A a \in DOMAIN p.payment_accounts :
              LET h == p.payment_accounts[a].key_handle
              IN h # None => h \in DOMAIN k /\ k[h].algorithm = "secp256k1"
    BY IdleHasKeys
  <1> HIDE DEF p, k
  <1>2. /\ ActiveIdentity(p).ok =>
              /\ ActiveIdentity(p).value = p.active_identity_id
              /\ p.active_identity_id \in DOMAIN p.identities
        /\ ~ActiveIdentity(p).ok => ActiveIdentity(p).value \notin Bad
    BY DEF ActiveIdentity, Ok, Err
  <1>3. /\ ActiveAccountHandle(p).ok =>
              /\ ActiveAccountHandle(p).value \in DOMAIN k
              /\ k[ActiveAccountHandle(p).value].algorithm = "secp256k1"
        /\ ~ActiveAccountHandle(p).ok => ActiveAccountHandle(p).value \notin Bad
    BY <1>1 DEF ActiveAccountHandle, ActivePaymentAccount, IsKeyControlled, Ok, Err
  <1>4. Fine(signature)
    BY <1>1, <1>2 DEF SignWithActiveIdentity, SignBytes, Ok
  <1>5. Fine(ActiveIdentityKeyInfo(p, k))
    BY <1>1, <1>2 DEF ActiveIdentityKeyInfo, PublicKeyInfo, Ok
  <1>6. Fine(ExportActiveIdentitySeed(p, k))
    BY <1>1, <1>2 DEF ExportActiveIdentitySeed, ExportSecret, Ok
  <1>7. Fine(SignWithActivePaymentAccount(p, k, "hello"))
    BY <1>3 DEF SignWithActivePaymentAccount, SignBytes, Ok
  <1>8. Fine(ActivePaymentAccountKeyInfo(p, k))
    BY <1>3 DEF ActivePaymentAccountKeyInfo, PublicKeyInfo, Ok
  <1>9. Fine(ExportActivePaymentAccountSecret(p, k))
    BY <1>3 DEF ExportActivePaymentAccountSecret, ExportSecret, Ok
  <1>10. signature.ok =>
            VerifyWithIdentity(p, k, p.active_identity_id, "hello",
                               signature.value).ok
    <2> SUFFICES ASSUME signature.ok
        PROVE  VerifyWithIdentity(p, k, p.active_identity_id, "hello",
                                  signature.value).ok
      OBVIOUS
    <2> DEFINE h == p.identities[p.active_identity_id].key_handle
    <2>1. ActiveIdentity(p).ok
      BY DEF SignWithActiveIdentity
    <2>2. signature = SignBytes(k, h, "hello") /\ h \in DOMAIN k
      BY <1>1, <1>2, <2>1 DEF SignWithActiveIdentity
    <2>3. signature.value = [signer |-> PublicKey(k[h]), payload |-> "hello"]
      BY <2>2 DEF SignBytes, Ok
    <2> HIDE DEF signature, h
    <2>4. VerifyBytes(k, h, "hello", signature.value).ok
      BY <2>2, <2>3 DEF VerifyBytes, Ok
    <2> QED
      BY <1>2, <2>1, <2>4 DEF VerifyWithIdentity, h
  <1> HIDE DEF signature, Bad
  <1>11. \A i \in DOMAIN results : Fine(results[i])
    <2>1. DOMAIN results = 1..6
      OBVIOUS
    <2> HIDE DEF Fine
    <2>2. /\ Fine(results[1]) /\ Fine(results[2]) /\ Fine(results[3])
          /\ Fine(results[4]) /\ Fine(results[5]) /\ Fine(results[6])
      BY <1>4, <1>5, <1>6, <1>7, <1>8, <1>9
    <2> HIDE DEF results
    <2> QED BY <2>1, <2>2
  <1> QED
    BY <1>10, <1>11 DEF p, k, signature

\* No call on the selected identity or account fails for want of a key or for a
\* key of the wrong kind, and the session verifies what it signs
\* (sign_with_active_identity, verify_with_identity, the exports and key infos).
THEOREM SelectionCanBeUsed == FileBacked => (SerialSpec => []SelectionWorks)
  <1> SUFFICES ASSUME FileBacked PROVE SerialSpec => []SelectionWorks
    OBVIOUS
  <1>1. LedgerInv(Sessions) => SelectionWorks
    BY SelectionUsable DEF LedgerInv
  <1> QED
    BY SerialLedger, <1>1, PTL

=============================================================================
