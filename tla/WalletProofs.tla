----------------------------- MODULE WalletProofs -----------------------------
(***************************************************************************)
(* Proofs about wallet sessions, for every value of the constants.         *)
(*                                                                         *)
(* TypeCorrect needs to know what a pending call is about (PendingCall):   *)
(* Register reads the key under call[s].id and the identity under          *)
(* call[s].from.                                                           *)
(*                                                                         *)
(* Custody: a key reaches keystore.json before a record that refers to it  *)
(* reaches a profile, and what is in keystore.json stays in the map of the *)
(* session that will overwrite it.                                         *)
(***************************************************************************)
EXTENDS WalletProperties, TLAPS

\* A session between calls has no call.  One that is making a key has the key
\* in its map, and the identity to be replaced in its profile.  (A session that
\* flushes by itself makes no key: its call is Other.)
PendingCall(s) ==
    /\ stage[s] \in {"closed", "opened", "idle"} => call[s] = Other
    /\ stage[s] = "flushed" => call[s] # Other
    /\ stage[s] \in {"flush", "flushing", "flushed"} /\ call[s] # Other =>
        /\ call[s].kind # "other"
        /\ call[s].id \in DOMAIN keys[s]
        /\ call[s].from # None => call[s].from \in DOMAIN profile[s].identities

TypeInv == TypeOK /\ \A s \in Sessions : PendingCall(s)

-----------------------------------------------------------------------------
(* What the operators on maps and profiles return.                         *)

LEMMA PutIsMap ==
    ASSUME NEW D, NEW R, NEW map, IsMap(map, D, R), NEW k \in D, NEW v \in R
    PROVE  /\ IsMap(Put(map, k, v), D, R)
           /\ DOMAIN Put(map, k, v) = DOMAIN map \cup {k}
           /\ Put(map, k, v)[k] = v
           /\ \A x \in DOMAIN map : x # k => Put(map, k, v)[x] = map[x]
  BY DEF IsMap, Put

LEMMA BlankDocuments ==
    /\ IsKeyMap(EmptyMap) /\ DOMAIN EmptyMap = {}
    /\ IsProfile(NewProfile) /\ References(NewProfile) = {}
  BY DEF IsKeyMap, IsMap, EmptyMap, IsProfile, NewProfile, References

\* A profile with its fields spelled out.
Fields(i, ai, a, aa) ==
    [identities |-> i, active_identity_id |-> ai,
     payment_accounts |-> a, active_payment_account_id |-> aa]

LEMMA ProfileFields ==
    ASSUME NEW i, NEW ai, NEW a, NEW aa
    PROVE  IsProfile(Fields(i, ai, a, aa)) <=>
              /\ IsMap(i, Nat, LocalIdentities)
              /\ ai \in Nat \cup {None}
              /\ IsMap(a, Nat, PaymentAccounts)
              /\ aa \in Nat \cup {None}
  BY DEF IsProfile, Fields

LEMMA ProfileIsFields ==
    ASSUME NEW p, IsProfile(p)
    PROVE  p = Fields(p.identities, p.active_identity_id,
                      p.payment_accounts, p.active_payment_account_id)
  BY DEF IsProfile, Fields

LEMMA AddIdentityFields ==
    ASSUME NEW i, NEW ai, NEW a, NEW aa, NEW id, NEW identity
    PROVE  AddIdentity(Fields(i, ai, a, aa), id, identity)
               = Fields(Put(i, id, identity), IF ai = None THEN id ELSE ai, a, aa)
  <1>1. AddIdentity(Fields(i, ai, a, aa), id, identity)
          = [[Fields(i, ai, a, aa) EXCEPT !.identities = Put(@, id, identity)]
                EXCEPT !.active_identity_id = IF @ = None THEN id ELSE @]
    BY DEF AddIdentity, Fields
  <1>2. [Fields(i, ai, a, aa) EXCEPT !.identities = Put(@, id, identity)]
          = Fields(Put(i, id, identity), ai, a, aa)
    BY DEF Fields
  <1>3. [Fields(Put(i, id, identity), ai, a, aa)
            EXCEPT !.active_identity_id = IF @ = None THEN id ELSE @]
          = Fields(Put(i, id, identity), IF ai = None THEN id ELSE ai, a, aa)
    BY DEF Fields
  <1> QED
    BY <1>1, <1>2, <1>3

LEMMA AddPaymentAccountFields ==
    ASSUME NEW i, NEW ai, NEW a, NEW aa, NEW id, NEW account
    PROVE  AddPaymentAccount(Fields(i, ai, a, aa), id, account)
               = Fields(i, ai, Put(a, id, account), IF aa = None THEN id ELSE aa)
  <1>1. AddPaymentAccount(Fields(i, ai, a, aa), id, account)
          = [[Fields(i, ai, a, aa) EXCEPT !.payment_accounts = Put(@, id, account)]
                EXCEPT !.active_payment_account_id = IF @ = None THEN id ELSE @]
    BY DEF AddPaymentAccount, Fields
  <1>2. [Fields(i, ai, a, aa) EXCEPT !.payment_accounts = Put(@, id, account)]
          = Fields(i, ai, Put(a, id, account), aa)
    BY DEF Fields
  <1>3. [Fields(i, ai, Put(a, id, account), aa)
            EXCEPT !.active_payment_account_id = IF @ = None THEN id ELSE @]
          = Fields(i, ai, Put(a, id, account), IF aa = None THEN id ELSE aa)
    BY DEF Fields
  <1> QED
    BY <1>1, <1>2, <1>3

LEMMA AddIdentityIsProfile ==
    ASSUME NEW p, IsProfile(p), NEW id \in Nat, NEW identity \in LocalIdentities
    PROVE  /\ IsProfile(AddIdentity(p, id, identity))
           /\ AddIdentity(p, id, identity).identities
                  = Put(p.identities, id, identity)
           /\ AddIdentity(p, id, identity).payment_accounts = p.payment_accounts
  <1>1. IsMap(Put(p.identities, id, identity), Nat, LocalIdentities)
    BY PutIsMap DEF IsProfile
  <1>2. AddIdentity(p, id, identity)
          = Fields(Put(p.identities, id, identity),
                   IF p.active_identity_id = None THEN id ELSE p.active_identity_id,
                   p.payment_accounts, p.active_payment_account_id)
    BY ProfileIsFields, AddIdentityFields
  <1>3. IsProfile(AddIdentity(p, id, identity))
    BY <1>1, <1>2, ProfileFields DEF IsProfile
  <1> QED
    BY <1>2, <1>3 DEF Fields

LEMMA AddPaymentAccountIsProfile ==
    ASSUME NEW p, IsProfile(p), NEW id \in Nat, NEW account \in PaymentAccounts
    PROVE  /\ IsProfile(AddPaymentAccount(p, id, account))
           /\ AddPaymentAccount(p, id, account).identities = p.identities
           /\ AddPaymentAccount(p, id, account).payment_accounts
                  = Put(p.payment_accounts, id, account)
  <1>1. IsMap(Put(p.payment_accounts, id, account), Nat, PaymentAccounts)
    BY PutIsMap DEF IsProfile
  <1>2. AddPaymentAccount(p, id, account)
          = Fields(p.identities, p.active_identity_id,
                   Put(p.payment_accounts, id, account),
                   IF p.active_payment_account_id = None
                   THEN id ELSE p.active_payment_account_id)
    BY ProfileIsFields, AddPaymentAccountFields
  <1>3. IsProfile(AddPaymentAccount(p, id, account))
    BY <1>1, <1>2, ProfileFields DEF IsProfile
  <1> QED
    BY <1>2, <1>3 DEF Fields

LEMMA SelectionIsProfile ==
    ASSUME NEW p, IsProfile(p), NEW id \in Nat
    PROVE  /\ IsProfile(SetActiveIdentityId(p, id))
           /\ References(SetActiveIdentityId(p, id)) = References(p)
           /\ IsProfile(SetActivePaymentAccountId(p, id))
           /\ References(SetActivePaymentAccountId(p, id)) = References(p)
  BY DEF SetActiveIdentityId, SetActivePaymentAccountId, IsProfile, References

LEMMA RotateIdentityIsProfile ==
    ASSUME NEW p, IsProfile(p), NEW from \in DOMAIN p.identities,
           NEW id \in Nat, NEW identity \in LocalIdentities
    PROVE  LET q == RotateIdentity(p, from, id, identity)
               retired == [p.identities[from] EXCEPT !.status = "rotated"]
               replacement == [identity EXCEPT !.rotated_from = from]
           IN /\ IsProfile(q)
              /\ q.identities = Put(Put(p.identities, from, retired), id, replacement)
              /\ q.payment_accounts = p.payment_accounts
  <1> DEFINE retired == [p.identities[from] EXCEPT !.status = "rotated"]
             replacement == [identity EXCEPT !.rotated_from = from]
             half == [p EXCEPT !.identities =
                         Put(@, from, [@[from] EXCEPT !.status = "rotated"])]
             both == AddIdentity(half, id, replacement)
  <1>1. from \in Nat /\ p.identities[from] \in LocalIdentities
    BY DEF IsProfile, IsMap
  <1>2. retired \in LocalIdentities /\ replacement \in LocalIdentities
    BY <1>1 DEF LocalIdentities, IdentityStatus
  <1>3. IsMap(Put(p.identities, from, retired), Nat, LocalIdentities)
    BY <1>1, <1>2, PutIsMap DEF IsProfile
  <1>4. half = Fields(Put(p.identities, from, retired), p.active_identity_id,
                      p.payment_accounts, p.active_payment_account_id)
    BY DEF IsProfile, Fields
  <1>5. /\ IsProfile(half)
        /\ half.identities = Put(p.identities, from, retired)
        /\ half.payment_accounts = p.payment_accounts
    <2>1. IsProfile(half)
      BY <1>3, <1>4, ProfileFields DEF IsProfile
    <2> QED
      BY <2>1, <1>4 DEF Fields
  <1> HIDE DEF half, replacement, retired
  <1>6. /\ IsProfile(both)
        /\ both.identities = Put(half.identities, id, replacement)
        /\ both.payment_accounts = half.payment_accounts
    BY <1>2, <1>5, AddIdentityIsProfile
  <1> HIDE DEF both
  <1>7. RotateIdentity(p, from, id, identity) = [both EXCEPT !.active_identity_id = id]
    BY DEF RotateIdentity, both, half, replacement
  <1>8. IsProfile([both EXCEPT !.active_identity_id = id])
    BY <1>6 DEF IsProfile
  <1>9. /\ [both EXCEPT !.active_identity_id = id].identities = both.identities
        /\ [both EXCEPT !.active_identity_id = id].payment_accounts
              = both.payment_accounts
    BY <1>6 DEF IsProfile
  <1> QED
    BY <1>5, <1>6, <1>7, <1>8, <1>9 DEF retired, replacement

\* Adding a record adds its key handle to what the profile refers to, and
\* nothing else.
LEMMA IdentityReferences ==
    ASSUME NEW p, NEW q, NEW id, NEW identity,
           q.identities = Put(p.identities, id, identity),
           q.payment_accounts = p.payment_accounts
    PROVE  References(q) \subseteq References(p) \cup {identity.key_handle}
  BY DEF References, IsKeyControlled, Put

LEMMA AccountReferences ==
    ASSUME NEW p, NEW q, NEW id, NEW account,
           q.identities = p.identities,
           q.payment_accounts = Put(p.payment_accounts, id, account)
    PROVE  References(q) \subseteq References(p) \cup ({account.key_handle} \ {None})
  BY DEF References, IsKeyControlled, Put

LEMMA RegisteredIsProfile ==
    ASSUME NEW p, IsProfile(p),
           NEW c \in Calls, c.kind # "other", c.id \in Nat,
           c.from # None => c.from \in DOMAIN p.identities,
           NEW record \in KeyRecords
    PROVE  /\ IsProfile(Registered(p, c, record))
           /\ References(Registered(p, c, record)) \subseteq References(p) \cup {c.id}
  <1> DEFINE identity == NewIdentity(c.id, DidOf(record))
             account == NewPaymentAccount(c.id, AddressOf(record))
  <1>1. identity \in LocalIdentities /\ identity.key_handle = c.id
    BY DEF NewIdentity, LocalIdentities, Dids, DidOf, PublicKey, KeyRecords,
           IdentityStatus
  <1>2. account \in PaymentAccounts /\ account.key_handle = c.id
    BY DEF NewPaymentAccount, PaymentAccounts, Addresses, AddressOf, KeyRecords,
           PaymentAccountStatus
  <1> HIDE DEF identity, account
  <1>3. CASE c.kind = "account"
    <2>1. Registered(p, c, record) = AddPaymentAccount(p, c.id, account)
      BY <1>3 DEF Registered, account
    <2> DEFINE q == AddPaymentAccount(p, c.id, account)
    <2>2. /\ IsProfile(q)
          /\ q.identities = p.identities
          /\ q.payment_accounts = Put(p.payment_accounts, c.id, account)
      BY <1>2, AddPaymentAccountIsProfile
    <2> HIDE DEF q
    <2>3. References(q) \subseteq References(p) \cup ({account.key_handle} \ {None})
      BY <2>2, AccountReferences
    <2> QED
      BY <1>2, <2>1, <2>2, <2>3 DEF q
  <1>4. CASE c.kind = "identity" /\ c.from = None
    <2>1. Registered(p, c, record) = AddIdentity(p, c.id, identity)
      BY <1>4 DEF Registered, identity
    <2> DEFINE q == AddIdentity(p, c.id, identity)
    <2>2. /\ IsProfile(q)
          /\ q.identities = Put(p.identities, c.id, identity)
          /\ q.payment_accounts = p.payment_accounts
      BY <1>1, AddIdentityIsProfile
    <2> HIDE DEF q
    <2>3. References(q) \subseteq References(p) \cup {identity.key_handle}
      BY <2>2, IdentityReferences
    <2> QED
      BY <1>1, <2>1, <2>2, <2>3 DEF q
  <1>5. CASE c.kind = "identity" /\ c.from # None
    <2> DEFINE q == RotateIdentity(p, c.from, c.id, identity)
               retired == [p.identities[c.from] EXCEPT !.status = "rotated"]
               replacement == [identity EXCEPT !.rotated_from = c.from]
               half == [identities |-> Put(p.identities, c.from, retired),
                        payment_accounts |-> p.payment_accounts]
    <2>1. Registered(p, c, record) = q
      BY <1>5 DEF Registered, identity
    <2>2. /\ IsProfile(q)
          /\ q.identities = Put(half.identities, c.id, replacement)
          /\ q.payment_accounts = half.payment_accounts
      BY <1>1, <1>5, RotateIdentityIsProfile
    <2>3. p.identities[c.from] \in LocalIdentities
      BY <1>5 DEF IsProfile, IsMap
    <2>4. /\ retired.key_handle = p.identities[c.from].key_handle
          /\ replacement.key_handle = c.id
      BY <1>1, <2>3 DEF LocalIdentities
    <2>5. retired.key_handle \in References(p)
      BY <1>5, <2>4 DEF References
    <2> HIDE DEF q, retired, replacement
    <2>6. /\ half.identities = Put(p.identities, c.from, retired)
          /\ half.payment_accounts = p.payment_accounts
      OBVIOUS
    <2> HIDE DEF half
    <2>7. References(half) \subseteq References(p) \cup {retired.key_handle}
      BY <2>6, IdentityReferences
    <2>8. References(q) \subseteq References(half) \cup {replacement.key_handle}
      BY <2>2, IdentityReferences
    <2> QED
      BY <2>1, <2>2, <2>4, <2>5, <2>7, <2>8
  <1> QED
    BY <1>3, <1>4, <1>5 DEF Calls

-----------------------------------------------------------------------------
(* Type correctness.                                                       *)

LEMMA InitType == Init => TypeInv
  BY BlankDocuments
     DEF Init, TypeInv, TypeOK, PendingCall, Stages, Calls, Other, NoFile,
         IsFile, FileStates

\* Steps that make a key: the five calls share BeginKeyCall.
LEMMA KeyCallType ==
    ASSUME TypeInv, NEW s \in Sessions,
           NEW kind \in {"identity", "account"},
           NEW from \in Nat \cup {None},
           from # None => from \in DOMAIN profile[s].identities,
           NEW algorithm \in Algorithms, NEW secret \in Secrets,
           BeginKeyCall(s, kind, from, algorithm, secret)
    PROVE  TypeInv'
  <1> DEFINE fresh == draws + 1
             record == [algorithm |-> algorithm, secret |-> secret]
  <1>1. fresh \in Nat /\ record \in KeyRecords
    BY DEF TypeInv, TypeOK, KeyRecords
  <1>2. /\ IsKeyMap(Put(keys[s], fresh, record))
        /\ fresh \in DOMAIN Put(keys[s], fresh, record)
    <2>1. IsMap(keys[s], Nat, KeyRecords)
      BY DEF TypeInv, TypeOK, IsKeyMap
    <2> HIDE DEF fresh, record
    <2>2. IsMap(Put(keys[s], fresh, record), Nat, KeyRecords)
      BY <1>1, <2>1, PutIsMap
    <2>3. DOMAIN Put(keys[s], fresh, record) = DOMAIN keys[s] \cup {fresh}
      BY DEF Put
    <2> QED
      BY <2>2, <2>3 DEF IsKeyMap
  <1>3. /\ keys' = [keys EXCEPT ![s] = Put(keys[s], fresh, record)]
        /\ call' = [call EXCEPT ![s] = [kind |-> kind, id |-> fresh, from |-> from]]
        /\ stage' = [stage EXCEPT ![s] = IF FileBacked THEN "flush" ELSE "flushed"]
        /\ draws' = fresh
        /\ UNCHANGED <<profile, keystore_file, metadata_file, acknowledged>>
    BY DEF BeginKeyCall, files
  <1> HIDE DEF record
  <1>4. TypeOK'
    BY <1>1, <1>2, <1>3 DEF TypeInv, TypeOK, Calls, Stages
  <1>5. ASSUME NEW t \in Sessions PROVE PendingCall(t)'
    BY <1>2, <1>3 DEF TypeInv, TypeOK, PendingCall, Other
  <1> QED
    BY <1>4, <1>5 DEF TypeInv

LEMMA RegisterType ==
    ASSUME TypeInv, NEW s \in Sessions, Register(s)
    PROVE  TypeInv'
  <1>1. /\ IsProfile(profile[s]) /\ call[s] \in Calls /\ PendingCall(s)
        /\ stage[s] = "flushed" /\ IsKeyMap(keys[s])
    BY DEF TypeInv, TypeOK, Register
  <1>2. keys[s][call[s].id] \in KeyRecords /\ call[s].id \in Nat
    BY <1>1 DEF PendingCall, IsKeyMap, IsMap
  <1>3. IsProfile(Registered(profile[s], call[s], keys[s][call[s].id]))
    BY <1>1, <1>2, RegisteredIsProfile DEF PendingCall
  <1>4. TypeOK'
    BY <1>3 DEF TypeInv, TypeOK, Register, files, Stages
  <1>5. ASSUME NEW t \in Sessions PROVE PendingCall(t)'
    BY DEF TypeInv, TypeOK, PendingCall, Register, files
  <1> QED
    BY <1>4, <1>5 DEF TypeInv

\* Steps that change the profile and go on to save it.
LEMMA BeginSaveType ==
    ASSUME TypeInv, NEW s \in Sessions, NEW c \in Calls, NEW p, IsProfile(p),
           BeginSave(s, c, p), draws' \in Nat
    PROVE  TypeInv'
  <1>1. TypeOK'
    BY DEF TypeInv, TypeOK, BeginSave, files, Stages
  <1>2. ASSUME NEW t \in Sessions PROVE PendingCall(t)'
    BY DEF TypeInv, TypeOK, PendingCall, BeginSave, files
  <1> QED
    BY <1>1, <1>2 DEF TypeInv

LEMMA FileOutcomes ==
    ASSUME NEW file, NEW document, IsFile(file)
    PROVE  /\ IsFile(Truncated(file))
           /\ Truncated(file).state = "empty" /\ Truncated(file).value = file.value
           /\ \A g \in WriteOutcomes(file, document) :
                 IsFile(g) /\ g.value \in {document, file.value}
           /\ file.state = "empty" =>
                 \A g \in WriteOutcomes(file, document) : g.value = document
           /\ \A g \in InterruptedOutcomes(file) : IsFile(g) /\ g.value = file.value
  BY DEF IsFile, Truncated, Torn, Intact, WriteOutcomes, InterruptedOutcomes, FileStates

LEMMA StepType ==
    ASSUME TypeInv, [Next]_vars
    PROVE  TypeInv'
  <1> USE DEF TypeInv
  <1>1. CASE UNCHANGED vars
    BY <1>1 DEF TypeOK, PendingCall, vars
  <1>2. ASSUME NEW s \in Sessions, Step(s)
        PROVE  TypeInv'
    <2>1. CASE Open(s)
      <3>1. TypeOK'
        BY <2>1, BlankDocuments DEF Open, files, TypeOK, Stages
      <3>2. ASSUME NEW t \in Sessions PROVE PendingCall(t)'
        BY <2>1 DEF Open, files, TypeOK, PendingCall
      <3> QED BY <3>1, <3>2
    <2>2. CASE LoadOrCreateProfile(s)
      <3>1. TypeOK'
        BY <2>2, BlankDocuments DEF LoadOrCreateProfile, files, TypeOK, Stages
      <3>2. ASSUME NEW t \in Sessions PROVE PendingCall(t)'
        BY <2>2 DEF LoadOrCreateProfile, files, TypeOK, PendingCall
      <3> QED BY <3>1, <3>2
    <2>3. CASE Close(s)
      <3>1. /\ IsFile(keystore_file') /\ keystore_file'.value = keystore_file.value
            /\ IsFile(metadata_file') /\ metadata_file'.value = metadata_file.value
        BY <2>3, FileOutcomes DEF Close, TypeOK
      <3>2. TypeOK'
        BY <2>3, <3>1, BlankDocuments DEF Close, TypeOK, Stages, Calls, Other
      <3>3. ASSUME NEW t \in Sessions PROVE PendingCall(t)'
        BY <2>3 DEF Close, TypeOK, PendingCall
      <3> QED BY <3>2, <3>3
    <2>4. CASE CreateIdentity(s)
      <3>1. BeginKeyCall(s, "identity", None, "ed25519", draws + 1)
        BY <2>4 DEF CreateIdentity
      <3>2. draws + 1 \in Secrets /\ "ed25519" \in Algorithms
        BY DEF TypeOK, Secrets, Algorithms
      <3> QED BY <3>1, <3>2, KeyCallType
    <2>5. CASE ImportIdentity(s)
      <3>1. PICK seed \in Seeds : BeginKeyCall(s, "identity", None, "ed25519", seed)
        BY <2>5 DEF ImportIdentity
      <3>2. seed \in Secrets /\ "ed25519" \in Algorithms
        BY DEF Secrets, Algorithms
      <3> QED BY <3>1, <3>2, KeyCallType
    <2>6. CASE RotateActiveIdentity(s)
      <3> DEFINE from == ActiveIdentity(profile[s]).value
      <3>1. BeginKeyCall(s, "identity", from, "ed25519", draws + 1)
        BY <2>6 DEF RotateActiveIdentity
      <3>2. from \in DOMAIN profile[s].identities
        BY <2>6 DEF RotateActiveIdentity, ActiveIdentity, Ok, Err
      <3>3. from \in Nat
        BY <3>2 DEF TypeOK, IsProfile, IsMap
      <3>4. draws + 1 \in Secrets /\ "ed25519" \in Algorithms
        BY DEF TypeOK, Secrets, Algorithms
      <3> HIDE DEF from
      <3> QED BY <3>1, <3>2, <3>3, <3>4, KeyCallType
    <2>7. CASE CreatePaymentAccount(s)
      <3>1. BeginKeyCall(s, "account", None, "secp256k1", draws + 1)
        BY <2>7 DEF CreatePaymentAccount
      <3>2. draws + 1 \in Secrets /\ "secp256k1" \in Algorithms
        BY DEF TypeOK, Secrets, Algorithms
      <3> QED BY <3>1, <3>2, KeyCallType
    <2>8. CASE ImportPaymentAccount(s)
      <3>1. PICK seed \in Seeds : BeginKeyCall(s, "account", None, "secp256k1", seed)
        BY <2>8 DEF ImportPaymentAccount
      <3>2. seed \in Secrets /\ "secp256k1" \in Algorithms
        BY DEF Secrets, Algorithms
      <3> QED BY <3>1, <3>2, KeyCallType
    <2>9. CASE Register(s)
      BY <2>9, RegisterType
    <2>10. CASE RegisterWatchPaymentAccount(s)
      <3> DEFINE c == [kind |-> "account", id |-> draws + 1, from |-> None]
                 Added(address) == AddPaymentAccount(profile[s], draws + 1,
                                       NewPaymentAccount(None, address))
      <3>1. PICK address \in WatchAddresses : BeginSave(s, c, Added(address))
        BY <2>10 DEF RegisterWatchPaymentAccount
      <3>2. draws + 1 \in Nat /\ c \in Calls /\ draws' \in Nat
        BY <2>10 DEF RegisterWatchPaymentAccount, TypeOK, Calls
      <3>3. NewPaymentAccount(None, address) \in PaymentAccounts
        BY DEF NewPaymentAccount, PaymentAccounts, Addresses, PaymentAccountStatus
      <3>4. IsProfile(Added(address))
        BY <3>2, <3>3, AddPaymentAccountIsProfile DEF TypeOK
      <3> HIDE DEF c, Added
      <3> QED BY <3>1, <3>2, <3>4, BeginSaveType
    <2>11. CASE SetActiveIdentity(s)
      <3>1. PICK id \in DOMAIN profile[s].identities :
               BeginSave(s, Other, SetActiveIdentityId(profile[s], id))
        BY <2>11 DEF SetActiveIdentity
      <3>2. id \in Nat /\ IsProfile(profile[s])
        BY DEF TypeOK, IsProfile, IsMap
      <3>3. Other \in Calls /\ draws' \in Nat
        BY <2>11 DEF SetActiveIdentity, TypeOK, Calls, Other
      <3>4. IsProfile(SetActiveIdentityId(profile[s], id))
        BY <3>2, SelectionIsProfile
      <3> QED BY <3>1, <3>3, <3>4, BeginSaveType
    <2>12. CASE SetActivePaymentAccount(s)
      <3>1. PICK id \in DOMAIN profile[s].payment_accounts :
               BeginSave(s, Other, SetActivePaymentAccountId(profile[s], id))
        BY <2>12 DEF SetActivePaymentAccount
      <3>2. id \in Nat /\ IsProfile(profile[s])
        BY DEF TypeOK, IsProfile, IsMap
      <3>3. Other \in Calls /\ draws' \in Nat
        BY <2>12 DEF SetActivePaymentAccount, TypeOK, Calls, Other
      <3>4. IsProfile(SetActivePaymentAccountId(profile[s], id))
        BY <3>2, SelectionIsProfile
      <3> QED BY <3>1, <3>3, <3>4, BeginSaveType
    <2>13. CASE SaveProfile(s)
      <3>1. BeginSave(s, Other, profile[s])
        BY <2>13 DEF SaveProfile
      <3>2. Other \in Calls /\ draws' \in Nat /\ IsProfile(profile[s])
        BY <2>13 DEF SaveProfile, TypeOK, Calls, Other
      <3> QED BY <3>1, <3>2, BeginSaveType
    <2>14. CASE FlushKeyStore(s)
      <3>1. TypeOK'
        BY <2>14 DEF FlushKeyStore, files, TypeOK, Stages
      <3>2. ASSUME NEW t \in Sessions PROVE PendingCall(t)'
        BY <2>14 DEF FlushKeyStore, files, TypeOK, PendingCall
      <3> QED BY <3>1, <3>2
    <2>15. CASE FlushTruncate(s)
      <3>1. IsFile(keystore_file') /\ keystore_file'.value = keystore_file.value
        BY <2>15, FileOutcomes DEF FlushTruncate, TypeOK
      <3>2. TypeOK'
        BY <2>15, <3>1 DEF FlushTruncate, TypeOK, Stages
      <3>3. ASSUME NEW t \in Sessions PROVE PendingCall(t)'
        BY <2>15 DEF FlushTruncate, TypeOK, PendingCall
      <3> QED BY <3>2, <3>3
    <2>16. CASE FlushWrite(s)
      <3>1. /\ IsFile(keystore_file')
            /\ keystore_file'.value \in {keys[s], keystore_file.value}
        BY <2>16, FileOutcomes DEF FlushWrite, TypeOK
      <3>2. TypeOK'
        BY <2>16, <3>1 DEF FlushWrite, TypeOK, Stages
      <3>3. ASSUME NEW t \in Sessions PROVE PendingCall(t)'
        BY <2>16 DEF FlushWrite, TypeOK, PendingCall
      <3> QED BY <3>2, <3>3
    <2>17. CASE FlushFail(s)
      <3>1. IsFile(keystore_file') /\ keystore_file'.value = keystore_file.value
        BY <2>17, FileOutcomes DEF FlushFail, TypeOK
      <3>2. TypeOK'
        BY <2>17, <3>1 DEF FlushFail, TypeOK, Stages, Calls, Other
      <3>3. ASSUME NEW t \in Sessions PROVE PendingCall(t)'
        BY <2>17 DEF FlushFail, TypeOK, PendingCall
      <3> QED BY <3>2, <3>3
    <2>18. CASE SaveTruncate(s)
      <3>1. IsFile(metadata_file') /\ metadata_file'.value = metadata_file.value
        BY <2>18, FileOutcomes DEF SaveTruncate, TypeOK
      <3>2. TypeOK'
        BY <2>18, <3>1 DEF SaveTruncate, TypeOK, Stages
      <3>3. ASSUME NEW t \in Sessions PROVE PendingCall(t)'
        BY <2>18 DEF SaveTruncate, TypeOK, PendingCall
      <3> QED BY <3>2, <3>3
    <2>19. CASE SaveWrite(s)
      <3>1. /\ IsFile(metadata_file')
            /\ metadata_file'.value \in {profile[s], metadata_file.value}
        BY <2>19, FileOutcomes DEF SaveWrite, TypeOK
      <3>2. TypeOK'
        BY <2>19, <3>1 DEF SaveWrite, TypeOK, Stages, Calls, Other
      <3>3. ASSUME NEW t \in Sessions PROVE PendingCall(t)'
        BY <2>19 DEF SaveWrite, TypeOK, PendingCall
      <3> QED BY <3>2, <3>3
    <2>20. CASE SaveFail(s)
      <3>1. IsFile(metadata_file') /\ metadata_file'.value = metadata_file.value
        BY <2>20, FileOutcomes DEF SaveFail, TypeOK
      <3>2. TypeOK'
        BY <2>20, <3>1 DEF SaveFail, TypeOK, Stages, Calls, Other
      <3>3. ASSUME NEW t \in Sessions PROVE PendingCall(t)'
        BY <2>20 DEF SaveFail, TypeOK, PendingCall
      <3> QED BY <3>2, <3>3
    <2> QED
      BY <1>2, <2>1, <2>2, <2>3, <2>4, <2>5, <2>6, <2>7, <2>8, <2>9, <2>10,
         <2>11, <2>12, <2>13, <2>14, <2>15, <2>16, <2>17, <2>18, <2>19, <2>20
         DEF Step
  <1> QED
    BY <1>1, <1>2 DEF Next

\* The variables keep their types, however many sessions overlap and wherever
\* they fail or stop.
THEOREM TypeCorrect == Spec => []TypeOK
  <1>1. TypeInv => TypeOK
    BY DEF TypeInv
  <1> QED
    BY InitType, StepType, <1>1, PTL DEF Spec

-----------------------------------------------------------------------------
(* Which variables a session's step leaves alone.                          *)

\* What other sessions have in memory.
LEMMA OwnState ==
    ASSUME TypeOK, NEW s \in Sessions, Step(s), NEW t \in Sessions, t # s
    PROVE  /\ stage'[t] = stage[t] /\ keys'[t] = keys[t]
           /\ profile'[t] = profile[t] /\ call'[t] = call[t]
  <1>1. CASE Open(s) \/ LoadOrCreateProfile(s) \/ Close(s) \/ Register(s)
    BY <1>1 DEF TypeOK, Open, LoadOrCreateProfile, Close, Register
  <1>2. CASE \/ FlushKeyStore(s) \/ FlushTruncate(s) \/ FlushWrite(s) \/ FlushFail(s)
             \/ SaveTruncate(s) \/ SaveWrite(s) \/ SaveFail(s)
    BY <1>2 DEF TypeOK, FlushKeyStore, FlushTruncate, FlushWrite, FlushFail,
                SaveTruncate, SaveWrite, SaveFail
  <1>3. ASSUME NEW kind, NEW from, NEW algorithm, NEW secret,
               BeginKeyCall(s, kind, from, algorithm, secret)
        PROVE  /\ stage'[t] = stage[t] /\ keys'[t] = keys[t]
               /\ profile'[t] = profile[t] /\ call'[t] = call[t]
    BY <1>3 DEF TypeOK, BeginKeyCall
  <1>4. ASSUME NEW c, NEW p, BeginSave(s, c, p)
        PROVE  /\ stage'[t] = stage[t] /\ keys'[t] = keys[t]
               /\ profile'[t] = profile[t] /\ call'[t] = call[t]
    BY <1>4 DEF TypeOK, BeginSave
  <1> QED
    BY <1>1, <1>2, <1>3, <1>4
       DEF Step, CreateIdentity, ImportIdentity, RotateActiveIdentity,
           CreatePaymentAccount, ImportPaymentAccount, RegisterWatchPaymentAccount,
           SetActiveIdentity, SetActivePaymentAccount, SaveProfile

\* Files that no call is writing.
LEMMA OwnFile ==
    ASSUME NEW s \in Sessions, Step(s)
    PROVE  /\ keystore_file' # keystore_file => stage[s] \in {"flush", "flushing"}
           /\ metadata_file' # metadata_file => stage[s] \in {"save", "saving"}
  <1>1. CASE Open(s) \/ LoadOrCreateProfile(s) \/ Close(s) \/ Register(s)
    BY <1>1 DEF Open, LoadOrCreateProfile, Close, Register, files
  <1>2. CASE \/ FlushKeyStore(s) \/ FlushTruncate(s) \/ FlushWrite(s) \/ FlushFail(s)
             \/ SaveTruncate(s) \/ SaveWrite(s) \/ SaveFail(s)
    BY <1>2 DEF FlushKeyStore, FlushTruncate, FlushWrite, FlushFail,
                SaveTruncate, SaveWrite, SaveFail, files
  <1>3. ASSUME NEW kind, NEW from, NEW algorithm, NEW secret,
               BeginKeyCall(s, kind, from, algorithm, secret)
        PROVE  keystore_file' = keystore_file /\ metadata_file' = metadata_file
    BY <1>3 DEF BeginKeyCall, files
  <1>4. ASSUME NEW c, NEW p, BeginSave(s, c, p)
        PROVE  keystore_file' = keystore_file /\ metadata_file' = metadata_file
    BY <1>4 DEF BeginSave, files
  <1> QED
    BY <1>1, <1>2, <1>3, <1>4
       DEF Step, CreateIdentity, ImportIdentity, RotateActiveIdentity,
           CreatePaymentAccount, ImportPaymentAccount, RegisterWatchPaymentAccount,
           SetActiveIdentity, SetActivePaymentAccount, SaveProfile

\* All documents but the two that are being written stay.
LEMMA WhoWrites ==
    ASSUME TypeOK, NEW s \in Sessions, Step(s)
    PROVE  /\ ~FlushWrite(s) => keystore_file'.value = keystore_file.value
           /\ ~SaveWrite(s) => metadata_file'.value = metadata_file.value
  <1>1. CASE \/ Open(s) \/ LoadOrCreateProfile(s) \/ FlushKeyStore(s) \/ Register(s)
    BY <1>1 DEF Open, LoadOrCreateProfile, FlushKeyStore, Register, files
  <1>2. CASE \/ CreateIdentity(s) \/ ImportIdentity(s) \/ RotateActiveIdentity(s)
             \/ CreatePaymentAccount(s) \/ ImportPaymentAccount(s)
    BY <1>2 DEF CreateIdentity, ImportIdentity, RotateActiveIdentity,
                CreatePaymentAccount, ImportPaymentAccount, BeginKeyCall, files
  <1>3. CASE \/ RegisterWatchPaymentAccount(s) \/ SetActiveIdentity(s)
             \/ SetActivePaymentAccount(s) \/ SaveProfile(s)
    BY <1>3 DEF RegisterWatchPaymentAccount, SetActiveIdentity,
                SetActivePaymentAccount, SaveProfile, BeginSave, files
  <1>4. CASE Close(s)
    BY <1>4, FileOutcomes DEF Close, TypeOK
  <1>5. CASE FlushTruncate(s) \/ FlushFail(s)
    BY <1>5, FileOutcomes DEF FlushTruncate, FlushFail, TypeOK
  <1>6. CASE SaveTruncate(s) \/ SaveFail(s)
    BY <1>6, FileOutcomes DEF SaveTruncate, SaveFail, TypeOK
  <1>7. CASE FlushWrite(s)
    BY <1>7 DEF FlushWrite
  <1>8. CASE SaveWrite(s)
    BY <1>8 DEF SaveWrite
  <1> QED
    BY <1>1, <1>2, <1>3, <1>4, <1>5, <1>6, <1>7, <1>8 DEF Step

-----------------------------------------------------------------------------
(* Key custody.  M is a set of sessions that take turns, and nobody else   *)
(* writes keystore.json: all sessions, where one is open at a time, or the *)
(* processes of the tool that make keys.                                   *)

OnlyFlush(M) ==
    \A s \in Sessions : stage[s] \in {"flush", "flushing", "flushed"} => s \in M

\* What the session may write to keystore.json has every key that is there;
\* what any session will write to metadata.json refers to keys that are there
\* already.  Nobody writes between a session's truncating keystore.json and its
\* writing it, and with the write done the new key is in the file.
SessionCustody(s, M) ==
    /\ stage[s] # "closed" /\ s \in M =>
          DOMAIN keystore_file.value \subseteq DOMAIN keys[s]
    /\ stage[s] \notin {"closed", "opened"} =>
          References(profile[s]) \subseteq DOMAIN keystore_file.value
    /\ stage[s] = "flushing" => keystore_file.state = "empty"
    /\ stage[s] = "flushed" => call[s].id \in DOMAIN keystore_file.value

CustodyInv(M) ==
    /\ TypeInv
    /\ KeyCustody
    /\ \A s \in Sessions : SessionCustody(s, M)

LEMMA InitCustody ==
    ASSUME NEW M, Init
    PROVE  CustodyInv(M)
  <1>1. TypeInv
    BY InitType
  <1>2. KeyCustody
    BY BlankDocuments DEF Init, NoFile, KeyCustody
  <1>3. ASSUME NEW s \in Sessions PROVE SessionCustody(s, M)
    BY DEF Init, SessionCustody
  <1> QED
    BY <1>1, <1>2, <1>3 DEF CustodyInv

\* A step that leaves both files' documents alone keeps KeyCustody.
LEMMA SameDocuments ==
    ASSUME KeyCustody, keystore_file'.value = keystore_file.value,
           metadata_file'.value = metadata_file.value
    PROVE  KeyCustody'
  BY DEF KeyCustody

\* A session that takes no step keeps its custody: what keystore.json has it
\* keeps, and only a session of M, while no other is open, touches the file.
LEMMA OtherCustody ==
    ASSUME NEW M, TakeTurns(M), OnlyFlush(M), TypeOK,
           NEW s \in Sessions, Step(s),
           NEW t \in Sessions, t # s, SessionCustody(t, M),
           DOMAIN keystore_file.value \subseteq DOMAIN keystore_file'.value
    PROVE  SessionCustody(t, M)'
  <1>1. /\ stage'[t] = stage[t] /\ keys'[t] = keys[t]
        /\ profile'[t] = profile[t] /\ call'[t] = call[t]
    BY OwnState
  <1>2. CASE keystore_file' = keystore_file
    BY <1>1, <1>2 DEF SessionCustody
  <1>3. CASE keystore_file' # keystore_file
    <2>1. s \in M /\ stage[s] # "closed"
      BY <1>3, OwnFile DEF OnlyFlush
    <2>2. stage[t] = "closed" \/ t \notin M
      BY <2>1 DEF TakeTurns
    <2>3. stage[t] \notin {"flushing", "flushed"}
      BY <2>2 DEF OnlyFlush
    <2> QED BY <1>1, <2>2, <2>3 DEF SessionCustody
  <1> QED BY <1>2, <1>3

LEMMA StepCustody ==
    ASSUME FileBacked, NEW M, TakeTurns(M), OnlyFlush(M), CustodyInv(M),
           [Next]_vars
    PROVE  CustodyInv(M)'
  <1>1. TypeInv /\ TypeInv' /\ TypeOK
    BY StepType DEF CustodyInv, TypeInv
  <1>2. KeyCustody /\ \A t \in Sessions : SessionCustody(t, M)
    BY DEF CustodyInv
  <1>3. CASE UNCHANGED vars
    <2>1. KeyCustody'
      BY <1>2, <1>3 DEF KeyCustody, vars
    <2>2. \A t \in Sessions : SessionCustody(t, M)'
      BY <1>2, <1>3 DEF SessionCustody, vars
    <2> QED BY <1>1, <2>1, <2>2 DEF CustodyInv
  <1>4. ASSUME NEW s \in Sessions, Step(s)
        PROVE  CustodyInv(M)'
    <2>2. /\ SessionCustody(s, M) /\ PendingCall(s) /\ IsProfile(profile[s])
          /\ IsKeyMap(keys[s]) /\ call[s] \in Calls
      BY <1>1, <1>2 DEF TypeInv, TypeOK
    <2>1. DOMAIN keystore_file.value \subseteq DOMAIN keystore_file'.value
      <3>1. CASE FlushWrite(s)
        <4>1. s \in M /\ SessionCustody(s, M) /\ stage[s] = "flushing"
          BY <1>2, <3>1 DEF FlushWrite, OnlyFlush
        <4>2. keystore_file'.value \in {keys[s], keystore_file.value}
          BY <1>1, <3>1, FileOutcomes DEF FlushWrite, TypeOK
        <4> QED BY <4>1, <4>2 DEF SessionCustody
      <3>2. CASE ~FlushWrite(s)
        BY <1>1, <1>4, <3>2, WhoWrites
      <3> QED BY <3>1, <3>2
    <2>3. SUFFICES KeyCustody' /\ SessionCustody(s, M)'
      <3>1. ASSUME NEW t \in Sessions, t # s PROVE SessionCustody(t, M)'
        BY <1>1, <1>2, <1>4, <2>1, <3>1, OtherCustody
      <3> QED BY <1>1, <3>1 DEF CustodyInv
    <2>4. CASE Open(s)
      <3>1. KeyCustody'
        BY <2>4, <1>2, SameDocuments DEF Open, files
      <3>2. SessionCustody(s, M)'
        BY <2>4, <1>1 DEF Open, files, SessionCustody, TypeOK
      <3> QED BY <3>1, <3>2
    <2>5. CASE LoadOrCreateProfile(s)
      <3>1. KeyCustody'
        BY <2>5, <1>2, SameDocuments DEF LoadOrCreateProfile, files
      <3>2. References(profile'[s]) \subseteq DOMAIN keystore_file.value
        BY <2>5, <1>1, <1>2, BlankDocuments
           DEF LoadOrCreateProfile, KeyCustody, TypeOK
      <3>3. SessionCustody(s, M)'
        BY <2>5, <1>1, <2>2, <3>2
           DEF LoadOrCreateProfile, files, SessionCustody, TypeOK
      <3> QED BY <3>1, <3>3
    <2>6. CASE Close(s)
      <3>1. /\ keystore_file'.value = keystore_file.value
            /\ metadata_file'.value = metadata_file.value
        BY <2>6, <1>1, FileOutcomes DEF Close, TypeOK
      <3>2. KeyCustody'
        BY <3>1, <1>2, SameDocuments
      <3>3. SessionCustody(s, M)'
        BY <2>6, <1>1 DEF Close, SessionCustody, TypeOK
      <3> QED BY <3>2, <3>3
    <2>7. ASSUME NEW kind, NEW from, NEW algorithm, NEW secret,
                 BeginKeyCall(s, kind, from, algorithm, secret)
          PROVE  KeyCustody' /\ SessionCustody(s, M)'
      <3>1. KeyCustody'
        BY <2>7, <1>2, SameDocuments DEF BeginKeyCall, files
      <3>2. DOMAIN keys[s] \subseteq DOMAIN keys'[s] /\ stage'[s] = "flush"
        BY <2>7, <1>1 DEF BeginKeyCall, TypeOK, Put
      <3>3. SessionCustody(s, M)'
        BY <2>7, <2>2, <3>2 DEF BeginKeyCall, files, SessionCustody
      <3> QED BY <3>1, <3>3
    <2>8. CASE \/ CreateIdentity(s) \/ ImportIdentity(s) \/ RotateActiveIdentity(s)
               \/ CreatePaymentAccount(s) \/ ImportPaymentAccount(s)
      BY <2>7, <2>8 DEF CreateIdentity, ImportIdentity, RotateActiveIdentity,
                        CreatePaymentAccount, ImportPaymentAccount
    <2>9. CASE Register(s)
      <3>1. KeyCustody'
        BY <2>9, <1>2, SameDocuments DEF Register, files
      <3> DEFINE record == keys[s][call[s].id]
      <3>2. stage[s] = "flushed" /\ record \in KeyRecords /\ call[s].id \in Nat
        BY <2>9, <2>2 DEF Register, PendingCall, IsKeyMap, IsMap
      <3>3. profile'[s] = Registered(profile[s], call[s], record)
        BY <2>9, <1>1 DEF Register, TypeOK
      <3> HIDE DEF record
      <3>4. References(profile'[s]) \subseteq References(profile[s]) \cup {call[s].id}
        BY <2>2, <3>2, <3>3, RegisteredIsProfile DEF PendingCall
      <3>5. stage'[s] = "save"
        BY <2>9, <1>1 DEF Register, TypeOK
      <3>6. SessionCustody(s, M)'
        BY <2>9, <2>2, <3>2, <3>4, <3>5 DEF Register, files, SessionCustody
      <3> QED BY <3>1, <3>6
    <2>10. ASSUME NEW c, NEW p, References(p) \subseteq References(profile[s]),
                  BeginSave(s, c, p)
           PROVE  KeyCustody' /\ SessionCustody(s, M)'
      <3>1. KeyCustody'
        BY <2>10, <1>2, SameDocuments DEF BeginSave, files
      <3>2. profile'[s] = p /\ stage'[s] = "save"
        BY <2>10, <1>1 DEF BeginSave, TypeOK
      <3>3. SessionCustody(s, M)'
        BY <2>10, <2>2, <3>2 DEF BeginSave, files, SessionCustody
      <3> QED BY <3>1, <3>3
    <2>11. CASE RegisterWatchPaymentAccount(s)
      <3> DEFINE c == [kind |-> "account", id |-> draws + 1, from |-> None]
      <3>1. PICK address \in WatchAddresses :
               BeginSave(s, c, AddPaymentAccount(profile[s], draws + 1,
                                                 NewPaymentAccount(None, address)))
        BY <2>11 DEF RegisterWatchPaymentAccount
      <3> DEFINE account == NewPaymentAccount(None, address)
                 q == AddPaymentAccount(profile[s], draws + 1, account)
      <3>2. account \in PaymentAccounts /\ account.key_handle = None
        BY DEF NewPaymentAccount, PaymentAccounts, Addresses, PaymentAccountStatus
      <3>3. draws + 1 \in Nat
        BY <1>1 DEF TypeOK
      <3> HIDE DEF c, account
      <3>4. /\ q.identities = profile[s].identities
            /\ q.payment_accounts
                  = Put(profile[s].payment_accounts, draws + 1, account)
        BY <2>2, <3>2, <3>3, AddPaymentAccountIsProfile
      <3> HIDE DEF q
      <3>5. References(q) \subseteq References(profile[s]) \cup
                                        ({account.key_handle} \ {None})
        BY <3>4, AccountReferences
      <3>6. References(q) \subseteq References(profile[s])
        BY <3>2, <3>5
      <3>7. BeginSave(s, c, q)
        BY <3>1 DEF q, account
      <3> QED BY <2>10, <3>6, <3>7
    <2>12. CASE SetActiveIdentity(s)
      <3>1. PICK id \in DOMAIN profile[s].identities :
               BeginSave(s, Other, SetActiveIdentityId(profile[s], id))
        BY <2>12 DEF SetActiveIdentity
      <3>2. id \in Nat
        BY <2>2 DEF IsProfile, IsMap
      <3> QED BY <2>2, <2>10, <3>1, <3>2, SelectionIsProfile
    <2>13. CASE SetActivePaymentAccount(s)
      <3>1. PICK id \in DOMAIN profile[s].payment_accounts :
               BeginSave(s, Other, SetActivePaymentAccountId(profile[s], id))
        BY <2>13 DEF SetActivePaymentAccount
      <3>2. id \in Nat
        BY <2>2 DEF IsProfile, IsMap
      <3> QED BY <2>2, <2>10, <3>1, <3>2, SelectionIsProfile
    <2>14. CASE SaveProfile(s)
      BY <2>10, <2>14 DEF SaveProfile
    <2>15. CASE FlushKeyStore(s)
      <3>1. KeyCustody'
        BY <2>15, <1>2, SameDocuments DEF FlushKeyStore, files
      <3>2. SessionCustody(s, M)'
        BY <2>15, <1>1, <2>2 DEF FlushKeyStore, files, SessionCustody, TypeOK
      <3> QED BY <3>1, <3>2
    <2>16. CASE FlushTruncate(s)
      <3>1. keystore_file'.value = keystore_file.value /\ keystore_file'.state = "empty"
        BY <2>16, <1>1, FileOutcomes DEF FlushTruncate, TypeOK
      <3>2. KeyCustody'
        BY <2>16, <3>1, <1>2, SameDocuments DEF FlushTruncate
      <3>3. SessionCustody(s, M)'
        BY <2>16, <1>1, <2>2, <3>1 DEF FlushTruncate, SessionCustody, TypeOK
      <3> QED BY <3>2, <3>3
    <2>17. CASE FlushWrite(s)
      <3>1. keystore_file.state = "empty"
        BY <2>17, <2>2 DEF FlushWrite, SessionCustody
      <3>2. keystore_file'.value = keys[s]
        BY <2>17, <1>1, <3>1, FileOutcomes DEF FlushWrite, TypeOK
      <3>3. /\ DOMAIN keystore_file.value \subseteq DOMAIN keys[s]
            /\ References(profile[s]) \subseteq DOMAIN keystore_file.value
            /\ call[s] # Other => call[s].id \in DOMAIN keys[s]
        BY <2>17, <2>2 DEF FlushWrite, SessionCustody, PendingCall, OnlyFlush
      <3>4. KeyCustody'
        BY <2>17, <1>2, <3>2, <3>3 DEF FlushWrite, KeyCustody
      <3>5. SessionCustody(s, M)'
        BY <2>17, <1>1, <3>2, <3>3 DEF FlushWrite, SessionCustody, TypeOK
      <3> QED BY <3>4, <3>5
    <2>18. CASE FlushFail(s)
      <3>1. keystore_file'.value = keystore_file.value
        BY <2>18, <1>1, FileOutcomes DEF FlushFail, TypeOK
      <3>2. KeyCustody'
        BY <2>18, <3>1, <1>2, SameDocuments DEF FlushFail
      <3>3. SessionCustody(s, M)'
        BY <2>18, <1>1, <2>2, <3>1 DEF FlushFail, SessionCustody, TypeOK
      <3> QED BY <3>2, <3>3
    <2>19. CASE SaveTruncate(s)
      <3>1. metadata_file'.value = metadata_file.value
        BY <2>19, <1>1, FileOutcomes DEF SaveTruncate, TypeOK
      <3>2. KeyCustody'
        BY <2>19, <3>1, <1>2, SameDocuments DEF SaveTruncate
      <3>3. SessionCustody(s, M)'
        BY <2>19, <1>1, <2>2 DEF SaveTruncate, SessionCustody, TypeOK
      <3> QED BY <3>2, <3>3
    <2>20. CASE SaveWrite(s)
      <3>1. metadata_file'.value \in {profile[s], metadata_file.value}
        BY <2>20, <1>1, FileOutcomes DEF SaveWrite, TypeOK
      <3>2. References(profile[s]) \subseteq DOMAIN keystore_file.value
        BY <2>20, <2>2 DEF SaveWrite, SessionCustody
      <3>3. KeyCustody'
        BY <2>20, <1>2, <3>1, <3>2 DEF SaveWrite, KeyCustody
      <3>4. SessionCustody(s, M)'
        BY <2>20, <1>1, <2>2 DEF SaveWrite, SessionCustody, TypeOK
      <3> QED BY <3>3, <3>4
    <2>21. CASE SaveFail(s)
      <3>1. metadata_file'.value = metadata_file.value
        BY <2>21, <1>1, FileOutcomes DEF SaveFail, TypeOK
      <3>2. KeyCustody'
        BY <2>21, <3>1, <1>2, SameDocuments DEF SaveFail
      <3>3. SessionCustody(s, M)'
        BY <2>21, <1>1, <2>2 DEF SaveFail, SessionCustody, TypeOK
      <3> QED BY <3>2, <3>3
    <2> QED
      BY <1>4, <2>4, <2>5, <2>6, <2>8, <2>9, <2>11, <2>12, <2>13, <2>14,
         <2>15, <2>16, <2>17, <2>18, <2>19, <2>20, <2>21 DEF Step
  <1> QED
    BY <1>3, <1>4 DEF Next

\* The invariant of sessions of which one is open at a time.
LEMMA SerialCustody ==
    FileBacked => (SerialSpec => [](CustodyInv(Sessions) /\ TakeTurns(Sessions)))
  <1> SUFFICES ASSUME FileBacked
               PROVE  SerialSpec => [](CustodyInv(Sessions) /\ TakeTurns(Sessions))
    OBVIOUS
  <1>1. Init => CustodyInv(Sessions) /\ TakeTurns(Sessions)
    BY InitCustody DEF Init, TakeTurns
  <1>2. ASSUME CustodyInv(Sessions), TakeTurns(Sessions),
               [Next /\ TakeTurns(Sessions)']_vars
        PROVE  CustodyInv(Sessions)' /\ TakeTurns(Sessions)'
    <2>1. CustodyInv(Sessions)'
      BY <1>2, StepCustody DEF OnlyFlush
    <2>2. TakeTurns(Sessions)'
      BY <1>2 DEF TakeTurns, vars
    <2> QED BY <2>1, <2>2
  <1> QED
    BY <1>1, <1>2, PTL DEF SerialSpec

\* With one session at a time on a FileKeyStore, the last complete metadata.json
\* never refers to a key that the last complete keystore.json lacks, whatever the
\* sessions call, wherever their writes fail and wherever they stop.
THEOREM CustodyHolds == FileBacked => (SerialSpec => []KeyCustody)
  <1> SUFFICES ASSUME FileBacked PROVE SerialSpec => []KeyCustody
    OBVIOUS
  <1>1. CustodyInv(Sessions) => KeyCustody
    BY DEF CustodyInv
  <1> QED
    BY SerialCustody, <1>1, PTL

=============================================================================
