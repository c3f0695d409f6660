---------------------------- MODULE AgreementProofs ----------------------------
(***************************************************************************)
(* An id means the same record in every profile, however many sessions     *)
(* overlap, fail and stop.  A record is made once, under an id that no     *)
(* profile has; from then on it is copied, and only its status is changed. *)
(* What has to be known of a call whose key is being written is that its   *)
(* id is in nobody's profile and in no other call (Unseen).                *)
(***************************************************************************)
EXTENDS RecordProofs

Unseen(s) ==
    Making(s) =>
        /\ \A p \in Profiles : /\ call[s].id \notin DOMAIN p.identities
                               /\ call[s].id \notin DOMAIN p.payment_accounts
        /\ \A t \in Sessions : Making(t) /\ call[t].id = call[s].id => t = s

AgreeInv ==
    /\ RecordInv
    /\ RecordsAgree
    /\ \A s \in Sessions : Unseen(s)

-----------------------------------------------------------------------------
(* Profiles that agree.                                                    *)

\* SameRecords, field by field.
FieldsAgree(p, q) ==
    /\ \A i \in DOMAIN p.identities \cap DOMAIN q.identities :
          /\ p.identities[i].key_handle = q.identities[i].key_handle
          /\ p.identities[i].did = q.identities[i].did
          /\ p.identities[i].rotated_from = q.identities[i].rotated_from
    /\ \A a \in DOMAIN p.payment_accounts \cap DOMAIN q.payment_accounts :
          p.payment_accounts[a] = q.payment_accounts[a]

LEMMA SameIsFields ==
    ASSUME NEW p, IsProfile(p), NEW q, IsProfile(q)
    PROVE  SameRecords(p, q) <=> FieldsAgree(p, q)
  <1>1. ASSUME NEW r \in LocalIdentities, NEW l \in LocalIdentities
        PROVE  [r EXCEPT !.status = l.status] = l <=>
                  /\ r.key_handle = l.key_handle
                  /\ r.did = l.did
                  /\ r.rotated_from = l.rotated_from
    BY <1>1 DEF LocalIdentities
  <1>2. /\ \A i \in DOMAIN p.identities : p.identities[i] \in LocalIdentities
        /\ \A i \in DOMAIN q.identities : q.identities[i] \in LocalIdentities
    BY DEF IsProfile, IsMap
  <1> QED
    BY <1>1, <1>2 DEF SameRecords, FieldsAgree

LEMMA AgreementIsMutual ==
    ASSUME NEW p, NEW q, FieldsAgree(p, q)
    PROVE  FieldsAgree(q, p)
  BY DEF FieldsAgree

LEMMA AgreesWithItself ==
    ASSUME NEW p
    PROVE  FieldsAgree(p, p)
  BY DEF FieldsAgree

LEMMA AgreesWithBlank ==
    ASSUME NEW p
    PROVE  FieldsAgree(p, NewProfile)
  BY DEF FieldsAgree, NewProfile, EmptyMap

\* Only the selection differs.
LEMMA SelectionAgrees ==
    ASSUME NEW p, NEW r, r.identities = p.identities,
           r.payment_accounts = p.payment_accounts, NEW q, FieldsAgree(p, q)
    PROVE  FieldsAgree(r, q)
  BY DEF FieldsAgree

\* A new account under an id that the other profile does not have.
LEMMA NewAccountAgrees ==
    ASSUME NEW p, NEW id, NEW account, NEW r,
           r.identities = p.identities,
           r.payment_accounts = Put(p.payment_accounts, id, account),
           NEW q, FieldsAgree(p, q), id \notin DOMAIN q.payment_accounts
    PROVE  FieldsAgree(r, q)
  BY DEF FieldsAgree, Put

LEMMA NewIdentityAgrees ==
    ASSUME NEW p, NEW id, NEW identity, NEW r,
           r.identities = Put(p.identities, id, identity),
           r.payment_accounts = p.payment_accounts,
           NEW q, FieldsAgree(p, q), id \notin DOMAIN q.identities
    PROVE  FieldsAgree(r, q)
  BY DEF FieldsAgree, Put

\* A record takes another status.
LEMMA RetiredAgrees ==
    ASSUME NEW p, IsProfile(p), NEW id \in DOMAIN p.identities, NEW status, NEW r,
           r.identities = Put(p.identities, id,
                              [p.identities[id] EXCEPT !.status = status]),
           r.payment_accounts = p.payment_accounts,
           NEW q, FieldsAgree(p, q)
    PROVE  FieldsAgree(r, q)
  <1> DEFINE retired == [p.identities[id] EXCEPT !.status = status]
  <1>1. p.identities[id] \in LocalIdentities
    BY DEF IsProfile, IsMap
  <1>2. /\ retired.key_handle = p.identities[id].key_handle
        /\ retired.did = p.identities[id].did
        /\ retired.rotated_from = p.identities[id].rotated_from
    BY <1>1 DEF LocalIdentities
  <1> HIDE DEF retired
  <1>3. /\ DOMAIN r.identities = DOMAIN p.identities
        /\ r.identities[id] = retired
        /\ \A i \in DOMAIN p.identities : i # id => r.identities[i] = p.identities[i]
    BY DEF Put, retired
  <1> QED
    BY <1>2, <1>3 DEF FieldsAgree

\* What a call that made a key adds agrees with every profile that does not
\* have its id, and brings in no other id.
LEMMA RegisteredAgrees ==
    ASSUME NEW p, IsProfile(p),
           NEW c \in Calls, c.kind # "other", c.id \in Nat,
           c.from # None => c.from \in DOMAIN p.identities,
           NEW record \in KeyRecords
    PROVE  LET r == Registered(p, c, record)
           IN /\ DOMAIN r.identities \subseteq DOMAIN p.identities \cup {c.id}
              /\ DOMAIN r.payment_accounts \subseteq
                    DOMAIN p.payment_accounts \cup {c.id}
              /\ \A q : /\ FieldsAgree(p, q)
                        /\ c.id \notin DOMAIN q.identities
                        /\ c.id \notin DOMAIN q.payment_accounts
                        => FieldsAgree(r, q)
  <1> DEFINE identity == NewIdentity(c.id, DidOf(record))
             account == NewPaymentAccount(c.id, AddressOf(record))
             r == Registered(p, c, record)
  <1>1. identity \in LocalIdentities
    BY DEF NewIdentity, LocalIdentities, Dids, DidOf, PublicKey, KeyRecords,
           IdentityStatus
  <1>2. account \in PaymentAccounts
    BY DEF NewPaymentAccount, PaymentAccounts, Addresses, AddressOf, KeyRecords,
           PaymentAccountStatus
  <1>3. CASE c.kind = "account"
    <2>1. r = AddPaymentAccount(p, c.id, account)
      BY <1>3 DEF Registered
    <2> HIDE DEF account, r
    <2>2. /\ r.identities = p.identities
          /\ r.payment_accounts = Put(p.payment_accounts, c.id, account)
      BY <1>2, <2>1, AddPaymentAccountIsProfile
    <2>3. DOMAIN r.payment_accounts = DOMAIN p.payment_accounts \cup {c.id}
      BY <2>2 DEF Put
    <2>4. ASSUME NEW q, FieldsAgree(p, q), c.id \notin DOMAIN q.payment_accounts
          PROVE  FieldsAgree(r, q)
      BY <2>2, <2>4, NewAccountAgrees
    <2> QED BY <2>2, <2>3, <2>4 DEF r
  <1>4. CASE c.kind = "identity" /\ c.from = None
    <2>1. r = AddIdentity(p, c.id, identity)
      BY <1>4 DEF Registered
    <2> HIDE DEF identity, r
    <2>2. /\ r.identities = Put(p.identities, c.id, identity)
          /\ r.payment_accounts = p.payment_accounts
      BY <1>1, <2>1, AddIdentityIsProfile
    <2>3. DOMAIN r.identities = DOMAIN p.identities \cup {c.id}
      BY <2>2 DEF Put
    <2>4. ASSUME NEW q, FieldsAgree(p, q), c.id \notin DOMAIN q.identities
          PROVE  FieldsAgree(r, q)
      BY <2>2, <2>4, NewIdentityAgrees
    <2> QED BY <2>2, <2>3, <2>4 DEF r
  <1>5. CASE c.kind = "identity" /\ c.from # None
    <2> DEFINE retired == [p.identities[c.from] EXCEPT !.status = "rotated"]
               replacement == [identity EXCEPT !.rotated_from = c.from]
               half == [identities |-> Put(p.identities, c.from, retired),
                        payment_accounts |-> p.payment_accounts]
    <2>1. r = RotateIdentity(p, c.from, c.id, identity)
      BY <1>5 DEF Registered
    <2> HIDE DEF identity, r
    <2>2. /\ r.identities = Put(half.identities, c.id, replacement)
          /\ r.payment_accounts = half.payment_accounts
      BY <1>1, <1>5, <2>1, RotateIdentityIsProfile
    <2>3. /\ half.identities = Put(p.identities, c.from, retired)
          /\ half.payment_accounts = p.payment_accounts
      OBVIOUS
    <2> HIDE DEF half, replacement
    <2>4. DOMAIN r.identities = DOMAIN p.identities \cup {c.id}
      BY <1>5, <2>2, <2>3 DEF Put
    <2>5. ASSUME NEW q, FieldsAgree(p, q), c.id \notin DOMAIN q.identities
          PROVE  FieldsAgree(r, q)
      <3>1. FieldsAgree(half, q)
        BY <1>5, <2>3, <2>5, RetiredAgrees
      <3> QED BY <2>2, <2>5, <3>1, NewIdentityAgrees
    <2> QED BY <2>2, <2>3, <2>4, <2>5 DEF r
  <1> QED
    BY <1>3, <1>4, <1>5 DEF Calls

-----------------------------------------------------------------------------
(* Steps.                                                                  *)

LEMMA AgreeingSnapshots ==
    ASSUME AgreeInv, NEW p \in Profiles, NEW q \in Profiles
    PROVE  IsProfile(p) /\ IsProfile(q) /\ FieldsAgree(p, q)
  <1>1. IsProfile(p) /\ IsProfile(q) /\ SameRecords(p, q)
    BY SnapshotTypes DEF AgreeInv, RecordInv, RecordsAgree
  <1> QED BY <1>1, SameIsFields

\* The converse, in the next state.
LEMMA SnapshotsAgree ==
    ASSUME TypeInv', \A p, q \in Profiles' : FieldsAgree(p, q)
    PROVE  RecordsAgree'
  <1>1. \A p \in Profiles' : IsProfile(p)
    BY DEF TypeInv, TypeOK, Profiles
  <1>2. \A p, q \in Profiles' : SameRecords(p, q)
    BY <1>1, SameIsFields
  <1> QED BY <1>2 DEF RecordsAgree

LEMMA CopiesAgree ==
    ASSUME AgreeInv, RecordInv', Copies
    PROVE  AgreeInv'
  <1>1. TypeInv'
    BY DEF RecordInv
  <1>2. \A p, q \in Profiles' : FieldsAgree(p, q)
    <2>1. \A p, q \in Profiles : FieldsAgree(p, q)
      BY AgreeingSnapshots
    <2>2. \A p : FieldsAgree(p, NewProfile) /\ FieldsAgree(NewProfile, p)
      BY AgreesWithBlank, AgreementIsMutual
    <2> QED BY <2>1, <2>2 DEF Copies
  <1>3. ASSUME NEW s \in Sessions, Making(s)'
        PROVE  /\ \A p \in Profiles' : /\ call'[s].id \notin DOMAIN p.identities
                                       /\ call'[s].id \notin DOMAIN p.payment_accounts
               /\ \A t \in Sessions : Making(t)' /\ call'[t].id = call'[s].id => t = s
    <2>1. SameCall(s) /\ Unseen(s)
      BY <1>3 DEF Copies, AgreeInv
    <2>2. Making(s) /\ call'[s] = call[s]
      BY <2>1 DEF SameCall
    <2>3. \A p \in Profiles : /\ call[s].id \notin DOMAIN p.identities
                              /\ call[s].id \notin DOMAIN p.payment_accounts
      BY <2>1, <2>2 DEF Unseen
    <2>4. /\ call[s].id \notin DOMAIN NewProfile.identities
          /\ call[s].id \notin DOMAIN NewProfile.payment_accounts
      BY DEF NewProfile, EmptyMap
    <2>5. \A t \in Sessions : Making(t)' => Making(t) /\ call'[t] = call[t]
      BY DEF Copies, SameCall
    <2>6. \A t \in Sessions : Making(t) /\ call[t].id = call[s].id => t = s
      BY <2>1, <2>2 DEF Unseen
    <2> QED BY <2>2, <2>3, <2>4, <2>5, <2>6 DEF Copies
  <1>4. \A s \in Sessions : Unseen(s)'
    BY <1>3 DEF Unseen
  <1> QED BY <1>1, <1>2, <1>4, SnapshotsAgree DEF AgreeInv

\* Ids in use, in profiles or in calls, are among those drawn.
LEMMA FreshIsUnseen ==
    ASSUME RecordInv
    PROVE  /\ draws \in Nat
           /\ \A p \in Profiles : /\ draws + 1 \notin DOMAIN p.identities
                                  /\ draws + 1 \notin DOMAIN p.payment_accounts
           /\ \A t \in Sessions : Making(t) => call[t].id # draws + 1
  <1>1. draws \in Nat
    BY DEF RecordInv, TypeInv, TypeOK
  <1>2. ASSUME NEW p \in Profiles
        PROVE  /\ draws + 1 \notin DOMAIN p.identities
               /\ draws + 1 \notin DOMAIN p.payment_accounts
    <2>1. Numbered(p, draws)
      BY DEF RecordInv, Sound
    <2> QED BY <1>1, <2>1 DEF Numbered
  <1>3. ASSUME NEW t \in Sessions, Making(t)
        PROVE  call[t].id # draws + 1
    <2>1. call[t].id <= draws
      BY <1>3 DEF RecordInv, PendingRecord, Making
    <2> QED BY <1>1, <2>1
  <1> QED BY <1>1, <1>2, <1>3

LEMMA KeyCallAgrees ==
    ASSUME AgreeInv, RecordInv', NEW s \in Sessions,
           NEW kind, NEW from, NEW algorithm, NEW secret,
           BeginKeyCall(s, kind, from, algorithm, secret)
    PROVE  AgreeInv'
  <1>1. /\ call'[s].id = draws + 1
        /\ \A t \in Sessions : t # s => /\ call'[t] = call[t]
                                        /\ stage'[t] = stage[t]
        /\ Profiles' = Profiles
    BY DEF BeginKeyCall, files, Profiles, AgreeInv, RecordInv, TypeInv, TypeOK
  <1>2. \A t \in Sessions : t # s => (Making(t)' <=> Making(t))
    BY <1>1 DEF Making
  <1>3. RecordInv
    BY DEF AgreeInv
  <1>4. ASSUME NEW t \in Sessions PROVE Unseen(t)'
    <2>1. CASE t = s
      <3>1. \A p \in Profiles' : /\ call'[s].id \notin DOMAIN p.identities
                                 /\ call'[s].id \notin DOMAIN p.payment_accounts
        BY <1>1, <1>3, FreshIsUnseen
      <3>2. \A u \in Sessions : Making(u)' /\ call'[u].id = call'[s].id => u = s
        BY <1>1, <1>2, <1>3, FreshIsUnseen
      <3> QED BY <2>1, <3>1, <3>2 DEF Unseen
    <2>2. CASE t # s
      <3>1. Unseen(t) /\ call'[t] = call[t] /\ (Making(t)' <=> Making(t))
        BY <1>1, <1>2, <2>2 DEF AgreeInv
      <3>2. Making(t) => call'[s].id # call[t].id
        BY <1>1, <1>3, FreshIsUnseen
      <3>3. ASSUME NEW u \in Sessions, Making(t), Making(u)',
                   call'[u].id = call'[t].id
            PROVE  u = t
        <4>1. u # s
          BY <3>1, <3>2, <3>3
        <4>2. Making(u) /\ call[u].id = call[t].id
          BY <1>1, <1>2, <3>1, <3>3, <4>1
        <4> QED BY <3>1, <3>3, <4>2 DEF Unseen
      <3> QED BY <1>1, <3>1, <3>3 DEF Unseen
    <2> QED BY <2>1, <2>2
  <1>5. RecordsAgree'
    BY <1>1 DEF AgreeInv, RecordsAgree
  <1> QED BY <1>4, <1>5 DEF AgreeInv

\* One session's profile is replaced by one that agrees with all and has at
\* most one id that it had not, in no other call; the session goes on to save it.
LEMMA NewProfileAgrees ==
    ASSUME AgreeInv, RecordInv', NEW s \in Sessions, NEW p, NEW id,
           \A q \in Profiles : FieldsAgree(p, q),
           DOMAIN p.identities \subseteq DOMAIN profile[s].identities \cup {id},
           DOMAIN p.payment_accounts
              \subseteq DOMAIN profile[s].payment_accounts \cup {id},
           \A t \in Sessions : t # s /\ Making(t) => call[t].id # id,
           profile' = [profile EXCEPT ![s] = p],
           stage' = [stage EXCEPT ![s] = "save"],
           \A t \in Sessions : t # s => call'[t] = call[t],
           UNCHANGED metadata_file
    PROVE  AgreeInv'
  <1>1. Profiles' \subseteq Profiles \cup {p} /\ profile[s] \in Profiles
    BY DEF Profiles, AgreeInv, RecordInv, TypeInv, TypeOK
  <1>2. /\ \A t \in Sessions : t # s => (Making(t)' <=> Making(t))
        /\ ~Making(s)'
    <2>1. /\ \A t \in Sessions : t # s => stage'[t] = stage[t]
          /\ stage'[s] = "save"
      BY DEF AgreeInv, RecordInv, TypeInv, TypeOK
    <2> QED BY <2>1 DEF Making
  <1>3. \A q, r \in Profiles' : FieldsAgree(q, r)
    <2>1. \A q, r \in Profiles : FieldsAgree(q, r)
      BY AgreeingSnapshots
    <2>2. \A q \in Profiles : FieldsAgree(q, p)
      BY AgreementIsMutual
    <2>3. FieldsAgree(p, p)
      BY AgreesWithItself
    <2> QED BY <1>1, <2>1, <2>2, <2>3
  <1>4. ASSUME NEW t \in Sessions, Making(t)'
        PROVE  /\ \A q \in Profiles' : /\ call'[t].id \notin DOMAIN q.identities
                                       /\ call'[t].id \notin DOMAIN q.payment_accounts
               /\ \A u \in Sessions : Making(u)' /\ call'[u].id = call'[t].id => u = t
    <2>1. t # s /\ Making(t) /\ call'[t] = call[t] /\ Unseen(t)
      BY <1>2, <1>4 DEF AgreeInv
    <2>2. \A q \in Profiles : /\ call[t].id \notin DOMAIN q.identities
                              /\ call[t].id \notin DOMAIN q.payment_accounts
      BY <2>1 DEF Unseen
    <2>3. /\ call[t].id \notin DOMAIN p.identities
          /\ call[t].id \notin DOMAIN p.payment_accounts
      BY <1>1, <2>1, <2>2
    <2>4. \A u \in Sessions : Making(u)' => u # s /\ Making(u) /\ call'[u] = call[u]
      BY <1>2
    <2>5. \A u \in Sessions : Making(u) /\ call[u].id = call[t].id => u = t
      BY <2>1 DEF Unseen
    <2> QED BY <1>1, <2>1, <2>2, <2>3, <2>4, <2>5
  <1>5. \A t \in Sessions : Unseen(t)'
    BY <1>4 DEF Unseen
  <1>6. RecordsAgree'
    BY <1>3, SnapshotsAgree DEF RecordInv
  <1> QED BY <1>5, <1>6 DEF AgreeInv

LEMMA RegisterAgrees ==
    ASSUME AgreeInv, RecordInv', NEW s \in Sessions, Register(s)
    PROVE  AgreeInv'
  <1> DEFINE c == call[s]
             record == keys[s][c.id]
             p == Registered(profile[s], c, record)
  <1>1. /\ PendingCall(s) /\ Making(s) /\ Unseen(s)
        /\ c \in Calls /\ IsKeyMap(keys[s]) /\ IsProfile(profile[s])
    <2>1. PendingCall(s) /\ stage[s] = "flushed"
      BY DEF AgreeInv, RecordInv, TypeInv, Register
    <2>2. Making(s)
      BY <2>1 DEF PendingCall, Making
    <2> QED BY <2>1, <2>2 DEF AgreeInv, RecordInv, TypeInv, TypeOK
  <1>2. /\ c.kind # "other" /\ c.id \in DOMAIN keys[s]
        /\ c.from # None => c.from \in DOMAIN profile[s].identities
    BY <1>1 DEF PendingCall, Making
  <1>3. c.id \in Nat /\ record \in KeyRecords
    BY <1>1, <1>2 DEF IsKeyMap, IsMap
  <1>4. /\ profile' = [profile EXCEPT ![s] = p]
        /\ stage' = [stage EXCEPT ![s] = "save"]
        /\ UNCHANGED metadata_file
        /\ \A t \in Sessions : call'[t] = call[t]
    BY DEF Register, files
  <1>5. \A q \in Profiles : /\ c.id \notin DOMAIN q.identities
                            /\ c.id \notin DOMAIN q.payment_accounts
    BY <1>1 DEF Unseen
  <1>6. \A t \in Sessions : t # s /\ Making(t) => call[t].id # c.id
    BY <1>1 DEF Unseen
  <1>7. profile[s] \in Profiles
    BY DEF Profiles
  <1> HIDE DEF c, record
  <1>8. /\ DOMAIN p.identities \subseteq DOMAIN profile[s].identities \cup {c.id}
        /\ DOMAIN p.payment_accounts
              \subseteq DOMAIN profile[s].payment_accounts \cup {c.id}
        /\ \A q : /\ FieldsAgree(profile[s], q)
                  /\ c.id \notin DOMAIN q.identities
                  /\ c.id \notin DOMAIN q.payment_accounts
                  => FieldsAgree(p, q)
    BY <1>1, <1>2, <1>3, RegisteredAgrees
  <1> HIDE DEF p
  <1>9. \A q \in Profiles : FieldsAgree(p, q)
    BY <1>5, <1>7, <1>8, AgreeingSnapshots
  <1>10. PICK new, id : new = p /\ id = c.id
    OBVIOUS
  <1>11. /\ DOMAIN new.identities \subseteq DOMAIN profile[s].identities \cup {id}
         /\ DOMAIN new.payment_accounts
               \subseteq DOMAIN profile[s].payment_accounts \cup {id}
         /\ \A q \in Profiles : FieldsAgree(new, q)
    BY <1>8, <1>9, <1>10
  <1>12. \A t \in Sessions : t # s /\ Making(t) => call[t].id # id
    BY <1>6, <1>10
  <1>13. /\ profile' = [profile EXCEPT ![s] = new]
         /\ stage' = [stage EXCEPT ![s] = "save"]
         /\ \A t \in Sessions : t # s => call'[t] = call[t]
         /\ UNCHANGED metadata_file
    BY <1>4, <1>10
  <1> QED
    BY <1>11, <1>12, <1>13, NewProfileAgrees

\* Calls that need no key and bring in no id.
LEMMA SelectionCallAgrees ==
    ASSUME AgreeInv, RecordInv', NEW s \in Sessions, NEW p,
           p.identities = profile[s].identities,
           p.payment_accounts = profile[s].payment_accounts,
           BeginSave(s, Other, p)
    PROVE  AgreeInv'
  <1>1. profile[s] \in Profiles
    BY DEF Profiles
  <1>2. \A q \in Profiles : FieldsAgree(p, q)
    BY <1>1, AgreeingSnapshots, SelectionAgrees
  <1>3. /\ profile' = [profile EXCEPT ![s] = p]
        /\ stage' = [stage EXCEPT ![s] = "save"]
        /\ \A t \in Sessions : t # s => call'[t] = call[t]
        /\ UNCHANGED metadata_file
    BY DEF BeginSave, files, AgreeInv, RecordInv, TypeInv, TypeOK
  <1>4. \A t \in Sessions : t # s /\ Making(t) => call[t].id # draws + 1
    BY FreshIsUnseen DEF AgreeInv
  <1> QED
    BY <1>2, <1>3, <1>4, NewProfileAgrees

LEMMA StepAgree ==
    ASSUME AgreeInv, [Next]_vars
    PROVE  AgreeInv'
  <1>1. RecordInv /\ RecordInv' /\ TypeInv /\ TypeOK
    BY StepRecords DEF AgreeInv, RecordInv, TypeInv
  <1>2. CASE UNCHANGED vars
    <2>1. KeyMaps' = KeyMaps /\ Profiles' = Profiles /\ draws' = draws
      BY <1>2 DEF vars, KeyMaps, Profiles
    <2>2. \A t \in Sessions : Making(t)' => SameCall(t)
      BY <1>2 DEF vars, Making, SameCall
    <2> QED BY <1>1, <2>1, <2>2, CopiesAgree DEF Copies
  <1>3. ASSUME NEW s \in Sessions, Step(s)
        PROVE  AgreeInv'
    <2>1. IsProfile(profile[s]) /\ profile[s] \in Profiles
      BY <1>1 DEF TypeOK, Profiles
    <2>2. CASE CopyingStep(s)
      BY <1>1, <2>2, CopyingStepsCopy, CopiesAgree
    <2>3. CASE CreateIdentity(s) \/ ImportIdentity(s) \/ RotateActiveIdentity(s)
      <3>1. \E from, secret : BeginKeyCall(s, "identity", from, "ed25519", secret)
        BY <2>3 DEF CreateIdentity, ImportIdentity, RotateActiveIdentity
      <3> QED BY <1>1, <3>1, KeyCallAgrees
    <2>4. CASE CreatePaymentAccount(s) \/ ImportPaymentAccount(s)
      <3>1. \E secret : BeginKeyCall(s, "account", None, "secp256k1", secret)
        BY <2>4 DEF CreatePaymentAccount, ImportPaymentAccount
      <3> QED BY <1>1, <3>1, KeyCallAgrees
    <2>5. CASE Register(s)
      BY <1>1, <2>5, RegisterAgrees
    <2>6. CASE RegisterWatchPaymentAccount(s)
      <3>1. PICK address \in WatchAddresses :
               BeginSave(s, [kind |-> "account", id |-> draws + 1, from |-> None],
                         AddPaymentAccount(profile[s], draws + 1,
                                           NewPaymentAccount(None, address)))
        BY <2>6 DEF RegisterWatchPaymentAccount
      <3> DEFINE account == NewPaymentAccount(None, address)
                 p == AddPaymentAccount(profile[s], draws + 1, account)
      <3>2. account \in PaymentAccounts
        BY DEF NewPaymentAccount, PaymentAccounts, Addresses, PaymentAccountStatus
      <3>3. /\ draws + 1 \in Nat
            /\ \A q \in Profiles : draws + 1 \notin DOMAIN q.payment_accounts
            /\ \A t \in Sessions : Making(t) => call[t].id # draws + 1
        BY <1>1, FreshIsUnseen
      <3> HIDE DEF account
      <3>4. /\ p.identities = profile[s].identities
            /\ p.payment_accounts
                  = Put(profile[s].payment_accounts, draws + 1, account)
        BY <2>1, <3>2, <3>3, AddPaymentAccountIsProfile
      <3>5. /\ profile' = [profile EXCEPT ![s] = p]
            /\ stage' = [stage EXCEPT ![s] = "save"]
            /\ \A t \in Sessions : t # s => call'[t] = call[t]
            /\ UNCHANGED metadata_file
        BY <1>1, <3>1 DEF BeginSave, files, TypeOK, account
      <3> HIDE DEF p
      <3>6. /\ DOMAIN p.identities = DOMAIN profile[s].identities
            /\ DOMAIN p.payment_accounts
                  = DOMAIN profile[s].payment_accounts \cup {draws + 1}
        BY <3>4 DEF Put
      <3>7. \A q \in Profiles : FieldsAgree(p, q)
        BY <2>1, <3>3, <3>4, AgreeingSnapshots, NewAccountAgrees
      <3> QED
        BY <1>1, <3>3, <3>5, <3>6, <3>7, NewProfileAgrees
    <2>7. CASE SetActiveIdentity(s)
      <3>1. PICK id \in DOMAIN profile[s].identities :
               BeginSave(s, Other, SetActiveIdentityId(profile[s], id))
        BY <2>7 DEF SetActiveIdentity
      <3> DEFINE p == SetActiveIdentityId(profile[s], id)
      <3>2. /\ p.identities = profile[s].identities
            /\ p.payment_accounts = profile[s].payment_accounts
        BY <2>1 DEF SetActiveIdentityId, IsProfile
      <3> QED BY <1>1, <3>1, <3>2, SelectionCallAgrees
    <2>8. CASE SetActivePaymentAccount(s)
      <3>1. PICK id \in DOMAIN profile[s].payment_accounts :
               BeginSave(s, Other, SetActivePaymentAccountId(profile[s], id))
        BY <2>8 DEF SetActivePaymentAccount
      <3> DEFINE p == SetActivePaymentAccountId(profile[s], id)
      <3>2. /\ p.identities = profile[s].identities
            /\ p.payment_accounts = profile[s].payment_accounts
        BY <2>1 DEF SetActivePaymentAccountId, IsProfile
      <3> QED BY <1>1, <3>1, <3>2, SelectionCallAgrees
    <2>9. CASE SaveProfile(s)
      BY <1>1, <2>9, SelectionCallAgrees DEF SaveProfile
    <2> QED
      BY <1>3, <2>2, <2>3, <2>4, <2>5, <2>6, <2>7, <2>8, <2>9
         DEF Step, CopyingStep
  <1> QED
    BY <1>2, <1>3 DEF Next

LEMMA InitAgree == Init => AgreeInv
  <1> SUFFICES ASSUME Init PROVE AgreeInv
    OBVIOUS
  <1>1. RecordInv
    BY InitRecord
  <1>2. \A p \in Profiles : p = NewProfile
    BY DEF Init, Profiles, NoFile
  <1>3. RecordsAgree
    BY <1>2 DEF RecordsAgree, SameRecords, NewProfile, EmptyMap
  <1>4. \A s \in Sessions : Unseen(s)
    BY DEF Init, Unseen, Making
  <1> QED BY <1>1, <1>3, <1>4 DEF AgreeInv

\* An id means the same thing in every profile there is, for any number of
\* sessions that overlap, fail and stop (add_identity, rotate_identity,
\* add_payment_account and the ids drawn for them; Uuid::new_v4).
THEOREM IdsMeanOneThing == Spec => []RecordsAgree
  <1>1. AgreeInv => RecordsAgree
    BY DEF AgreeInv
  <1> QED
    BY InitAgree, StepAgree, <1>1, PTL DEF Spec

=============================================================================
