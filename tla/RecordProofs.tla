---------------------------- MODULE RecordProofs ----------------------------
(***************************************************************************)
(* What holds of every profile and every key map there is, on disk and in  *)
(* memory, however many sessions overlap, fail and stop.  Sessions only    *)
(* copy snapshots to files and back, so what holds of each snapshot        *)
(* survives every step but the two that make new ones: a key enters a key  *)
(* map (BeginKeyCall), a record enters a profile or another one is         *)
(* selected (Register, BeginSave).                                         *)
(***************************************************************************)
EXTENDS WalletProofs

\* Ids and handles in p are fresh values drawn up to n.
Numbered(p, n) ==
    /\ \A i \in DOMAIN p.identities : i <= n /\ p.identities[i].key_handle <= n
    /\ \A a \in DOMAIN p.payment_accounts :
          /\ a <= n
          /\ p.payment_accounts[a].key_handle # None =>
                p.payment_accounts[a].key_handle <= n

\* What SelectionsAreSound rests on.  All accounts are active, and some identity is.
Usable(p) ==
    /\ p.active_identity_id = None => DOMAIN p.identities = {}
    /\ p.active_identity_id # None => p.active_identity_id \in DOMAIN p.identities
    /\ DOMAIN p.identities # {} =>
          \E i \in DOMAIN p.identities : p.identities[i].status = "active"
    /\ p.active_payment_account_id = None => DOMAIN p.payment_accounts = {}
    /\ p.active_payment_account_id # None =>
          p.active_payment_account_id \in DOMAIN p.payment_accounts
    /\ \A a \in DOMAIN p.payment_accounts : p.payment_accounts[a].status = "active"

Sound(p, n) == Numbered(p, n) /\ Lineage(p) /\ Usable(p)

\* Where k has the key of a record of p, it is the key the record was made for.
Matches(p, k) ==
    /\ \A i \in DOMAIN p.identities :
          LET h == p.identities[i].key_handle
          IN h \in DOMAIN k => /\ k[h].algorithm = "ed25519"
                               /\ p.identities[i].did = DidOf(k[h])
    /\ \A a \in DOMAIN p.payment_accounts :
          LET h == p.payment_accounts[a].key_handle
          IN h \in DOMAIN k => /\ k[h].algorithm = "secp256k1"
                               /\ p.payment_accounts[a].address = AddressOf(k[h])

Agree(k, l) == \A h \in DOMAIN k \cap DOMAIN l : k[h] = l[h]

\* A call that is making a key has drawn it for the record it will add: the key
\* is of the right kind, the record's id is not in the profile yet, and the
\* identity it replaces is still active.
PendingRecord(s) ==
    stage[s] \in {"flush", "flushing", "flushed"} /\ call[s] # Other =>
        /\ call[s].id <= draws
        /\ call[s].id \notin DOMAIN profile[s].identities
        /\ call[s].id \notin DOMAIN profile[s].payment_accounts
        /\ keys[s][call[s].id].algorithm
              = IF call[s].kind = "account" THEN "secp256k1" ELSE "ed25519"
        /\ call[s].from # None =>
              /\ call[s].kind = "identity"
              /\ call[s].from < call[s].id
              /\ profile[s].identities[call[s].from].status = "active"

RecordInv ==
    /\ TypeInv
    /\ \A k \in KeyMaps : \A h \in DOMAIN k : h <= draws
    /\ \A k, l \in KeyMaps : Agree(k, l)
    /\ \A p \in Profiles : Sound(p, draws)
    /\ \A p \in Profiles, k \in KeyMaps : Matches(p, k)
    /\ \A s \in Sessions : PendingRecord(s)

-----------------------------------------------------------------------------
(* Profile operations keep a profile sound.                                *)

LEMMA SoundGrows ==
    ASSUME NEW p, IsProfile(p), NEW m \in Nat, NEW n \in Nat, m <= n, Sound(p, m)
    PROVE  Sound(p, n)
  <1>1. \A i \in DOMAIN p.identities : i \in Nat /\ p.identities[i].key_handle \in Nat
    BY DEF IsProfile, IsMap, LocalIdentities
  <1>2. \A a \in DOMAIN p.payment_accounts :
            a \in Nat /\ p.payment_accounts[a].key_handle \in Nat \cup {None}
    BY DEF IsProfile, IsMap, PaymentAccounts
  <1>3. Numbered(p, n)
    BY <1>1, <1>2 DEF Sound, Numbered
  <1> QED
    BY <1>3 DEF Sound

LEMMA BlankIsSound ==
    ASSUME NEW n
    PROVE  Sound(NewProfile, n) /\ \A k : Matches(NewProfile, k)
  BY DEF Sound, Numbered, Lineage, Usable, Matches, NewProfile, EmptyMap

\* Usable depends on the selection; the rest on the records alone.
LEMMA SelectionIsSound ==
    ASSUME NEW p, IsProfile(p), NEW n, Sound(p, n)
    PROVE  /\ \A id \in DOMAIN p.identities :
                 /\ Sound(SetActiveIdentityId(p, id), n)
                 /\ \A k : Matches(p, k) => Matches(SetActiveIdentityId(p, id), k)
           /\ \A id \in DOMAIN p.payment_accounts :
                 /\ Sound(SetActivePaymentAccountId(p, id), n)
                 /\ \A k : Matches(p, k) => Matches(SetActivePaymentAccountId(p, id), k)
  <1>1. ASSUME NEW q, q.identities = p.identities,
               q.payment_accounts = p.payment_accounts
        PROVE  /\ Numbered(q, n) /\ Lineage(q)
               /\ \A k : Matches(p, k) => Matches(q, k)
    BY <1>1 DEF Sound, Numbered, Lineage, Matches
  <1>2. ASSUME NEW id \in DOMAIN p.identities
        PROVE  /\ Sound(SetActiveIdentityId(p, id), n)
               /\ \A k : Matches(p, k) => Matches(SetActiveIdentityId(p, id), k)
    <2> DEFINE q == SetActiveIdentityId(p, id)
    <2>1. /\ q.identities = p.identities
          /\ q.payment_accounts = p.payment_accounts
          /\ q.active_identity_id = id
          /\ q.active_payment_account_id = p.active_payment_account_id
      BY DEF SetActiveIdentityId, IsProfile
    <2>2. id # None
      BY NoneIsNotDrawn DEF IsProfile, IsMap
    <2> HIDE DEF q
    <2>3. Usable(q)
      BY <2>1, <2>2 DEF Usable, Sound
    <2>4. Sound(q, n) /\ \A k : Matches(p, k) => Matches(q, k)
      BY <1>1, <2>1, <2>3 DEF Sound
    <2> QED
      BY <2>4 DEF q
  <1>3. ASSUME NEW id \in DOMAIN p.payment_accounts
        PROVE  /\ Sound(SetActivePaymentAccountId(p, id), n)
               /\ \A k : Matches(p, k) => Matches(SetActivePaymentAccountId(p, id), k)
    <2> DEFINE q == SetActivePaymentAccountId(p, id)
    <2>1. /\ q.identities = p.identities
          /\ q.payment_accounts = p.payment_accounts
          /\ q.active_identity_id = p.active_identity_id
          /\ q.active_payment_account_id = id
      BY DEF SetActivePaymentAccountId, IsProfile
    <2>2. id # None
      BY NoneIsNotDrawn DEF IsProfile, IsMap
    <2> HIDE DEF q
    <2>3. Usable(q)
      BY <2>1, <2>2 DEF Usable, Sound
    <2>4. Sound(q, n) /\ \A k : Matches(p, k) => Matches(q, k)
      BY <1>1, <2>1, <2>3 DEF Sound
    <2> QED
      BY <2>4 DEF q
  <1> QED
    BY <1>2, <1>3

\* An identity with a fresh id that replaces none.
LEMMA AddIdentityIsSound ==
    ASSUME NEW p, IsProfile(p), NEW n \in Nat, Sound(p, n),
           NEW id \in Nat, id <= n, id \notin DOMAIN p.identities,
           NEW identity \in LocalIdentities, identity.key_handle <= n,
           identity.status = "active", identity.rotated_from = None
    PROVE  Sound(AddIdentity(p, id, identity), n)
  <1> DEFINE q == AddIdentity(p, id, identity)
             ids == Put(p.identities, id, identity)
  <1>1. /\ DOMAIN ids = DOMAIN p.identities \cup {id}
        /\ ids[id] = identity
        /\ \A i \in DOMAIN p.identities : ids[i] = p.identities[i]
    BY DEF Put
  <1>2. q = Fields(ids, IF p.active_identity_id = None THEN id
                        ELSE p.active_identity_id,
                   p.payment_accounts, p.active_payment_account_id)
    BY ProfileIsFields, AddIdentityFields
  <1>3. /\ q.identities = ids
        /\ q.active_identity_id = IF p.active_identity_id = None THEN id
                                  ELSE p.active_identity_id
        /\ q.payment_accounts = p.payment_accounts
        /\ q.active_payment_account_id = p.active_payment_account_id
    BY <1>2 DEF Fields
  <1>4. id # None /\ \A i \in DOMAIN p.identities : i # None /\ i # id
    BY NoneIsNotDrawn DEF IsProfile, IsMap
  <1> HIDE DEF q, ids
  <1>5. Numbered(q, n)
    BY <1>1, <1>3 DEF Numbered, Sound
  <1>6. Lineage(q)
    BY <1>1, <1>3, <1>4 DEF Lineage, Sound
  <1>7. Usable(q)
    BY <1>1, <1>3, <1>4 DEF Usable, Sound
  <1> QED
    BY <1>5, <1>6, <1>7 DEF Sound, q

LEMMA AddPaymentAccountIsSound ==
    ASSUME NEW p, IsProfile(p), NEW n \in Nat, Sound(p, n),
           NEW id \in Nat, id <= n,
           NEW account \in PaymentAccounts, account.status = "active",
           account.key_handle # None => account.key_handle <= n
    PROVE  Sound(AddPaymentAccount(p, id, account), n)
  <1> DEFINE q == AddPaymentAccount(p, id, account)
             accounts == Put(p.payment_accounts, id, account)
  <1>1. /\ DOMAIN accounts = DOMAIN p.payment_accounts \cup {id}
        /\ accounts[id] = account
        /\ \A a \in DOMAIN p.payment_accounts :
              a # id => accounts[a] = p.payment_accounts[a]
    BY DEF Put
  <1>2. q = Fields(p.identities, p.active_identity_id, accounts,
                   IF p.active_payment_account_id = None THEN id
                   ELSE p.active_payment_account_id)
    BY ProfileIsFields, AddPaymentAccountFields
  <1>3. /\ q.identities = p.identities
        /\ q.active_identity_id = p.active_identity_id
        /\ q.payment_accounts = accounts
        /\ q.active_payment_account_id
              = IF p.active_payment_account_id = None THEN id
                ELSE p.active_payment_account_id
    BY <1>2 DEF Fields
  <1>4. id # None
    BY NoneIsNotDrawn
  <1> HIDE DEF q, accounts
  <1>5. Numbered(q, n)
    BY <1>1, <1>3 DEF Numbered, Sound
  <1>6. Lineage(q)
    BY <1>3 DEF Lineage, Sound
  <1>7. Usable(q)
    BY <1>1, <1>3, <1>4 DEF Usable, Sound
  <1> QED
    BY <1>5, <1>6, <1>7 DEF Sound, q

\* RotateIdentityIsProfile says what becomes of the records.
LEMMA RotateIdentitySelection ==
    ASSUME NEW p, IsProfile(p), NEW from, NEW id, NEW identity
    PROVE  LET q == RotateIdentity(p, from, id, identity)
           IN /\ q.active_identity_id = id
              /\ q.active_payment_account_id = p.active_payment_account_id
  <1> DEFINE retired == Put(p.identities, from,
                            [p.identities[from] EXCEPT !.status = "rotated"])
             half == [p EXCEPT !.identities =
                         Put(@, from, [@[from] EXCEPT !.status = "rotated"])]
             replacement == [identity EXCEPT !.rotated_from = from]
             both == AddIdentity(half, id, replacement)
  <1>1. half = Fields(retired, p.active_identity_id,
                      p.payment_accounts, p.active_payment_account_id)
    BY DEF IsProfile, Fields
  <1> HIDE DEF retired
  <1>2. RotateIdentity(p, from, id, identity) = [both EXCEPT !.active_identity_id = id]
    BY DEF RotateIdentity
  <1> HIDE DEF half, replacement
  <1>3. both = Fields(Put(retired, id, replacement),
                      IF p.active_identity_id = None THEN id
                      ELSE p.active_identity_id,
                      p.payment_accounts, p.active_payment_account_id)
    BY <1>1, AddIdentityFields
  <1> HIDE DEF both
  <1> QED
    BY <1>2, <1>3 DEF Fields

\* The identity that is replaced is active, so no other identity replaces it.
LEMMA RotateIdentityIsSound ==
    ASSUME NEW p, IsProfile(p), NEW n \in Nat, Sound(p, n),
           NEW from \in DOMAIN p.identities, p.identities[from].status = "active",
           NEW id \in Nat, id <= n, id \notin DOMAIN p.identities, from < id,
           NEW identity \in LocalIdentities, identity.key_handle <= n,
           identity.status = "active"
    PROVE  Sound(RotateIdentity(p, from, id, identity), n)
  <1> DEFINE q == RotateIdentity(p, from, id, identity)
             retired == [p.identities[from] EXCEPT !.status = "rotated"]
             replacement == [identity EXCEPT !.rotated_from = from]
             ids == Put(Put(p.identities, from, retired), id, replacement)
  <1>1. from \in Nat /\ from # None /\ id # None /\ from # id
    BY NoneIsNotDrawn DEF IsProfile, IsMap
  <1>2. p.identities[from] \in LocalIdentities
    BY DEF IsProfile, IsMap
  <1>3. /\ retired.status = "rotated"
        /\ retired.rotated_from = p.identities[from].rotated_from
        /\ retired.key_handle = p.identities[from].key_handle
        /\ replacement.status = "active"
        /\ replacement.rotated_from = from
        /\ replacement.key_handle = identity.key_handle
    BY <1>2 DEF LocalIdentities
  <1>4. /\ q.identities = ids
        /\ q.payment_accounts = p.payment_accounts
        /\ q.active_identity_id = id
        /\ q.active_payment_account_id = p.active_payment_account_id
    BY RotateIdentityIsProfile, RotateIdentitySelection
  <1> HIDE DEF q, retired, replacement
  <1>5. /\ DOMAIN ids = DOMAIN p.identities \cup {id}
        /\ ids[id] = replacement
        /\ ids[from] = retired
        /\ \A i \in DOMAIN p.identities : i # from => ids[i] = p.identities[i]
    BY <1>1 DEF Put
  <1> HIDE DEF ids
  <1>6. \A i \in DOMAIN p.identities : i \in Nat /\ i # None /\ i # id
    BY NoneIsNotDrawn DEF IsProfile, IsMap
  <1>7. Numbered(q, n)
    BY <1>3, <1>4, <1>5 DEF Numbered, Sound
  <1>8. Lineage(q)
    <2>1. /\ \A i \in DOMAIN ids :
                ids[i].rotated_from = IF i = id THEN from
                                      ELSE p.identities[i].rotated_from
          /\ \A i \in DOMAIN ids :
                ids[i].status = IF i = id THEN "active"
                                ELSE IF i = from THEN "rotated"
                                ELSE p.identities[i].status
      BY <1>1, <1>3, <1>5, <1>6
    <2>2. \A j \in DOMAIN p.identities : p.identities[j].rotated_from # from
      BY DEF Lineage, Sound
    <2>3. \A j \in DOMAIN ids : ids[j].rotated_from # None =>
             \E i \in DOMAIN ids : i < j /\ ids[j].rotated_from = i
      <3> TAKE j \in DOMAIN ids
      <3>1. CASE j = id
        BY <1>5, <2>1, <3>1
      <3>2. CASE j # id
        BY <1>5, <2>1, <3>2 DEF Lineage, Sound
      <3> QED BY <3>1, <3>2
    <2>4. \A i \in DOMAIN ids : ids[i].status = "rotated" <=>
             \E j \in DOMAIN ids : ids[j].rotated_from = i
      <3> TAKE i \in DOMAIN ids
      <3>1. CASE i = id
        <4>1. \A j \in DOMAIN p.identities : p.identities[j].rotated_from # id
          BY <1>1, <1>6 DEF Lineage, Sound
        <4> QED BY <1>1, <1>5, <2>1, <3>1, <4>1
      <3>2. CASE i = from
        BY <1>1, <1>5, <2>1, <3>2
      <3>3. CASE i # id /\ i # from
        <4>1. i \in DOMAIN p.identities
          BY <1>5, <3>3
        <4>2. p.identities[i].status = "rotated" <=>
                 \E j \in DOMAIN p.identities : p.identities[j].rotated_from = i
          BY <4>1 DEF Lineage, Sound
        <4> QED BY <1>5, <1>6, <2>1, <3>3, <4>2
      <3> QED BY <3>1, <3>2, <3>3
    <2>5. \A i, j, k \in DOMAIN ids :
             ids[j].rotated_from = i /\ ids[k].rotated_from = i => j = k
      <3> TAKE i, j, k \in DOMAIN ids
      <3>1. CASE i \in DOMAIN p.identities
        BY <1>5, <2>1, <2>2, <3>1 DEF Lineage, Sound
      <3>2. CASE i = id
        <4>1. ids[j].rotated_from # id
          <5>1. CASE j = id BY <1>1, <2>1, <5>1
          <5>2. CASE j # id BY <1>1, <1>5, <1>6, <2>1, <5>2 DEF Lineage, Sound
          <5> QED BY <5>1, <5>2
        <4> QED BY <3>2, <4>1
      <3> QED BY <1>5, <3>1, <3>2
    <2> QED BY <1>4, <2>3, <2>4, <2>5 DEF Lineage
  <1>9. Usable(q)
    BY <1>1, <1>3, <1>4, <1>5 DEF Usable, Sound
  <1> QED
    BY <1>7, <1>8, <1>9 DEF Sound, q

LEMMA RegisteredIsSound ==
    ASSUME NEW p, IsProfile(p), NEW n \in Nat, Sound(p, n),
           NEW c \in Calls, c.kind # "other", c.id \in Nat, c.id <= n,
           c.id \notin DOMAIN p.identities,
           c.from # None => /\ c.from \in DOMAIN p.identities
                            /\ p.identities[c.from].status = "active"
                            /\ c.from < c.id,
           NEW record \in KeyRecords
    PROVE  Sound(Registered(p, c, record), n)
  <1> DEFINE identity == NewIdentity(c.id, DidOf(record))
             account == NewPaymentAccount(c.id, AddressOf(record))
  <1>1. /\ identity \in LocalIdentities /\ identity.key_handle = c.id
        /\ identity.status = "active" /\ identity.rotated_from = None
    BY DEF NewIdentity, LocalIdentities, Dids, DidOf, PublicKey, KeyRecords,
           IdentityStatus
  <1>2. /\ account \in PaymentAccounts /\ account.key_handle = c.id
        /\ account.status = "active"
    BY DEF NewPaymentAccount, PaymentAccounts, Addresses, AddressOf, KeyRecords,
           PaymentAccountStatus
  <1>3. CASE c.kind = "account"
    <2>1. Registered(p, c, record) = AddPaymentAccount(p, c.id, account)
      BY <1>3 DEF Registered
    <2> HIDE DEF account
    <2>2. Sound(AddPaymentAccount(p, c.id, account), n)
      BY <1>2, AddPaymentAccountIsSound
    <2> QED BY <2>1, <2>2
  <1>4. CASE c.kind = "identity" /\ c.from = None
    <2>1. Registered(p, c, record) = AddIdentity(p, c.id, identity)
      BY <1>4 DEF Registered
    <2> HIDE DEF identity
    <2>2. Sound(AddIdentity(p, c.id, identity), n)
      BY <1>1, AddIdentityIsSound
    <2> QED BY <2>1, <2>2
  <1>5. CASE c.kind = "identity" /\ c.from # None
    <2>1. Registered(p, c, record) = RotateIdentity(p, c.from, c.id, identity)
      BY <1>5 DEF Registered
    <2> HIDE DEF identity
    <2>2. Sound(RotateIdentity(p, c.from, c.id, identity), n)
      BY <1>1, <1>5, RotateIdentityIsSound
    <2> QED BY <2>1, <2>2
  <1> QED
    BY <1>3, <1>4, <1>5 DEF Calls

LEMMA PutIdentityMatches ==
    ASSUME NEW p, NEW q, NEW id, NEW identity, NEW k, Matches(p, k),
           q.identities = Put(p.identities, id, identity),
           q.payment_accounts = p.payment_accounts,
           identity.key_handle \in DOMAIN k =>
               /\ k[identity.key_handle].algorithm = "ed25519"
               /\ identity.did = DidOf(k[identity.key_handle])
    PROVE  Matches(q, k)
  BY DEF Matches, Put

LEMMA PutAccountMatches ==
    ASSUME NEW p, NEW q, NEW id, NEW account, NEW k, Matches(p, k),
           q.identities = p.identities,
           q.payment_accounts = Put(p.payment_accounts, id, account),
           account.key_handle \in DOMAIN k =>
               /\ k[account.key_handle].algorithm = "secp256k1"
               /\ account.address = AddressOf(k[account.key_handle])
    PROVE  Matches(q, k)
  BY DEF Matches, Put

LEMMA RegisteredMatches ==
    ASSUME NEW p, IsProfile(p),
           NEW c \in Calls, c.kind # "other", c.id \in Nat,
           c.from # None => c.from \in DOMAIN p.identities,
           NEW record \in KeyRecords,
           record.algorithm = IF c.kind = "account" THEN "secp256k1" ELSE "ed25519",
           NEW k, Matches(p, k), c.id \in DOMAIN k => k[c.id] = record
    PROVE  Matches(Registered(p, c, record), k)
  <1> DEFINE identity == NewIdentity(c.id, DidOf(record))
             account == NewPaymentAccount(c.id, AddressOf(record))
  <1>1. /\ identity \in LocalIdentities /\ identity.key_handle = c.id
        /\ identity.did = DidOf(record)
    BY DEF NewIdentity, LocalIdentities, Dids, DidOf, PublicKey, KeyRecords,
           IdentityStatus
  <1>2. /\ account \in PaymentAccounts /\ account.key_handle = c.id
        /\ account.address = AddressOf(record)
    BY DEF NewPaymentAccount, PaymentAccounts, Addresses, AddressOf, KeyRecords,
           PaymentAccountStatus
  <1>3. CASE c.kind = "account"
    <2> DEFINE q == AddPaymentAccount(p, c.id, account)
    <2>1. Registered(p, c, record) = q
      BY <1>3 DEF Registered
    <2> HIDE DEF account
    <2>2. /\ q.identities = p.identities
          /\ q.payment_accounts = Put(p.payment_accounts, c.id, account)
      BY <1>2, AddPaymentAccountIsProfile
    <2>3. account.key_handle \in DOMAIN k =>
             /\ k[account.key_handle].algorithm = "secp256k1"
             /\ account.address = AddressOf(k[account.key_handle])
      BY <1>2, <1>3
    <2> HIDE DEF q
    <2>4. Matches(q, k)
      BY <2>2, <2>3, PutAccountMatches
    <2> QED BY <2>1, <2>4
  <1>4. CASE c.kind = "identity"
    <2>1. identity.key_handle \in DOMAIN k =>
             /\ k[identity.key_handle].algorithm = "ed25519"
             /\ identity.did = DidOf(k[identity.key_handle])
      BY <1>1, <1>4
    <2>2. CASE c.from = None
      <3> DEFINE q == AddIdentity(p, c.id, identity)
      <3>1. Registered(p, c, record) = q
        BY <1>4, <2>2 DEF Registered
      <3> HIDE DEF identity
      <3>2. /\ q.identities = Put(p.identities, c.id, identity)
            /\ q.payment_accounts = p.payment_accounts
        BY <1>1, AddIdentityIsProfile
      <3> HIDE DEF q
      <3>3. Matches(q, k)
        BY <2>1, <3>2, PutIdentityMatches
      <3> QED BY <3>1, <3>3
    <2>3. CASE c.from # None
      <3> DEFINE q == RotateIdentity(p, c.from, c.id, identity)
                 retired == [p.identities[c.from] EXCEPT !.status = "rotated"]
                 replacement == [identity EXCEPT !.rotated_from = c.from]
                 half == [identities |-> Put(p.identities, c.from, retired),
                          payment_accounts |-> p.payment_accounts]
      <3>1. Registered(p, c, record) = q
        BY <1>4, <2>3 DEF Registered
      <3> HIDE DEF identity
      <3>2. /\ q.identities = Put(half.identities, c.id, replacement)
            /\ q.payment_accounts = half.payment_accounts
        BY <1>1, <2>3, RotateIdentityIsProfile
      <3>3. p.identities[c.from] \in LocalIdentities
        BY <2>3 DEF IsProfile, IsMap
      <3>4. /\ retired.key_handle = p.identities[c.from].key_handle
            /\ retired.did = p.identities[c.from].did
            /\ replacement.key_handle = identity.key_handle
            /\ replacement.did = identity.did
        BY <1>1, <3>3 DEF LocalIdentities
      <3> HIDE DEF q, retired, replacement
      <3>5. retired.key_handle \in DOMAIN k =>
               /\ k[retired.key_handle].algorithm = "ed25519"
               /\ retired.did = DidOf(k[retired.key_handle])
        BY <2>3, <3>4 DEF Matches
      <3>6. /\ half.identities = Put(p.identities, c.from, retired)
            /\ half.payment_accounts = p.payment_accounts
        OBVIOUS
      <3> HIDE DEF half
      <3>7. Matches(half, k)
        BY <3>5, <3>6, PutIdentityMatches
      <3>8. replacement.key_handle \in DOMAIN k =>
               /\ k[replacement.key_handle].algorithm = "ed25519"
               /\ replacement.did = DidOf(k[replacement.key_handle])
        BY <2>1, <3>4
      <3>9. Matches(q, k)
        BY <3>2, <3>7, <3>8, PutIdentityMatches
      <3> QED BY <3>1, <3>9
    <2> QED BY <2>2, <2>3
  <1> QED
    BY <1>3, <1>4 DEF Calls

-----------------------------------------------------------------------------
(* Steps.                                                                  *)

LEMMA InitRecord == Init => RecordInv
  <1> SUFFICES ASSUME Init PROVE RecordInv
    OBVIOUS
  <1>1. KeyMaps = {EmptyMap} \cup {keys[s] : s \in Sessions}
    BY DEF Init, KeyMaps, NoFile
  <1>2. \A k \in KeyMaps : k = EmptyMap
    BY <1>1 DEF Init
  <1>3. \A p \in Profiles : p = NewProfile
    BY DEF Init, Profiles, NoFile
  <1>4. \A k \in KeyMaps : \A h \in DOMAIN k : h <= draws
    BY <1>2, BlankDocuments
  <1>5. \A k, l \in KeyMaps : Agree(k, l)
    BY <1>2 DEF Agree
  <1>6. \A p \in Profiles : Sound(p, draws)
    BY <1>3, BlankIsSound
  <1>7. \A p \in Profiles, k \in KeyMaps : Matches(p, k)
    BY <1>3, BlankIsSound
  <1>8. \A s \in Sessions : PendingRecord(s)
    BY DEF Init, PendingRecord
  <1> QED
    BY <1>4, <1>5, <1>6, <1>7, <1>8, InitType DEF RecordInv

Making(s) == stage[s] \in {"flush", "flushing", "flushed"} /\ call[s] # Other

SameCall(s) ==
    /\ Making(s)
    /\ call'[s] = call[s] /\ keys'[s] = keys[s] /\ profile'[s] = profile[s]

\* A step that makes no snapshot: it copies one, or blanks a session.
Copies ==
    /\ KeyMaps' \subseteq KeyMaps \cup {EmptyMap}
    /\ Profiles' \subseteq Profiles \cup {NewProfile}
    /\ draws' = draws
    /\ \A t \in Sessions : Making(t)' => SameCall(t)

CopyingStep(s) ==
    \/ Open(s) \/ LoadOrCreateProfile(s) \/ Close(s) \/ FlushKeyStore(s)
    \/ FlushTruncate(s) \/ FlushWrite(s) \/ FlushFail(s)
    \/ SaveTruncate(s) \/ SaveWrite(s) \/ SaveFail(s)

LEMMA CopyingStepsCopy ==
    ASSUME TypeInv, NEW s \in Sessions, CopyingStep(s)
    PROVE  Copies
  <1> USE DEF TypeInv
  <1>1. CASE Open(s)
    <2>1. KeyMaps' \subseteq KeyMaps \cup {EmptyMap} /\ Profiles' = Profiles
      BY <1>1 DEF Open, files, TypeOK, KeyMaps, Profiles
    <2>2. ASSUME NEW t \in Sessions, Making(t)' PROVE SameCall(t)
      BY <1>1, <2>2 DEF Open, TypeOK, Making, SameCall
    <2> QED BY <1>1, <2>1, <2>2 DEF Copies, Open
  <1>2. CASE LoadOrCreateProfile(s)
    <2>1. KeyMaps' = KeyMaps /\ Profiles' \subseteq Profiles \cup {NewProfile}
      BY <1>2 DEF LoadOrCreateProfile, files, TypeOK, KeyMaps, Profiles
    <2>2. ASSUME NEW t \in Sessions, Making(t)' PROVE SameCall(t)
      BY <1>2, <2>2 DEF LoadOrCreateProfile, TypeOK, Making, SameCall
    <2> QED BY <1>2, <2>1, <2>2 DEF Copies, LoadOrCreateProfile
  <1>3. CASE Close(s)
    <2>1. /\ keystore_file'.value = keystore_file.value
          /\ metadata_file'.value = metadata_file.value
      BY <1>3, FileOutcomes DEF Close, TypeOK
    <2>2. /\ KeyMaps' \subseteq KeyMaps \cup {EmptyMap}
          /\ Profiles' \subseteq Profiles \cup {NewProfile}
      BY <1>3, <2>1 DEF Close, TypeOK, KeyMaps, Profiles
    <2>3. ASSUME NEW t \in Sessions, Making(t)' PROVE SameCall(t)
      BY <1>3, <2>3 DEF Close, TypeOK, Making, SameCall
    <2> QED BY <1>3, <2>2, <2>3 DEF Copies, Close
  <1>4. CASE FlushKeyStore(s)
    <2>1. KeyMaps' = KeyMaps /\ Profiles' = Profiles
      BY <1>4 DEF FlushKeyStore, files, KeyMaps, Profiles
    <2>2. call[s] = Other
      BY <1>4 DEF FlushKeyStore, PendingCall
    <2>3. ASSUME NEW t \in Sessions, Making(t)' PROVE SameCall(t)
      BY <1>4, <2>2, <2>3 DEF FlushKeyStore, TypeOK, Making, SameCall
    <2> QED BY <1>4, <2>1, <2>3 DEF Copies, FlushKeyStore
  <1>5. CASE FlushTruncate(s)
    <2>1. keystore_file'.value = keystore_file.value
      BY <1>5, FileOutcomes DEF FlushTruncate, TypeOK
    <2>2. KeyMaps' = KeyMaps /\ Profiles' = Profiles
      BY <1>5, <2>1 DEF FlushTruncate, KeyMaps, Profiles
    <2>3. ASSUME NEW t \in Sessions, Making(t)' PROVE SameCall(t)
      BY <1>5, <2>3 DEF FlushTruncate, TypeOK, Making, SameCall
    <2> QED BY <1>5, <2>2, <2>3 DEF Copies, FlushTruncate
  <1>6. CASE FlushWrite(s)
    <2>1. keystore_file'.value \in {keys[s], keystore_file.value}
      BY <1>6, FileOutcomes DEF FlushWrite, TypeOK
    <2>2. KeyMaps' \subseteq KeyMaps /\ Profiles' = Profiles
      BY <1>6, <2>1 DEF FlushWrite, KeyMaps, Profiles
    <2>3. ASSUME NEW t \in Sessions, Making(t)' PROVE SameCall(t)
      BY <1>6, <2>3 DEF FlushWrite, TypeOK, Making, SameCall
    <2> QED BY <1>6, <2>2, <2>3 DEF Copies, FlushWrite
  <1>7. CASE FlushFail(s)
    <2>1. keystore_file'.value = keystore_file.value
      BY <1>7, FileOutcomes DEF FlushFail, TypeOK
    <2>2. KeyMaps' = KeyMaps /\ Profiles' = Profiles
      BY <1>7, <2>1 DEF FlushFail, KeyMaps, Profiles
    <2>3. ASSUME NEW t \in Sessions, Making(t)' PROVE SameCall(t)
      BY <1>7, <2>3 DEF FlushFail, TypeOK, Making, SameCall
    <2> QED BY <1>7, <2>2, <2>3 DEF Copies, FlushFail
  <1>8. CASE SaveTruncate(s)
    <2>1. metadata_file'.value = metadata_file.value
      BY <1>8, FileOutcomes DEF SaveTruncate, TypeOK
    <2>2. KeyMaps' = KeyMaps /\ Profiles' = Profiles
      BY <1>8, <2>1 DEF SaveTruncate, KeyMaps, Profiles
    <2>3. ASSUME NEW t \in Sessions, Making(t)' PROVE SameCall(t)
      BY <1>8, <2>3 DEF SaveTruncate, TypeOK, Making, SameCall
    <2> QED BY <1>8, <2>2, <2>3 DEF Copies, SaveTruncate
  <1>9. CASE SaveWrite(s)
    <2>1. metadata_file'.value \in {profile[s], metadata_file.value}
      BY <1>9, FileOutcomes DEF SaveWrite, TypeOK
    <2>2. KeyMaps' = KeyMaps /\ Profiles' \subseteq Profiles
      BY <1>9, <2>1 DEF SaveWrite, KeyMaps, Profiles
    <2>3. ASSUME NEW t \in Sessions, Making(t)' PROVE SameCall(t)
      BY <1>9, <2>3 DEF SaveWrite, TypeOK, Making, SameCall
    <2> QED BY <1>9, <2>2, <2>3 DEF Copies, SaveWrite
  <1>10. CASE SaveFail(s)
    <2>1. metadata_file'.value = metadata_file.value
      BY <1>10, FileOutcomes DEF SaveFail, TypeOK
    <2>2. KeyMaps' = KeyMaps /\ Profiles' = Profiles
      BY <1>10, <2>1 DEF SaveFail, KeyMaps, Profiles
    <2>3. ASSUME NEW t \in Sessions, Making(t)' PROVE SameCall(t)
      BY <1>10, <2>3 DEF SaveFail, TypeOK, Making, SameCall
    <2> QED BY <1>10, <2>2, <2>3 DEF Copies, SaveFail
  <1> QED
    BY <1>1, <1>2, <1>3, <1>4, <1>5, <1>6, <1>7, <1>8, <1>9, <1>10 DEF CopyingStep

LEMMA CopiesKeepRecords ==
    ASSUME RecordInv, TypeInv', Copies
    PROVE  RecordInv'
  <1>1. \A k \in KeyMaps' : \A h \in DOMAIN k : h <= draws'
    BY BlankDocuments DEF RecordInv, Copies
  <1>2. \A k, l \in KeyMaps' : Agree(k, l)
    BY BlankDocuments DEF RecordInv, Copies, Agree
  <1>3. \A p \in Profiles' : Sound(p, draws')
    BY BlankIsSound DEF RecordInv, Copies
  <1>4. \A p, k : k = EmptyMap => Matches(p, k)
    BY BlankDocuments DEF Matches
  <1>5. \A p \in Profiles', k \in KeyMaps' : Matches(p, k)
    BY <1>4, BlankIsSound DEF RecordInv, Copies
  <1>6. ASSUME NEW s \in Sessions PROVE PendingRecord(s)'
    <2>1. CASE Making(s)'
      <3>1. SameCall(s) /\ PendingRecord(s) /\ draws' = draws
        BY <2>1 DEF RecordInv, Copies
      <3> QED BY <3>1 DEF PendingRecord, SameCall, Making
    <2>2. CASE ~Making(s)'
      BY <2>2 DEF PendingRecord, Making
    <2> QED BY <2>1, <2>2
  <1> QED
    BY <1>1, <1>2, <1>3, <1>5, <1>6 DEF RecordInv

\* Profiles and key maps have their types, so ids and handles are numbers.
LEMMA SnapshotTypes ==
    ASSUME TypeInv
    PROVE  /\ \A p \in Profiles : IsProfile(p) /\ References(p) \subseteq Nat
           /\ \A k \in KeyMaps : IsKeyMap(k)
  <1>1. /\ \A p \in Profiles : IsProfile(p)
        /\ \A k \in KeyMaps : IsKeyMap(k)
    BY DEF TypeInv, TypeOK, Profiles, KeyMaps
  <1>2. ASSUME NEW p, IsProfile(p) PROVE References(p) \subseteq Nat
    BY <1>2 DEF IsProfile, IsMap, LocalIdentities, PaymentAccounts, References,
                IsKeyControlled
  <1> QED
    BY <1>1, <1>2

\* The new key is under a handle that no profile and no key map knows.
LEMMA KeyCallKeepsRecords ==
    ASSUME RecordInv, TypeInv', NEW s \in Sessions,
           NEW kind \in {"identity", "account"}, NEW from, NEW secret,
           from # None => /\ kind = "identity"
                          /\ from \in DOMAIN profile[s].identities
                          /\ profile[s].identities[from].status = "active",
           BeginKeyCall(s, kind, from,
                        IF kind = "account" THEN "secp256k1" ELSE "ed25519",
                        secret)
    PROVE  RecordInv'
  <1> DEFINE fresh == draws + 1
             record == [algorithm |-> IF kind = "account" THEN "secp256k1"
                                      ELSE "ed25519",
                        secret |-> secret]
             map == Put(keys[s], fresh, record)
  <1>1. draws \in Nat /\ fresh \in Nat /\ draws < fresh
    BY DEF RecordInv, TypeInv, TypeOK
  <1>2. /\ keys' = [keys EXCEPT ![s] = map]
        /\ call' = [call EXCEPT ![s] = [kind |-> kind, id |-> fresh, from |-> from]]
        /\ stage[s] = "idle" /\ draws' = fresh
        /\ \A t \in Sessions : t # s => stage'[t] = stage[t]
        /\ UNCHANGED <<profile, keystore_file, metadata_file, acknowledged>>
    BY DEF BeginKeyCall, files, RecordInv, TypeInv, TypeOK
  <1>3. keys[s] \in KeyMaps /\ profile[s] \in Profiles
    BY DEF KeyMaps, Profiles
  <1>4. /\ DOMAIN map = DOMAIN keys[s] \cup {fresh}
        /\ map[fresh] = record
        /\ \A h \in DOMAIN keys[s] : h # fresh => map[h] = keys[s][h]
    BY DEF Put
  <1> HIDE DEF map
  <1>5. KeyMaps' \subseteq KeyMaps \cup {map}
    BY <1>2 DEF KeyMaps, RecordInv, TypeInv, TypeOK
  <1>6. Profiles' = Profiles
    BY <1>2 DEF Profiles
  <1>7. /\ \A k \in KeyMaps : \A h \in DOMAIN k : h \in Nat /\ h <= draws
        /\ \A k \in KeyMaps : fresh \notin DOMAIN k
    <2>1. \A k \in KeyMaps : \A h \in DOMAIN k : h \in Nat /\ h <= draws
      BY SnapshotTypes DEF RecordInv, IsKeyMap, IsMap
    <2> QED BY <1>1, <2>1
  <1> HIDE DEF fresh, record
  <1>8. \A k \in KeyMaps' : \A h \in DOMAIN k : h <= draws'
    BY <1>1, <1>2, <1>3, <1>4, <1>5, <1>7
  <1>9. \A k, l \in KeyMaps' : Agree(k, l)
    <2>1. \A k \in KeyMaps : Agree(k, map) /\ Agree(map, k)
      BY <1>3, <1>4, <1>7 DEF RecordInv, Agree
    <2>2. Agree(map, map)
      BY DEF Agree
    <2> QED BY <1>5, <2>1, <2>2 DEF RecordInv
  <1>10. ASSUME NEW p \in Profiles'
         PROVE  Sound(p, draws') /\ \A k \in KeyMaps' : Matches(p, k)
    <2>1. p \in Profiles /\ IsProfile(p) /\ Sound(p, draws)
      BY <1>6, SnapshotTypes DEF RecordInv
    <2>2. Sound(p, draws')
      BY <1>1, <1>2, <2>1, SoundGrows
    <2>3. \A i \in DOMAIN p.identities : p.identities[i].key_handle # fresh
      <3> TAKE i \in DOMAIN p.identities
      <3>1. p.identities[i].key_handle \in Nat /\ p.identities[i].key_handle <= draws
        BY <2>1 DEF Sound, Numbered, IsProfile, IsMap, LocalIdentities
      <3> QED BY <1>1, <3>1 DEF fresh
    <2>4. \A a \in DOMAIN p.payment_accounts : p.payment_accounts[a].key_handle # fresh
      <3> TAKE a \in DOMAIN p.payment_accounts
      <3>1. /\ p.payment_accounts[a].key_handle \in Nat \cup {None}
            /\ p.payment_accounts[a].key_handle # None =>
                  p.payment_accounts[a].key_handle <= draws
        BY <2>1 DEF Sound, Numbered, IsProfile, IsMap, PaymentAccounts
      <3> QED BY <1>1, <3>1, NoneIsNotDrawn DEF fresh
    <2>5. Matches(p, keys[s])
      BY <1>3, <2>1 DEF RecordInv
    <2>6. Matches(p, map)
      BY <1>4, <2>3, <2>4, <2>5 DEF Matches
    <2> QED BY <1>5, <2>1, <2>2, <2>6 DEF RecordInv
  <1>11. ASSUME NEW t \in Sessions PROVE PendingRecord(t)'
    <2>1. CASE t = s
      <3>1. /\ call'[s] = [kind |-> kind, id |-> fresh, from |-> from]
            /\ keys'[s] = map /\ profile'[s] = profile[s]
        BY <1>2 DEF RecordInv, TypeInv, TypeOK
      <3>2. Sound(profile[s], draws) /\ IsProfile(profile[s])
        BY <1>3, SnapshotTypes DEF RecordInv
      <3>3. /\ \A i \in DOMAIN profile[s].identities : i \in Nat /\ i < fresh
            /\ \A a \in DOMAIN profile[s].payment_accounts : a \in Nat /\ a < fresh
        BY <1>1, <3>2 DEF Sound, Numbered, IsProfile, IsMap, fresh
      <3>4. /\ fresh \notin DOMAIN profile[s].identities
            /\ fresh \notin DOMAIN profile[s].payment_accounts
            /\ from # None => from < fresh
        BY <1>1, <3>3
      <3>5. /\ call'[s].id = fresh /\ call'[s].from = from /\ call'[s].kind = kind
            /\ fresh <= draws'
            /\ keys'[s][fresh].algorithm
                  = IF kind = "account" THEN "secp256k1" ELSE "ed25519"
        BY <1>1, <1>2, <1>4, <3>1 DEF record
      <3> QED BY <2>1, <3>1, <3>4, <3>5 DEF PendingRecord
    <2>2. CASE t # s
      <3>1. /\ call'[t] = call[t] /\ keys'[t] = keys[t] /\ profile'[t] = profile[t]
            /\ stage'[t] = stage[t] /\ PendingRecord(t) /\ PendingCall(t)
            /\ call[t] \in Calls
        BY <1>2, <2>2 DEF RecordInv, TypeInv, TypeOK
      <3>2. Making(t) => call[t].id <= draws'
        <4>1. Making(t) => call[t].id \in DOMAIN keys[t]
          BY <3>1 DEF Making, PendingCall
        <4>2. keys[t] \in KeyMaps
          BY DEF KeyMaps
        <4> QED BY <1>1, <1>2, <1>7, <4>1, <4>2 DEF fresh
      <3> QED BY <3>1, <3>2 DEF PendingRecord, Making
    <2> QED BY <2>1, <2>2
  <1> QED
    BY <1>8, <1>9, <1>10, <1>11 DEF RecordInv

\* Key maps stay; one session's profile is replaced, and the session goes on to
\* save it.
LEMMA NewProfileKeepsRecords ==
    ASSUME RecordInv, TypeInv', NEW s \in Sessions, NEW p,
           Sound(p, draws'), \A k \in KeyMaps : Matches(p, k),
           profile' = [profile EXCEPT ![s] = p],
           stage' = [stage EXCEPT ![s] = "save"],
           \A t \in Sessions : t # s => call'[t] = call[t],
           draws' \in Nat, draws <= draws',
           UNCHANGED <<keys, keystore_file, metadata_file>>
    PROVE  RecordInv'
  <1>1. KeyMaps' = KeyMaps /\ Profiles' \subseteq Profiles \cup {p}
    BY DEF KeyMaps, Profiles, RecordInv, TypeInv, TypeOK
  <1>2. draws \in Nat
    BY DEF RecordInv, TypeInv, TypeOK
  <1>3. \A k \in KeyMaps' : \A h \in DOMAIN k : h <= draws'
    <2>1. \A k \in KeyMaps : \A h \in DOMAIN k : h \in Nat /\ h <= draws
      BY SnapshotTypes DEF RecordInv, IsKeyMap, IsMap
    <2> QED BY <1>1, <1>2, <2>1
  <1>4. \A k, l \in KeyMaps' : Agree(k, l)
    BY <1>1 DEF RecordInv
  <1>5. \A q \in Profiles' : Sound(q, draws')
    <2>1. ASSUME NEW q \in Profiles PROVE Sound(q, draws')
      <3>1. IsProfile(q) /\ Sound(q, draws)
        BY SnapshotTypes DEF RecordInv
      <3> QED BY <1>2, <3>1, SoundGrows
    <2> QED BY <1>1, <2>1
  <1>6. \A q \in Profiles', k \in KeyMaps' : Matches(q, k)
    BY <1>1 DEF RecordInv
  <1>7. ASSUME NEW t \in Sessions PROVE PendingRecord(t)'
    <2>1. CASE t = s
      <3>1. stage'[s] = "save"
        BY DEF RecordInv, TypeInv, TypeOK
      <3> QED BY <2>1, <3>1 DEF PendingRecord
    <2>2. CASE t # s
      <3>1. /\ call'[t] = call[t] /\ keys'[t] = keys[t] /\ profile'[t] = profile[t]
            /\ stage'[t] = stage[t] /\ PendingRecord(t) /\ PendingCall(t)
        BY <2>2 DEF RecordInv, TypeInv, TypeOK
      <3>2. Making(t) => call[t].id \in Nat
        <4>1. Making(t) => call[t].id \in DOMAIN keys[t]
          BY <3>1 DEF Making, PendingCall
        <4>2. IsKeyMap(keys[t])
          BY DEF RecordInv, TypeInv, TypeOK
        <4> QED BY <4>1, <4>2 DEF IsKeyMap, IsMap
      <3>3. Making(t) => call[t].id <= draws'
        BY <1>2, <3>1, <3>2 DEF PendingRecord, Making
      <3> QED BY <3>1, <3>3 DEF PendingRecord, Making
    <2> QED BY <2>1, <2>2
  <1> QED
    BY <1>3, <1>4, <1>5, <1>6, <1>7 DEF RecordInv

LEMMA RegisterKeepsRecords ==
    ASSUME RecordInv, TypeInv', NEW s \in Sessions, Register(s)
    PROVE  RecordInv'
  <1> DEFINE c == call[s]
             record == keys[s][c.id]
             p == Registered(profile[s], c, record)
  <1>1. /\ PendingCall(s) /\ PendingRecord(s) /\ stage[s] = "flushed"
        /\ c \in Calls /\ IsKeyMap(keys[s]) /\ IsProfile(profile[s])
        /\ draws \in Nat
    BY DEF RecordInv, TypeInv, TypeOK, Register
  <1>2. /\ c # Other /\ c.kind # "other" /\ c.id \in DOMAIN keys[s]
        /\ c.from # None => c.from \in DOMAIN profile[s].identities
    BY <1>1 DEF PendingCall
  <1>3. c.id \in Nat /\ record \in KeyRecords
    BY <1>1, <1>2 DEF IsKeyMap, IsMap
  <1>4. /\ c.id <= draws
        /\ c.id \notin DOMAIN profile[s].identities
        /\ record.algorithm = IF c.kind = "account" THEN "secp256k1" ELSE "ed25519"
        /\ c.from # None => /\ c.from < c.id
                            /\ profile[s].identities[c.from].status = "active"
    BY <1>1, <1>2 DEF PendingRecord
  <1>5. /\ profile[s] \in Profiles /\ keys[s] \in KeyMaps
        /\ Sound(profile[s], draws)
        /\ \A k \in KeyMaps : Matches(profile[s], k) /\ Agree(k, keys[s])
    BY DEF Profiles, KeyMaps, RecordInv
  <1>6. /\ profile' = [profile EXCEPT ![s] = p]
        /\ stage' = [stage EXCEPT ![s] = "save"]
        /\ UNCHANGED <<keys, call, keystore_file, metadata_file, draws>>
    BY DEF Register, files
  <1> HIDE DEF c, record
  <1>7. Sound(p, draws)
    BY <1>1, <1>2, <1>3, <1>4, <1>5, RegisteredIsSound
  <1>8. ASSUME NEW k \in KeyMaps PROVE Matches(p, k)
    <2>1. c.id \in DOMAIN k => k[c.id] = record
      BY <1>2, <1>5 DEF Agree, record
    <2>2. Matches(profile[s], k)
      BY <1>5
    <2> QED
      BY <1>1, <1>2, <1>3, <1>4, <2>1, <2>2, RegisteredMatches
  <1> HIDE DEF p
  <1>9. Sound(p, draws') /\ draws' \in Nat /\ draws <= draws'
    BY <1>1, <1>6, <1>7
  <1> QED
    BY <1>6, <1>8, <1>9, NewProfileKeepsRecords

LEMMA StepRecords ==
    ASSUME RecordInv, [Next]_vars
    PROVE  RecordInv'
  <1>1. TypeInv /\ TypeInv' /\ TypeOK /\ draws \in Nat
    BY StepType DEF RecordInv, TypeInv, TypeOK
  <1>2. CASE UNCHANGED vars
    <2>1. KeyMaps' = KeyMaps /\ Profiles' = Profiles /\ draws' = draws
      BY <1>2 DEF vars, KeyMaps, Profiles
    <2>2. \A t \in Sessions : Making(t)' => SameCall(t)
      BY <1>2 DEF vars, Making, SameCall
    <2> QED BY <1>1, <2>1, <2>2, CopiesKeepRecords DEF Copies
  <1>3. ASSUME NEW s \in Sessions, Step(s)
        PROVE  RecordInv'
    <2>1. /\ profile[s] \in Profiles /\ IsProfile(profile[s])
          /\ Sound(profile[s], draws)
          /\ \A k \in KeyMaps : Matches(profile[s], k)
      BY <1>1 DEF Profiles, RecordInv, TypeOK
    <2>2. CASE CopyingStep(s)
      BY <1>1, <2>2, CopyingStepsCopy, CopiesKeepRecords
    <2>3. CASE CreateIdentity(s) \/ ImportIdentity(s)
      <3>1. PICK secret : BeginKeyCall(s, "identity", None, "ed25519", secret)
        BY <2>3 DEF CreateIdentity, ImportIdentity
      <3> QED BY <1>1, <3>1, KeyCallKeepsRecords
    <2>4. CASE RotateActiveIdentity(s)
      <3> DEFINE from == ActiveIdentity(profile[s]).value
      <3>1. BeginKeyCall(s, "identity", from, "ed25519", draws + 1)
        BY <2>4 DEF RotateActiveIdentity
      <3>2. /\ from \in DOMAIN profile[s].identities
            /\ profile[s].identities[from].status = "active"
        BY <2>4 DEF RotateActiveIdentity, ActiveIdentity, Ok, Err
      <3> HIDE DEF from
      <3> QED BY <1>1, <3>1, <3>2, KeyCallKeepsRecords
    <2>5. CASE CreatePaymentAccount(s) \/ ImportPaymentAccount(s)
      <3>1. PICK secret : BeginKeyCall(s, "account", None, "secp256k1", secret)
        BY <2>5 DEF CreatePaymentAccount, ImportPaymentAccount
      <3> QED BY <1>1, <3>1, KeyCallKeepsRecords
    <2>6. CASE Register(s)
      BY <1>1, <2>6, RegisterKeepsRecords
    <2>7. ASSUME NEW c, NEW p, BeginSave(s, c, p),
                 Sound(p, draws'), \A k \in KeyMaps : Matches(p, k),
                 draws' \in Nat, draws <= draws'
          PROVE  RecordInv'
      <3>1. /\ profile' = [profile EXCEPT ![s] = p]
            /\ stage' = [stage EXCEPT ![s] = "save"]
            /\ \A t \in Sessions : t # s => call'[t] = call[t]
            /\ UNCHANGED <<keys, keystore_file, metadata_file>>
        BY <1>1, <2>7 DEF BeginSave, files, TypeOK
      <3> QED BY <1>1, <2>7, <3>1, NewProfileKeepsRecords
    <2>8. CASE RegisterWatchPaymentAccount(s)
      <3>1. PICK address \in WatchAddresses :
               BeginSave(s, [kind |-> "account", id |-> draws + 1, from |-> None],
                         AddPaymentAccount(profile[s], draws + 1,
                                           NewPaymentAccount(None, address)))
        BY <2>8 DEF RegisterWatchPaymentAccount
      <3> DEFINE account == NewPaymentAccount(None, address)
                 p == AddPaymentAccount(profile[s], draws + 1, account)
      <3>2. /\ account \in PaymentAccounts /\ account.key_handle = None
            /\ account.status = "active"
        BY DEF NewPaymentAccount, PaymentAccounts, Addresses, PaymentAccountStatus
      <3>3. draws' = draws + 1 /\ draws' \in Nat /\ draws <= draws'
        BY <1>1, <2>8 DEF RegisterWatchPaymentAccount
      <3> HIDE DEF account
      <3>4. Sound(profile[s], draws')
        BY <1>1, <2>1, <3>3, SoundGrows
      <3>5. /\ p.identities = profile[s].identities
            /\ p.payment_accounts
                  = Put(profile[s].payment_accounts, draws + 1, account)
        BY <1>1, <2>1, <3>2, AddPaymentAccountIsProfile
      <3>6. Sound(p, draws')
        BY <2>1, <3>2, <3>3, <3>4, AddPaymentAccountIsSound
      <3>7. ASSUME NEW k \in KeyMaps PROVE Matches(p, k)
        <4>1. None \notin DOMAIN k
          BY <1>1, SnapshotTypes, NoneIsNotDrawn DEF IsKeyMap, IsMap
        <4>2. account.key_handle \notin DOMAIN k /\ Matches(profile[s], k)
          BY <2>1, <3>2, <4>1
        <4> HIDE DEF p
        <4> QED BY <3>5, <4>2, PutAccountMatches
      <3>8. BeginSave(s, [kind |-> "account", id |-> draws + 1, from |-> None], p)
        BY <3>1 DEF account
      <3> HIDE DEF p
      <3> QED BY <2>7, <3>3, <3>6, <3>7, <3>8
    <2>9. CASE SetActiveIdentity(s)
      <3>1. PICK id \in DOMAIN profile[s].identities :
               BeginSave(s, Other, SetActiveIdentityId(profile[s], id))
        BY <2>9 DEF SetActiveIdentity
      <3>2. draws' = draws
        BY <2>9 DEF SetActiveIdentity
      <3>3. /\ Sound(SetActiveIdentityId(profile[s], id), draws)
            /\ \A k \in KeyMaps : Matches(SetActiveIdentityId(profile[s], id), k)
        BY <2>1, SelectionIsSound
      <3> QED BY <1>1, <2>7, <3>1, <3>2, <3>3
    <2>10. CASE SetActivePaymentAccount(s)
      <3>1. PICK id \in DOMAIN profile[s].payment_accounts :
               BeginSave(s, Other, SetActivePaymentAccountId(profile[s], id))
        BY <2>10 DEF SetActivePaymentAccount
      <3>2. draws' = draws
        BY <2>10 DEF SetActivePaymentAccount
      <3>3. /\ Sound(SetActivePaymentAccountId(profile[s], id), draws)
            /\ \A k \in KeyMaps : Matches(SetActivePaymentAccountId(profile[s], id), k)
        BY <2>1, SelectionIsSound
      <3> QED BY <1>1, <2>7, <3>1, <3>2, <3>3
    <2>11. CASE SaveProfile(s)
      <3>1. BeginSave(s, Other, profile[s]) /\ draws' = draws
        BY <2>11 DEF SaveProfile
      <3> QED BY <1>1, <2>1, <2>7, <3>1
    <2> QED
      BY <1>3, <2>2, <2>3, <2>4, <2>5, <2>6, <2>8, <2>9, <2>10, <2>11
         DEF Step, CopyingStep
  <1> QED
    BY <1>2, <1>3 DEF Next

LEMMA RecordsHold == Spec => []RecordInv
  BY InitRecord, StepRecords, PTL DEF Spec

-----------------------------------------------------------------------------
(* Theorems, for any number of sessions.                                   *)

\* Rotation builds chains that neither fork nor merge, in every profile, on
\* disk and in memory, however sessions fail and overwrite each other
\* (rotate_active_identity, rotate_identity).
THEOREM LineageHolds == Spec => []RotationLineage
  <1>1. RecordInv => RotationLineage
    BY DEF RecordInv, Sound, RotationLineage
  <1> QED
    BY RecordsHold, <1>1, PTL

LEMMA EmptyMapIsTheOnly ==
    ASSUME NEW map, NEW D, NEW R, IsMap(map, D, R), DOMAIN map = {}
    PROVE  map = EmptyMap
  BY DEF IsMap, EmptyMap

\* No selection dangles, and where there are identities, one that
\* active_identity accepts can be selected (set_active_identity,
\* rotate_identity, add_identity and add_payment_account).
THEOREM SelectionsStaySound == Spec => []SelectionsAreSound
  <1>1. ASSUME RecordInv PROVE SelectionsAreSound
    <2> SUFFICES ASSUME NEW p \in Profiles
        PROVE  /\ p.identities = EmptyMap => p.active_identity_id = None
               /\ p.identities # EmptyMap =>
                     /\ p.active_identity_id \in DOMAIN p.identities
                     /\ \E id \in DOMAIN p.identities :
                           ActiveIdentity(SetActiveIdentityId(p, id)).ok
               /\ p.payment_accounts = EmptyMap =>
                     p.active_payment_account_id = None
               /\ p.payment_accounts # EmptyMap =>
                     /\ p.active_payment_account_id \in DOMAIN p.payment_accounts
                     /\ ActivePaymentAccount(p).ok
      BY DEF SelectionsAreSound
    <2>1. Usable(p) /\ IsProfile(p)
      BY <1>1, SnapshotTypes DEF RecordInv, Sound
    <2>2. /\ DOMAIN p.identities = {} => p.identities = EmptyMap
          /\ DOMAIN p.payment_accounts = {} => p.payment_accounts = EmptyMap
      BY <2>1, EmptyMapIsTheOnly DEF IsProfile
    <2>3. ASSUME p.identities # EmptyMap
          PROVE  \E id \in DOMAIN p.identities :
                     ActiveIdentity(SetActiveIdentityId(p, id)).ok
      <3>1. PICK id \in DOMAIN p.identities : p.identities[id].status = "active"
        BY <2>1, <2>2, <2>3 DEF Usable
      <3>2. /\ SetActiveIdentityId(p, id).active_identity_id = id
            /\ SetActiveIdentityId(p, id).identities = p.identities
        BY <2>1 DEF SetActiveIdentityId, IsProfile
      <3>3. ActiveIdentity(SetActiveIdentityId(p, id)).ok
        BY <3>1, <3>2 DEF ActiveIdentity, Ok
      <3> QED BY <3>3
    <2>4. p.payment_accounts # EmptyMap => ActivePaymentAccount(p).ok
      BY <2>1, <2>2 DEF Usable, ActivePaymentAccount, Ok
    <2>5. /\ p.identities = EmptyMap => DOMAIN p.identities = {}
          /\ p.payment_accounts = EmptyMap => DOMAIN p.payment_accounts = {}
      BY DEF EmptyMap
    <2> QED
      BY <2>1, <2>2, <2>3, <2>4, <2>5 DEF Usable
  <1> QED
    BY RecordsHold, <1>1, PTL

\* A handle leads to the key it was made for: in every key map that has it, the
\* key under a record's handle has the DID or the address that the record names
\* (generate and import in KeyStore, build_identity_from_key_info,
\* build_web3_evm_payment_account).
THEOREM HandlesKeepTheirKeys == Spec => []KeysMatchRecords
  <1>1. ASSUME RecordInv PROVE KeysMatchRecords
    <2>1. ASSUME NEW p \in Profiles, NEW k \in KeyMaps,
                 NEW i \in DOMAIN p.identities,
                 p.identities[i].key_handle \in DOMAIN k
          PROVE  LET h == p.identities[i].key_handle
                 IN /\ PublicKeyInfo(k, h).value.did = p.identities[i].did
                    /\ ExportSecret(k, h, "ed25519").ok
      <3>1. Matches(p, k)
        BY <1>1 DEF RecordInv
      <3> QED BY <2>1, <3>1 DEF Matches, PublicKeyInfo, ExportSecret, Ok, Err
    <2>2. ASSUME NEW p \in Profiles, NEW k \in KeyMaps,
                 NEW a \in DOMAIN p.payment_accounts,
                 p.payment_accounts[a].key_handle \in DOMAIN k
          PROVE  LET h == p.payment_accounts[a].key_handle
                 IN /\ PublicKeyInfo(k, h).value.derived_address
                          = p.payment_accounts[a].address
                    /\ ExportSecret(k, h, "secp256k1").ok
      <3>1. Matches(p, k)
        BY <1>1 DEF RecordInv
      <3> QED BY <2>2, <3>1 DEF Matches, PublicKeyInfo, ExportSecret, Ok, Err
    <2> QED BY <2>1, <2>2 DEF KeysMatchRecords
  <1> QED
    BY RecordsHold, <1>1, PTL

\* A token verifies for the issuer it names exactly when that is the DID of the
\* identity active as it is signed (Wallet::sign_capability_token).
THEOREM TokensTellTheirSigner == Spec => []TokensNameTheirSigner
  <1>1. ASSUME RecordInv PROVE TokensNameTheirSigner
    <2> SUFFICES ASSUME NEW s \in Sessions, NEW i \in DOMAIN profile[s].identities
        PROVE  LET p == profile[s]
                   issuer == p.identities[i].did
                   token == SignCapabilityToken(p, keys[s],
                                [issuer_did |-> issuer, grant |-> "invoke"])
               IN token.ok => (TokenVerifies(token.value, issuer)
                                  <=> p.identities[p.active_identity_id].did = issuer)
      BY DEF TokensNameTheirSigner
    <2> DEFINE p == profile[s]
               issuer == p.identities[i].did
               options == [issuer_did |-> issuer, grant |-> "invoke"]
               active == p.active_identity_id
               h == p.identities[active].key_handle
               claims == [iss |-> issuer, grant |-> "invoke"]
               token == SignCapabilityToken(p, keys[s], options)
    <2>1. IsProfile(p) /\ Matches(p, keys[s])
      BY <1>1, SnapshotTypes DEF RecordInv, Profiles, KeyMaps
    <2>2. issuer \in Dids
      BY <2>1 DEF IsProfile, IsMap, LocalIdentities
    <2>3. issuer = <<"did:key", issuer[2]>>
      BY <2>2 DEF Dids
    <2> SUFFICES ASSUME token.ok
        PROVE  TokenVerifies(token.value, issuer)
                  <=> p.identities[active].did = issuer
      OBVIOUS
    <2>4. /\ active \in DOMAIN p.identities
          /\ token = SignToken(keys[s], h, options)
      BY DEF SignCapabilityToken, ActiveIdentity, Ok, Err
    <2>5. /\ h \in DOMAIN keys[s]
          /\ token.value = [claims |-> claims,
                            signature |-> [signer |-> PublicKey(keys[s][h]),
                                           payload |-> claims]]
      BY <2>4 DEF SignToken, SignBytes, Ok, Err
    <2>6. /\ keys[s][h].algorithm = "ed25519"
          /\ p.identities[active].did = <<"did:key", PublicKey(keys[s][h])>>
          /\ PublicKey(keys[s][h])[1] = "ed25519"
      BY <2>1, <2>4, <2>5 DEF Matches, DidOf, PublicKey
    <2> HIDE DEF p, issuer, options, active, h, claims, token
    <2>7. /\ token.value.claims.iss = issuer
          /\ token.value.signature = [signer |-> PublicKey(keys[s][h]),
                                      payload |-> token.value.claims]
      BY <2>5 DEF claims
    <2>8. TokenVerifies(token.value, issuer) => PublicKey(keys[s][h]) = issuer[2]
      <3>1. TokenVerifies(token.value, issuer) =>
               token.value.signature = [signer |-> issuer[2],
                                        payload |-> token.value.claims]
        BY DEF TokenVerifies
      <3>2. token.value.signature.signer = PublicKey(keys[s][h])
        BY <2>7
      <3> QED BY <3>1, <3>2
    <2>9. p.identities[active].did = issuer => issuer[2] = PublicKey(keys[s][h])
      BY <2>6
    <2>10. issuer[2] = PublicKey(keys[s][h]) => TokenVerifies(token.value, issuer)
      BY <2>6, <2>7 DEF TokenVerifies
    <2> QED
      BY <2>3, <2>6, <2>8, <2>9, <2>10
  <1> QED
    BY RecordsHold, <1>1, PTL

\* A signature verifies under the identities with its signer's DID and under no
\* other, in every session (sign_payload_json, verify_payload_json).
THEOREM SignaturesNameSigners == Spec => []SignaturesTellSigners
  <1>1. ASSUME RecordInv PROVE SignaturesTellSigners
    <2> SUFFICES ASSUME NEW s \in Sessions, NEW t \in Sessions,
                        NEW i \in DOMAIN profile[s].identities,
                        NEW j \in DOMAIN profile[t].identities
        PROVE  LET signer == profile[s].identities[i]
                   reader == profile[t].identities[j]
                   signature == SignPayloadJson(keys[s], signer.key_handle, "hello")
               IN signature.ok /\ reader.key_handle \in DOMAIN keys[t] =>
                     (VerifyPayloadJson(keys[t], reader.key_handle, "hello",
                                        signature.value).ok
                         <=> signer.did = reader.did)
      BY DEF SignaturesTellSigners
    <2> DEFINE signer == profile[s].identities[i]
               reader == profile[t].identities[j]
               signature == SignPayloadJson(keys[s], signer.key_handle, "hello")
               mine == PublicKey(keys[s][signer.key_handle])
               theirs == PublicKey(keys[t][reader.key_handle])
    <2> SUFFICES ASSUME signature.ok, reader.key_handle \in DOMAIN keys[t]
        PROVE  VerifyPayloadJson(keys[t], reader.key_handle, "hello",
                                 signature.value).ok
                  <=> signer.did = reader.did
      OBVIOUS
    <2>1. /\ signer.key_handle \in DOMAIN keys[s]
          /\ signature.value = [signer |-> mine, payload |-> "hello"]
      BY DEF SignPayloadJson, SignBytes, Ok, Err
    <2>2. Matches(profile[s], keys[s]) /\ Matches(profile[t], keys[t])
      BY <1>1 DEF RecordInv, Profiles, KeyMaps
    <2>3. signer.did = <<"did:key", mine>> /\ reader.did = <<"did:key", theirs>>
      BY <2>1, <2>2 DEF Matches, DidOf
    <2> HIDE DEF signature, mine, theirs
    <2>4. VerifyPayloadJson(keys[t], reader.key_handle, "hello", signature.value).ok
             <=> signature.value = [signer |-> theirs, payload |-> "hello"]
      BY DEF VerifyPayloadJson, VerifyBytes, Ok, Err, theirs
    <2>5. signature.value = [signer |-> theirs, payload |-> "hello"] <=> mine = theirs
      BY <2>1
    <2> HIDE DEF signer, reader
    <2>6. signer.did = reader.did <=> mine = theirs
      BY <2>3
    <2> QED
      BY <2>4, <2>5, <2>6
  <1> QED
    BY RecordsHold, <1>1, PTL

=============================================================================
