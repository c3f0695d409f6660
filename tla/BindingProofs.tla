---------------------------- MODULE BindingProofs ----------------------------
(***************************************************************************)
(* Proofs about payment account binding, for every value of the constants. *)
(*                                                                         *)
(* What verification accepts was signed as it stands, because of two facts *)
(* that every step keeps: the signatures of a proof that was built are on  *)
(* its own challenge (Sealed), and whatever happens to a proof on its way, *)
(* its signatures are still signatures of proofs that were built (Sourced).*)
(***************************************************************************)
EXTENDS Binding, FiniteSetTheorems, TLAPS

\* Both signatures of p are on the challenge of p, which their envelopes carry;
\* the address is that of the account's public key.
Sealed(p) ==
    LET agent == p.agent_proof
        payment == p.payment_account_proof
    IN /\ agent.challenge = Challenge(p)
       /\ agent.value.payload = Challenge(p)
       /\ agent.verification_method # None
       /\ payment = None => p.custody = "watch_only"
       /\ payment # None =>
             /\ payment.challenge = Challenge(p)
             /\ payment.value.payload = Challenge(p)
             /\ payment.verification_method # None
             /\ payment.verification_method[1] = "secp256k1"
             /\ AddressFromPublicKey(payment.verification_method)
                   = Ok(p.payment_address)

\* The signatures that came with p were made for proofs that were built.
Sourced(p) ==
    /\ \E q \in built : p.agent_proof.value = q.agent_proof.value
    /\ p.payment_account_proof # None =>
          \E q \in built :
             /\ q.payment_account_proof # None
             /\ p.payment_account_proof.value = q.payment_account_proof.value

BindingInv ==
    /\ TypeOK
    /\ \A p \in built : Sealed(p)
    /\ received # None => Sourced(received)

-----------------------------------------------------------------------------
(* Keys and requests.                                                      *)

LEMMA PutIsKeyMap ==
    ASSUME NEW map, IsKeyMap(map), NEW h \in Nat, NEW record \in KeyRecords
    PROVE  IsKeyMap(Put(map, h, record))
  BY DEF IsKeyMap, IsMap, Put

LEMMA PublicKeyType ==
    ASSUME NEW record \in KeyRecords
    PROVE  PublicKey(record) \in PublicKeys
  BY DEF KeyRecords, PublicKey, PublicKeys

\* A signature made with any key of a key map.
LEMMA SignBytesType ==
    ASSUME NEW map, IsKeyMap(map), NEW h, NEW payload \in Challenges,
           SignBytes(map, h, payload).ok
    PROVE  /\ SignBytes(map, h, payload).value \in Signatures
           /\ SignBytes(map, h, payload).value.payload = payload
  <1>1. h \in DOMAIN map
    BY DEF SignBytes, Err
  <1>2. map[h] \in KeyRecords
    BY <1>1 DEF IsKeyMap, IsMap
  <1>3. PublicKey(map[h]) \in PublicKeys
    BY <1>2, PublicKeyType
  <1>4. SignBytes(map, h, payload)
          = Ok([signer |-> PublicKey(map[h]), payload |-> payload])
    BY <1>1 DEF SignBytes
  <1> QED
    BY <1>3, <1>4 DEF Signatures, Ok

Signers == [key_handle : Nat, public_key : PublicKeys]

\* The options a caller can name, by type.
OptionsType(options) ==
    /\ options.agent_did \in {"did:key"} \X PublicKeys
    /\ options.agent_public_key \in PublicKeys
    /\ options.custody \in Custodies
    /\ options.terms \in Terms
    /\ options.payment_signer \in Signers \cup {None}
    /\ options.watch_only_payment_address \in Addresses \cup {None}

LEMMA KnownDidsType ==
    ASSUME infos \subseteq Infos
    PROVE  KnownDids \subseteq {"did:key"} \X PublicKeys
  BY DEF KnownDids, Infos

LEMMA RequestsType ==
    ASSUME infos \subseteq Infos, NEW options \in Requests
    PROVE  OptionsType(options)
  <1> DEFINE S == [key_handle : {i.key_handle : i \in infos},
                   public_key : {i.public_key : i \in infos}]
             W == [account : WatchedAccounts, spelling : {"mixed"}]
  <1>1. S \subseteq Signers
    BY DEF Infos, Signers
  <1>2. W \subseteq Addresses
    BY DEF Addresses, Spellings
  <1>3. PICK did \in KnownDids, agent \in S, custody \in Custodies,
             terms \in Terms, payer \in S \cup {None}, watched \in W \cup {None} :
          options = [agent_did                  |-> did,
                     agent_key_handle           |-> agent.key_handle,
                     agent_public_key           |-> agent.public_key,
                     custody                    |-> custody,
                     terms                      |-> terms,
                     payment_signer             |-> payer,
                     watch_only_payment_address |-> watched]
    BY DEF Requests
  <1>4. agent.public_key \in PublicKeys
    BY <1>1 DEF Signers
  <1>5. did \in {"did:key"} \X PublicKeys
    BY KnownDidsType
  <1> QED
    BY <1>1, <1>2, <1>3, <1>4, <1>5 DEF OptionsType

-----------------------------------------------------------------------------
(* Building.                                                               *)

LEMMA AddressType ==
    ASSUME NEW key \in PublicKeys, AddressFromPublicKey(key).ok
    PROVE  /\ key[1] = "secp256k1"
           /\ AddressFromPublicKey(key) = Ok(AddressFromPublicKey(key).value)
           /\ AddressFromPublicKey(key)
                 = Ok([account |-> <<"0x", key[2]>>, spelling |-> "lower"])
           /\ AddressFromPublicKey(key).value \in Addresses
  BY DEF PublicKeys, AddressFromPublicKey, Ok, Err, Addresses, Spellings

LEMMA ResolvedAddress ==
    ASSUME NEW options, OptionsType(options), ResolvePaymentAddress(options).ok
    PROVE  /\ ResolvePaymentAddress(options).value \in Addresses
           /\ options.payment_signer # None =>
                 /\ options.payment_signer \in Signers
                 /\ options.payment_signer.public_key[1] = "secp256k1"
                 /\ AddressFromPublicKey(options.payment_signer.public_key)
                       = Ok(ResolvePaymentAddress(options).value)
  <1>1. CASE options.payment_signer # None
    <2>1. options.payment_signer \in Signers
      BY <1>1 DEF OptionsType
    <2>2. options.payment_signer.public_key \in PublicKeys
      BY <2>1 DEF Signers
    <2>3. ResolvePaymentAddress(options)
            = AddressFromPublicKey(options.payment_signer.public_key)
      BY <1>1 DEF ResolvePaymentAddress
    <2>4. AddressFromPublicKey(options.payment_signer.public_key).ok
      BY <2>3
    <2> QED
      BY <2>1, <2>2, <2>3, <2>4, AddressType
  <1>2. CASE options.payment_signer = None
    BY <1>2 DEF ResolvePaymentAddress, OptionsType, Ok, Err
  <1> QED
    BY <1>1, <1>2

LEMMA EnvelopeType ==
    ASSUME NEW signature \in Signatures, NEW key \in PublicKeys,
           NEW challenge \in Challenges
    PROVE  /\ Envelope(signature, key, challenge) \in Envelopes
           /\ Envelope(signature, key, challenge) # None
           /\ Envelope(signature, key, challenge).value = signature
           /\ Envelope(signature, key, challenge).verification_method = key
           /\ Envelope(signature, key, challenge).challenge = challenge
  BY NoneIsAbsent DEF Envelope, Envelopes

\* A proof that is built carries signatures on its own challenge.
LEMMA BuiltIsSealed ==
    ASSUME NEW map, IsKeyMap(map), NEW agent_map, IsKeyMap(agent_map),
           NEW options, OptionsType(options),
           BuildWithAgentSigner(map, agent_map, options).ok
    PROVE  /\ BuildWithAgentSigner(map, agent_map, options).value \in Proofs
           /\ Sealed(BuildWithAgentSigner(map, agent_map, options).value)
  <1> DEFINE address == ResolvePaymentAddress(options)
             fields == [agent_did       |-> options.agent_did,
                        payment_address |-> address.value,
                        custody         |-> options.custody,
                        terms           |-> options.terms]
             challenge == Challenge(fields)
             agent == SignBytes(agent_map, options.agent_key_handle, challenge)
             payer == options.payment_signer
             payment == IF payer = None THEN Ok(None)
                        ELSE SignBytes(map, payer.key_handle, challenge)
             agent_proof == Envelope(agent.value, options.agent_public_key,
                                     challenge)
             payment_proof == IF payer = None THEN None
                              ELSE Envelope(payment.value, payer.public_key,
                                            challenge)
             proof == [agent_did       |-> fields.agent_did,
                       payment_address |-> fields.payment_address,
                       custody         |-> fields.custody,
                       terms           |-> fields.terms,
                       agent_proof     |-> agent_proof,
                       payment_account_proof |-> payment_proof]
  <1>1. /\ address.ok /\ agent.ok /\ payment.ok /\ ValidateBasic(proof)
        /\ BuildWithAgentSigner(map, agent_map, options) = Ok(proof)
    BY DEF BuildWithAgentSigner, Ok, Err
  <1>2. /\ address.value \in Addresses
        /\ payer # None => /\ payer \in Signers
                           /\ payer.public_key[1] = "secp256k1"
                           /\ AddressFromPublicKey(payer.public_key)
                                 = Ok(address.value)
    BY <1>1, ResolvedAddress
  <1>3. challenge \in Challenges
    BY <1>2 DEF Challenge, Challenges, OptionsType
  <1>4. Challenge(proof) = challenge
    BY DEF Challenge
  <1>5. /\ agent.value \in Signatures
        /\ agent.value.payload = challenge
    BY <1>1, <1>3, SignBytesType
  <1>6. /\ agent_proof \in Envelopes
        /\ agent_proof.value = agent.value
        /\ agent_proof.verification_method = options.agent_public_key
        /\ agent_proof.challenge = challenge
    BY <1>3, <1>5, EnvelopeType DEF OptionsType
  <1>7. ASSUME payer # None
        PROVE  /\ payment_proof \in Envelopes
               /\ payment_proof # None
               /\ payment_proof.value.payload = challenge
               /\ payment_proof.verification_method = payer.public_key
               /\ payment_proof.challenge = challenge
    <2>1. /\ payment.value \in Signatures
          /\ payment.value.payload = challenge
      BY <1>1, <1>3, <1>7, SignBytesType
    <2>2. payer.public_key \in PublicKeys
      BY <1>2, <1>7 DEF Signers
    <2>3. payment_proof = Envelope(payment.value, payer.public_key, challenge)
      BY <1>7
    <2> QED
      BY <2>1, <2>2, <2>3, <1>3, EnvelopeType
  <1>8. payer = None => payment_proof = None
    OBVIOUS
  <1>9. None \notin PublicKeys
    BY NoneIsAbsent
  <1>10. proof \in Proofs
    <2>1. /\ fields.agent_did \in {"did:key"} \X PublicKeys
          /\ fields.payment_address \in Addresses
          /\ fields.custody \in Custodies
          /\ fields.terms \in Terms
      BY <1>2 DEF OptionsType
    <2>2. payment_proof \in Envelopes \cup {None}
      BY <1>7, <1>8
    <2> HIDE DEF fields, agent_proof, payment_proof
    <2> QED
      BY <2>1, <2>2, <1>6 DEF Proofs
  <1>11. Sealed(proof)
    <2>1. proof.custody = "watch_only" \/ payment_proof # None
      BY <1>1 DEF ValidateBasic
    <2>2. payer # None => payer.public_key \in PublicKeys
      BY <1>2 DEF Signers
    <2>3. /\ proof.payment_address = address.value
          /\ proof.agent_proof = agent_proof
          /\ proof.payment_account_proof = payment_proof
      OBVIOUS
    <2>4. options.agent_public_key \in PublicKeys
      BY DEF OptionsType
    <2> HIDE DEF proof, agent_proof, payment_proof, challenge, agent, payer,
                 address
    <2> QED
      BY <2>1, <2>2, <2>3, <2>4, <1>2, <1>4, <1>5, <1>6, <1>7, <1>8, <1>9
         DEF Sealed
  <1> QED
    BY <1>1, <1>10, <1>11 DEF Ok

-----------------------------------------------------------------------------
(* Verifying.                                                              *)

\* What it takes to be accepted.
LEMMA AcceptedMeans ==
    ASSUME NEW p, p.agent_proof.verification_method \in PublicKeys \cup {None},
           p.payment_account_proof # None =>
              p.payment_account_proof.verification_method \in PublicKeys \cup {None},
           VerifyPaymentAccountBinding(p).ok
    PROVE  LET agent == p.agent_proof
               payment == p.payment_account_proof
           IN /\ agent.verification_method[1] = "ed25519"
              /\ agent.value = [signer  |-> agent.verification_method,
                                payload |-> Challenge(p)]
              /\ payment = None => p.custody = "watch_only"
              /\ payment # None =>
                    /\ payment.verification_method \in PublicKeys
                    /\ payment.value = [signer  |-> payment.verification_method,
                                        payload |-> Challenge(p)]
                    /\ AddressFromPublicKey(payment.verification_method).ok
                    /\ AddressesEqual(
                          AddressFromPublicKey(payment.verification_method).value,
                          p.payment_address)
  <1> DEFINE agent == p.agent_proof
             payment == p.payment_account_proof
             challenge == Challenge(p)
             derived == AddressFromPublicKey(payment.verification_method)
  <1>1. /\ ValidateBasic(p)
        /\ VerifyEnvelope(agent, "ed25519", challenge).ok
    BY DEF VerifyPaymentAccountBinding, Err
  <1>2. /\ agent.verification_method[1] = "ed25519"
        /\ agent.value = [signer |-> agent.verification_method, payload |-> challenge]
    BY <1>1 DEF VerifyEnvelope, VerifyWithPublicKey, Err
  <1>3. ASSUME payment # None
        PROVE  /\ VerifyEnvelope(payment, "secp256k1", challenge).ok
               /\ payment.verification_method # None =>
                     derived.ok /\ AddressesEqual(derived.value, p.payment_address)
    BY <1>1, <1>3 DEF VerifyPaymentAccountBinding, Err
  <1>4. ASSUME payment # None
        PROVE  /\ payment.verification_method # None
               /\ payment.value = [signer  |-> payment.verification_method,
                                   payload |-> challenge]
    BY <1>3, <1>4 DEF VerifyEnvelope, VerifyWithPublicKey, Err
  <1> HIDE DEF derived, challenge
  <1> QED
    BY <1>1, <1>2, <1>3, <1>4 DEF ValidateBasic, derived, challenge

\* A proof whose signatures were made with the keys it names is accepted, if
\* the agent's is an Ed25519 key; no other sealed proof is.
LEMMA SealedVerdict ==
    ASSUME NEW p \in Proofs, Sealed(p)
    PROVE  VerifyPaymentAccountBinding(p).ok <=> SignedAsNamed(p)
  <1> DEFINE agent == p.agent_proof
             payment == p.payment_account_proof
             challenge == Challenge(p)
  <1>0. /\ agent \in Envelopes
        /\ payment # None => payment \in Envelopes
        /\ p.payment_address \in Addresses
    BY DEF Proofs
  <1>1. ASSUME VerifyPaymentAccountBinding(p).ok
        PROVE  SignedAsNamed(p)
    <2>1. /\ agent.verification_method \in PublicKeys \cup {None}
          /\ payment # None => payment.verification_method \in PublicKeys \cup {None}
      BY <1>0 DEF Envelopes
    <2>2. /\ agent.verification_method[1] = "ed25519"
          /\ agent.value = [signer  |-> agent.verification_method,
                            payload |-> challenge]
          /\ payment # None =>
                payment.value = [signer  |-> payment.verification_method,
                                 payload |-> challenge]
      BY <1>1, <2>1, AcceptedMeans
    <2> HIDE DEF challenge
    <2> QED
      BY <2>2 DEF SignedAsNamed
  <1>2. ASSUME SignedAsNamed(p)
        PROVE  VerifyPaymentAccountBinding(p).ok
    <2>1. agent.value = [signer |-> agent.verification_method, payload |-> challenge]
      BY <1>0, <1>2 DEF SignedAsNamed, Sealed, Envelopes, Signatures
    <2>2. VerifyEnvelope(agent, "ed25519", challenge) = Ok({})
      BY <1>2, <2>1 DEF SignedAsNamed, Sealed, VerifyEnvelope, VerifyWithPublicKey
    <2>3. ValidateBasic(p)
      BY DEF Sealed, ValidateBasic
    <2>4. CASE payment = None
      BY <2>2, <2>3, <2>4 DEF VerifyPaymentAccountBinding, Ok
    <2>5. CASE payment # None
      <3>1. payment.value = [signer  |-> payment.verification_method,
                             payload |-> challenge]
        BY <1>0, <1>2, <2>5 DEF SignedAsNamed, Sealed, Envelopes, Signatures
      <3>2. VerifyEnvelope(payment, "secp256k1", challenge) = Ok({})
        BY <2>5, <3>1 DEF Sealed, VerifyEnvelope, VerifyWithPublicKey
      <3>3. /\ AddressFromPublicKey(payment.verification_method).ok
            /\ AddressesEqual(AddressFromPublicKey(payment.verification_method).value,
                              p.payment_address)
        BY <2>5 DEF Sealed, Ok, AddressesEqual
      <3> QED
        BY <2>2, <2>3, <2>5, <3>2, <3>3 DEF VerifyPaymentAccountBinding, Ok
    <2> QED
      BY <2>4, <2>5
  <1> QED
    BY <1>1, <1>2

-----------------------------------------------------------------------------
(* Every step.                                                             *)

LEMMA InitBinding == Init => BindingInv
  BY FS_EmptySet DEF Init, BindingInv, TypeOK, IsKeyMap, IsMap, EmptyMap

LEMMA MakeKeyKeeps ==
    ASSUME BindingInv, MakeKey
    PROVE  BindingInv'
  <1>1. PICK algorithm \in Algorithms, imported \in Seeds \cup {None} :
          LET handle == Cardinality(infos) + 1
              record == [algorithm |-> algorithm,
                         secret |-> IF imported = None THEN handle
                                    ELSE imported]
          IN /\ infos' = infos \cup {[key_handle |-> handle,
                                      public_key |-> PublicKey(record)]}
             /\ \/ /\ keys' = Put(keys, handle, record)
                   /\ UNCHANGED agent_keys
                \/ /\ algorithm = "ed25519"
                   /\ agent_keys' = Put(agent_keys, handle, record)
                   /\ UNCHANGED keys
    BY DEF MakeKey
  <1> DEFINE handle == Cardinality(infos) + 1
             record == [algorithm |-> algorithm,
                        secret |-> IF imported = None THEN handle ELSE imported]
             info == [key_handle |-> handle, public_key |-> PublicKey(record)]
  <1>2. handle \in Nat
    BY FS_CardinalityType DEF BindingInv, TypeOK
  <1>3. record \in KeyRecords
    BY <1>2 DEF KeyRecords, Secrets
  <1> HIDE DEF handle, record
  <1>4. info \in Infos
    BY <1>2, <1>3, PublicKeyType DEF Infos
  <1>5. infos' = infos \cup {info}
    BY <1>1 DEF handle, record
  <1>6. IsKeyMap(keys') /\ IsKeyMap(agent_keys')
    <2>1. /\ keys' = Put(keys, handle, record) \/ keys' = keys
          /\ agent_keys' = Put(agent_keys, handle, record) \/ agent_keys' = agent_keys
      BY <1>1 DEF handle, record
    <2> QED
      BY <1>2, <1>3, <2>1, PutIsKeyMap DEF BindingInv, TypeOK
  <1>7. infos' \subseteq Infos /\ IsFiniteSet(infos')
    BY <1>4, <1>5, FS_AddElement DEF BindingInv, TypeOK
  <1>8. UNCHANGED <<built, received, changes>>
    BY DEF MakeKey
  <1> QED
    BY <1>6, <1>7, <1>8 DEF BindingInv, TypeOK, Sourced

LEMMA BuildKeeps ==
    ASSUME BindingInv, BuildProof \/ BuildProofWithAgentSigner
    PROVE  BindingInv'
  <1>1. PICK agent_map \in {keys, agent_keys}, options \in Requests :
          /\ BuildWithAgentSigner(keys, agent_map, options).ok
          /\ built' = built
                \cup {BuildWithAgentSigner(keys, agent_map, options).value}
    BY DEF BuildProof, BuildProofWithAgentSigner, Build
  <1> DEFINE proof == BuildWithAgentSigner(keys, agent_map, options).value
  <1>2. OptionsType(options)
    BY RequestsType DEF BindingInv, TypeOK
  <1>3. proof \in Proofs /\ Sealed(proof)
    BY <1>1, <1>2, BuiltIsSealed DEF BindingInv, TypeOK
  <1>4. built' = built \cup {proof}
    BY <1>1
  <1> HIDE DEF proof
  <1>5. UNCHANGED <<store, received, changes>>
    BY DEF BuildProof, BuildProofWithAgentSigner
  <1> QED
    BY <1>3, <1>4, <1>5 DEF BindingInv, TypeOK, Sourced, store

\* A change of a field keeps the signatures; a change of a signature takes one
\* of a proof that was built.
LEMMA AlteredIsSourced ==
    ASSUME BindingInv, NEW p \in Proofs, Sourced(p), NEW q \in Altered(p)
    PROVE  q \in Proofs /\ Sourced(q)
  <1> DEFINE Without(envelope) == {[envelope EXCEPT !.challenge = None],
                                   [envelope EXCEPT !.verification_method = None]}
  <1>1. built \subseteq Proofs
    BY DEF BindingInv, TypeOK
  <1>2. ASSUME NEW e \in Envelopes, NEW f \in Without(e)
        PROVE  f \in Envelopes /\ f.value = e.value
    BY <1>2 DEF Envelopes
  <1>3. CASE \E did \in KnownDids : q = [p EXCEPT !.agent_did = did]
    <2>1. KnownDids \subseteq {"did:key"} \X PublicKeys
      BY KnownDidsType DEF BindingInv, TypeOK
    <2> QED
      BY <1>3, <2>1 DEF Proofs, Sourced
  <1>4. CASE \E b \in built : q = [p EXCEPT !.payment_address = b.payment_address]
    BY <1>1, <1>4 DEF Proofs, Sourced
  <1>5. CASE \E s \in Spellings : q = [p EXCEPT !.payment_address.spelling = s]
    <2>1. PICK s \in Spellings : q = [p EXCEPT !.payment_address.spelling = s]
      BY <1>5
    <2>2. [p.payment_address EXCEPT !.spelling = s] \in Addresses
      BY DEF Proofs, Addresses
    <2>3. q = [p EXCEPT !.payment_address = [p.payment_address EXCEPT !.spelling = s]]
      BY <2>1
    <2> HIDE DEF Addresses
    <2> QED
      BY <2>2, <2>3 DEF Proofs, Sourced
  <1>6. CASE \E c \in Custodies : q = [p EXCEPT !.custody = c]
    BY <1>6 DEF Proofs, Sourced
  <1>7. CASE \E t \in Terms : q = [p EXCEPT !.terms = t]
    BY <1>7 DEF Proofs, Sourced
  <1>8. CASE \E e \in {b.agent_proof : b \in built} \cup Without(p.agent_proof) :
               q = [p EXCEPT !.agent_proof = e]
    <2>1. PICK e \in {b.agent_proof : b \in built} \cup Without(p.agent_proof) :
            q = [p EXCEPT !.agent_proof = e]
      BY <1>8
    <2>2. p.agent_proof \in Envelopes
      BY DEF Proofs
    <2>3. /\ e \in Envelopes
          /\ \E b \in built : e.value = b.agent_proof.value
      <3>1. CASE e \in {b.agent_proof : b \in built}
        BY <1>1, <3>1 DEF Proofs
      <3>2. CASE e \in Without(p.agent_proof)
        BY <1>2, <2>2, <3>2 DEF Sourced
      <3> QED
        BY <3>1, <3>2
    <2> QED
      BY <2>1, <2>3 DEF Proofs, Sourced
  <1>9. CASE \E e \in {b.payment_account_proof : b \in built} \cup {None}
                        \cup IF p.payment_account_proof = None THEN {}
                             ELSE Without(p.payment_account_proof) :
               q = [p EXCEPT !.payment_account_proof = e]
    <2>1. PICK e \in {b.payment_account_proof : b \in built} \cup {None}
                        \cup IF p.payment_account_proof = None THEN {}
                             ELSE Without(p.payment_account_proof) :
            q = [p EXCEPT !.payment_account_proof = e]
      BY <1>9
    <2>2. /\ e \in Envelopes \cup {None}
          /\ e # None => \E b \in built :
                            /\ b.payment_account_proof # None
                            /\ e.value = b.payment_account_proof.value
      <3>1. CASE e \in {b.payment_account_proof : b \in built}
        BY <1>1, <3>1 DEF Proofs
      <3>2. CASE e = None
        BY <3>2
      <3>3. CASE p.payment_account_proof # None
                   /\ e \in Without(p.payment_account_proof)
        <4>1. p.payment_account_proof \in Envelopes
          BY <3>3 DEF Proofs
        <4> QED
          BY <1>2, <3>3, <4>1 DEF Sourced
      <3> QED
        BY <3>1, <3>2, <3>3
    <2>3. /\ q \in Proofs
          /\ q.agent_proof = p.agent_proof
          /\ q.payment_account_proof = e
      BY <2>1, <2>2 DEF Proofs
    <2> QED
      BY <2>2, <2>3 DEF Sourced
  <1> QED
    BY <1>3, <1>4, <1>5, <1>6, <1>7, <1>8, <1>9 DEF Altered

LEMMA StepKeeps == BindingInv /\ [Next]_vars => BindingInv'
  <1> SUFFICES ASSUME BindingInv, [Next]_vars
               PROVE  BindingInv'
    OBVIOUS
  <1>1. CASE MakeKey
    BY <1>1, MakeKeyKeeps
  <1>2. CASE Restart
    BY <1>2 DEF BindingInv, TypeOK, Restart, Sourced, IsKeyMap, IsMap, EmptyMap
  <1>3. CASE BuildProof \/ BuildProofWithAgentSigner
    BY <1>3, BuildKeeps
  <1>4. CASE Send
    BY <1>4 DEF BindingInv, TypeOK, Send, Sourced, store
  <1>5. CASE Alter
    <2>1. /\ received # None
          /\ received' \in Altered(received)
          /\ changes' = changes + 1
          /\ UNCHANGED <<keys, agent_keys, infos, built>>
      BY <1>5 DEF Alter, store
    <2>2. received \in Proofs /\ Sourced(received)
      BY <2>1 DEF BindingInv, TypeOK
    <2>3. received' \in Proofs /\ Sourced(received')
      BY <2>1, <2>2, AlteredIsSourced
    <2> QED
      BY <2>1, <2>3 DEF BindingInv, TypeOK, Sourced
  <1>6. CASE UNCHANGED vars
    BY <1>6 DEF BindingInv, TypeOK, Sourced, vars
  <1> QED
    BY <1>1, <1>2, <1>3, <1>4, <1>5, <1>6 DEF Next

LEMMA BindingInvariant == Spec => []BindingInv
  <1> QED
    BY InitBinding, StepKeeps, PTL DEF Spec

-----------------------------------------------------------------------------
(* Results.                                                                *)

LEMMA ChallengeTellsStatement ==
    ASSUME NEW p, NEW q
    PROVE  Challenge(p) = Challenge(q) <=> SameStatement(p, q)
  BY DEF Challenge, SameStatement

\* A proof that build_payment_account_binding_proof returned is accepted by
\* verify_payment_account_binding_proof exactly when the handles it was asked
\* to sign with hold the public keys it was asked to name.
THEOREM BuiltVerifies == Spec => []BuiltVerifiesIfKeysMatch
  <1>1. BindingInv => BuiltVerifiesIfKeysMatch
    BY SealedVerdict DEF BindingInv, TypeOK, BuiltVerifiesIfKeysMatch
  <1> QED
    BY <1>1, BindingInvariant, PTL

\* However many proofs are built and however a proof is put together from known
\* DIDs and their fields and signatures, what
\* verify_payment_account_binding_proof accepts was signed as it stands: with the
\* key that the agent's envelope names, whosever DID the statement is about, and
\* with the key of the address unless the account is only watched.
THEOREM AcceptedIsSigned == Spec => []AcceptedWasSigned
  <1>1. ASSUME BindingInv, received # None,
               VerifyPaymentAccountBinding(received).ok
        PROVE  AcceptedWasSigned
    <2> DEFINE agent == received.agent_proof
               payment == received.payment_account_proof
               challenge == Challenge(received)
    <2>1. received \in Proofs /\ Sourced(received)
      BY <1>1 DEF BindingInv, TypeOK
    <2>2. /\ agent.verification_method \in PublicKeys \cup {None}
          /\ payment # None =>
                payment.verification_method \in PublicKeys \cup {None}
      BY <2>1 DEF Proofs, Envelopes
    <2>3. /\ agent.value = [signer |-> agent.verification_method, payload |-> challenge]
          /\ payment = None => received.custody = "watch_only"
          /\ payment # None =>
                /\ payment.verification_method \in PublicKeys
                /\ payment.value = [signer  |-> payment.verification_method,
                                    payload |-> challenge]
                /\ AddressFromPublicKey(payment.verification_method).ok
                /\ AddressesEqual(
                      AddressFromPublicKey(payment.verification_method).value,
                      received.payment_address)
      BY <1>1, <2>2, AcceptedMeans
    <2>4. PICK q \in built : agent.value = q.agent_proof.value
      BY <2>1 DEF Sourced
    <2>5. SameStatement(q, received)
      <3>1. Sealed(q)
        BY <1>1 DEF BindingInv
      <3>2. q.agent_proof.value.payload = Challenge(q)
        BY <3>1 DEF Sealed
      <3>3. agent.value.payload = Challenge(received)
        BY <2>3
      <3> QED
        BY <2>4, <3>2, <3>3, ChallengeTellsStatement
    <2>6. ASSUME payment # None
          PROVE  /\ \E p \in built :
                       /\ SameStatement(p, received)
                       /\ p.payment_account_proof # None
                       /\ p.payment_account_proof.value = payment.value
                 /\ received.payment_address.account
                       = <<"0x", payment.value.signer[2]>>
      <3>1. AddressFromPublicKey(payment.verification_method)
              = Ok([account  |-> <<"0x", payment.verification_method[2]>>,
                    spelling |-> "lower"])
        BY <2>3, <2>6, AddressType
      <3>2. received.payment_address.account
              = <<"0x", payment.verification_method[2]>>
        BY <2>3, <2>6, <3>1 DEF AddressesEqual, Ok
      <3>3. payment.value.signer = payment.verification_method
        BY <2>3, <2>6
      <3>4. PICK p \in built : /\ p.payment_account_proof # None
                              /\ payment.value = p.payment_account_proof.value
        BY <2>1, <2>6 DEF Sourced
      <3>5. SameStatement(p, received)
        <4>1. Sealed(p)
          BY <1>1 DEF BindingInv
        <4>2. p.payment_account_proof.value.payload = Challenge(p)
          BY <3>4, <4>1 DEF Sealed
        <4>3. payment.value.payload = Challenge(received)
          BY <2>3, <2>6
        <4> QED
          BY <3>4, <4>2, <4>3, ChallengeTellsStatement
      <3> QED
        BY <3>2, <3>3, <3>4, <3>5
    <2>7. SignedAsNamed(received)
      <3>1. agent.verification_method[1] = "ed25519"
        BY <1>1, <2>2, AcceptedMeans
      <3> QED
        BY <2>3, <3>1 DEF SignedAsNamed
    <2> QED
      BY <2>3, <2>4, <2>5, <2>6, <2>7 DEF AcceptedWasSigned
  <1>2. BindingInv => AcceptedWasSigned
    BY <1>1 DEF AcceptedWasSigned
  <1> QED
    BY <1>2, BindingInvariant, PTL

\* The variables keep their types: a build that returns Ok has an address, two
\* signatures where two were asked for, and no error left inside the proof.
THEOREM BindingTypes == Spec => []TypeOK
  <1>1. BindingInv => TypeOK
    BY DEF BindingInv
  <1> QED
    BY <1>1, BindingInvariant, PTL

\* A field of the challenge that changed after an accepted proof was built, with
\* the signatures kept, is reported as an invalid signature.
THEOREM ChangedFieldIsReported == Spec => []ChangedFieldIsInvalidSignature
  <1>1. ASSUME BindingInv, received # None,
               NEW p \in built, VerifyPaymentAccountBinding(p).ok,
               received.agent_proof = p.agent_proof,
               ~SameStatement(p, received)
        PROVE  LET answer == VerifyPaymentAccountBinding(received)
               IN /\ ~answer.ok
                  /\ answer.value = "InvalidSignature" \/ ~ValidateBasic(received)
                  /\ ~VerifierVerdict(received).ok
    <2> DEFINE agent == received.agent_proof
               challenge == Challenge(received)
               verdict == VerifyEnvelope(agent, "ed25519", challenge)
    <2>1. Sealed(p)
      BY <1>1 DEF BindingInv
    <2>2. /\ agent.verification_method # None
          /\ agent.value.payload = Challenge(p)
      BY <1>1, <2>1 DEF Sealed
    <2>3. agent.value # [signer  |-> agent.verification_method,
                         payload |-> challenge]
      BY <1>1, <2>2, ChallengeTellsStatement
    <2>4. verdict = Err("InvalidSignature")
      BY <2>2, <2>3 DEF VerifyEnvelope, VerifyWithPublicKey
    <2>5. ~verdict.ok
      BY <2>4 DEF Err
    <2>6. \/ VerifyPaymentAccountBinding(received) = verdict
          \/ /\ ~ValidateBasic(received)
             /\ VerifyPaymentAccountBinding(received) = Err("Metadata")
      BY <2>5 DEF VerifyPaymentAccountBinding
    <2> HIDE DEF verdict
    <2> QED
      BY <2>4, <2>6 DEF VerifierVerdict, Err
  <1>2. BindingInv => ChangedFieldIsInvalidSignature
    BY <1>1 DEF ChangedFieldIsInvalidSignature
  <1> QED
    BY <1>2, BindingInvariant, PTL

=============================================================================
