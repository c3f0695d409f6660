------------------------------- MODULE Binding -------------------------------
(***************************************************************************)
(* Payment account binding proofs: a statement that an agent uses a        *)
(* payment account, with a signature for the agent and, unless the account *)
(* is only watched, one of the account's key.  The module builds proofs,   *)
(* passes them on, and verifies what arrives.                              *)
(*                                                                         *)
(* Whoever builds a proof names the agent's DID, and a key handle and a    *)
(* public key for each signature, from the KeyMaterialInfo values it was   *)
(* given at any time before.  Nothing relates the three: the DID is a      *)
(* field of the statement, which neither builder nor verifier compares     *)
(* with a key.  The agent's key may live in a key store of its own.  A     *)
(* proof that arrives may differ from every one that was built.            *)
(*                                                                         *)
(* The canonical challenge (JCS of its fields) is the record of the fields:*)
(* different fields give different bytes.  rail, network, receive_only,    *)
(* can_sign, capabilities, the times and the nonce are read by nobody but  *)
(* the challenge: one value of Terms stands for all of them.               *)
(***************************************************************************)
EXTENDS KeyStore, FiniteSets

CONSTANTS WatchedAccounts,   \* accounts a watch-only proof may declare
          Terms,             \* the remaining fields of a challenge
          MaxKeys,           \* bounds on the keys made,
          MaxBuilt,          \* the proofs built,
          MaxChanges         \* and the changes made to a proof on its way

Custodies == {"local_generated", "watch_only"}

\* Hex digits of an address may be spelled in either case.
Spellings == {"lower", "mixed"}

PublicKeys == Algorithms \X Secrets

Addresses == [account : ({"0x"} \X Secrets) \cup WatchedAccounts,
              spelling : Spellings]

Challenges == [agent_did       : {"did:key"} \X PublicKeys,
               payment_address : Addresses,
               custody         : Custodies,
               terms           : Terms]

Signatures == [signer : PublicKeys, payload : Challenges]

\* Of a ProofEnvelope, what verification reads.
Envelopes == [value               : Signatures,
              verification_method : PublicKeys \cup {None},
              challenge           : Challenges \cup {None}]

\* An absent Option is no public key and no envelope.
ASSUME NoneIsAbsent == None \notin PublicKeys \cup Envelopes

-----------------------------------------------------------------------------
(* Building.                                                               *)

\* Verification with a multibase public key of the expected algorithm.
VerifyWithPublicKey(algorithm, key, payload, signature) ==
    IF key[1] = algorithm /\ signature = [signer |-> key, payload |-> payload]
    THEN Ok({})
    ELSE Err("InvalidSignature")

AddressFromPublicKey(key) ==
    IF key[1] # "secp256k1" THEN Err("InvalidSignature")
    ELSE Ok([account |-> <<"0x", key[2]>>, spelling |-> "lower"])

AddressesEqual(left, right) == left.account = right.account

\* Mutant: a watch-only address wins over the signer's.
DeclaredPaymentAddress(options) ==
    IF options.watch_only_payment_address # None
    THEN Ok(options.watch_only_payment_address)
    ELSE IF options.payment_signer # None
    THEN AddressFromPublicKey(options.payment_signer.public_key)
    ELSE Err("Metadata")

\* Mutant: a watch-only proof may go without an address.
OptionalPaymentAddress(options) ==
    IF options.payment_signer # None
    THEN AddressFromPublicKey(options.payment_signer.public_key)
    ELSE Ok(options.watch_only_payment_address)

\* The address of a signer comes from its public key, whatever is declared.
ResolvePaymentAddress(options) ==
    IF options.payment_signer # None
    THEN AddressFromPublicKey(options.payment_signer.public_key)
    ELSE IF options.watch_only_payment_address # None
    THEN Ok(options.watch_only_payment_address)
    ELSE Err("Metadata")

\* Mutant: the terms are left out.
ChallengeWithoutTerms(p) ==
    [agent_did |-> p.agent_did, payment_address |-> p.payment_address,
     custody |-> p.custody, terms |-> None]

Challenge(p) ==
    [agent_did |-> p.agent_did, payment_address |-> p.payment_address,
     custody |-> p.custody, terms |-> p.terms]

Envelope(signature, key, challenge) ==
    [value |-> signature, verification_method |-> key, challenge |-> challenge]

\* watt-did: without the account's signature the account is only watched.
ValidateBasic(proof) ==
    proof.payment_account_proof = None => proof.custody = "watch_only"

\* agent_keys is the key store behind the agent's signing function.  The
\* handles and the public keys are used as they are given, and the account's
\* key is looked up after the agent has signed.
BuildWithAgentSigner(keys, agent_keys, options) ==
    LET address == ResolvePaymentAddress(options)
        fields == [agent_did       |-> options.agent_did,
                   payment_address |-> address.value,
                   custody         |-> options.custody,
                   terms           |-> options.terms]
        challenge == Challenge(fields)
        agent == SignBytes(agent_keys, options.agent_key_handle, challenge)
        payer == options.payment_signer
        payment == IF payer = None THEN Ok(None)
                   ELSE SignBytes(keys, payer.key_handle, challenge)
        proof == [agent_did       |-> fields.agent_did,
                  payment_address |-> fields.payment_address,
                  custody         |-> fields.custody,
                  terms           |-> fields.terms,
                  agent_proof     |-> Envelope(agent.value,
                                               options.agent_public_key,
                                               challenge),
                  payment_account_proof |->
                      IF payer = None THEN None
                      ELSE Envelope(payment.value, payer.public_key, challenge)]
    IN IF ~address.ok THEN address
       ELSE IF ~agent.ok THEN Err("Metadata")
       ELSE IF ~payment.ok THEN payment
       ELSE IF ~ValidateBasic(proof) THEN Err("Metadata")
       ELSE Ok(proof)

\* The agent's key is in the same key store.
Build(keys, options) == BuildWithAgentSigner(keys, keys, options)

-----------------------------------------------------------------------------
(* Verifying.                                                              *)

\* Mutant: the challenge that came with a signature is taken as signed.
VerifyEnvelopeAsSent(envelope, algorithm, challenge) ==
    IF envelope.verification_method = None THEN Err("Metadata")
    ELSE VerifyWithPublicKey(algorithm, envelope.verification_method,
                             IF envelope.challenge = None THEN challenge
                             ELSE envelope.challenge,
                             envelope.value)

\* One signature: its public key must be named, its copy of the challenge may
\* be absent, and the bytes verified are those of the proof's own fields.
VerifyEnvelope(envelope, algorithm, challenge) ==
    IF envelope.verification_method = None THEN Err("Metadata")
    ELSE IF envelope.challenge \notin {None, challenge}
    THEN Err("InvalidSignature")
    ELSE VerifyWithPublicKey(algorithm, envelope.verification_method, challenge,
                             envelope.value)

VerifyPaymentAccountBinding(proof) ==
    LET challenge == Challenge(proof)
        agent == VerifyEnvelope(proof.agent_proof, "ed25519", challenge)
        payer == proof.payment_account_proof
        derived == AddressFromPublicKey(payer.verification_method)
    IN IF ~ValidateBasic(proof) THEN Err("Metadata")
       ELSE IF ~agent.ok \/ payer = None THEN agent
       ELSE IF /\ payer.verification_method # None
               /\ ~derived.ok
                  \/ ~AddressesEqual(derived.value, proof.payment_address)
       THEN Err("InvalidSignature")
       ELSE VerifyEnvelope(payer, "secp256k1", challenge)

\* The same, as watt-did's verifier trait reports it.
VerifierVerdict(proof) ==
    IF VerifyPaymentAccountBinding(proof).ok THEN Ok({})
    ELSE Err("VerificationFailed")

-----------------------------------------------------------------------------
VARIABLES keys,         \* the wallet's key store
          agent_keys,   \* the key store of an agent outside the wallet
          infos,        \* every KeyMaterialInfo that was handed out
          built,        \* every proof that was built
          received,     \* the proof to be verified, if one has arrived
          changes       \* how often it was changed

vars == <<keys, agent_keys, infos, built, received, changes>>

store == <<keys, agent_keys, infos>>

Infos == [key_handle : Nat, public_key : PublicKeys]

Proofs == [agent_did       : {"did:key"} \X PublicKeys,
           payment_address : Addresses,
           custody         : Custodies,
           terms           : Terms,
           agent_proof     : Envelopes,
           payment_account_proof : Envelopes \cup {None}]

Init ==
    /\ keys = EmptyMap
    /\ agent_keys = EmptyMap
    /\ infos = {}
    /\ built = {}
    /\ received = None
    /\ changes = 0

-----------------------------------------------------------------------------
(* The wallet and its caller.                                              *)

\* generate_ed25519, generate_secp256k1 and the imports, on either store.
MakeKey ==
    /\ Cardinality(infos) < MaxKeys
    /\ \E algorithm \in Algorithms, imported \in Seeds \cup {None} :
          LET handle == Cardinality(infos) + 1
              record == [algorithm |-> algorithm,
                         secret |-> IF imported = None THEN handle
                                    ELSE imported]
          IN /\ infos' = infos \cup {[key_handle |-> handle,
                                      public_key |-> PublicKey(record)]}
             /\ \/ /\ keys' = Put(keys, handle, record)
                   /\ UNCHANGED agent_keys
                \/ /\ algorithm = "ed25519"
                   /\ agent_keys' = Put(agent_keys, handle, record)
                   /\ UNCHANGED keys
    /\ UNCHANGED <<built, received, changes>>

\* The program runs again with a new InMemoryKeyStore; what it was told about
\* its keys is remembered.
Restart ==
    /\ keys' = EmptyMap
    /\ UNCHANGED <<agent_keys, infos, built, received, changes>>

KnownDids == {<<"did:key", i.public_key>> : i \in infos}

\* What a caller may ask for: the DID, the handles and the public keys of any
\* keys it was told of, each named by itself.
Requests ==
    LET Signers == [key_handle : {i.key_handle : i \in infos},
                    public_key : {i.public_key : i \in infos}]
        WatchedAddresses == [account : WatchedAccounts, spelling : {"mixed"}]
    IN {[agent_did                  |-> did,
         agent_key_handle           |-> agent.key_handle,
         agent_public_key           |-> agent.public_key,
         custody                    |-> custody,
         terms                      |-> terms,
         payment_signer             |-> payer,
         watch_only_payment_address |-> watched] :
            did \in KnownDids, agent \in Signers,
            custody \in Custodies, terms \in Terms,
            payer \in Signers \cup {None},
            watched \in WatchedAddresses \cup {None}}

\* A call that fails hands out nothing.
BuildProof ==
    /\ Cardinality(built) < MaxBuilt
    /\ \E options \in Requests :
          LET result == Build(keys, options)
          IN /\ result.ok
             /\ built' = built \cup {result.value}
    /\ UNCHANGED <<store, received, changes>>

BuildProofWithAgentSigner ==
    /\ Cardinality(built) < MaxBuilt
    /\ \E options \in Requests :
          LET result == BuildWithAgentSigner(keys, agent_keys, options)
          IN /\ result.ok
             /\ built' = built \cup {result.value}
    /\ UNCHANGED <<store, received, changes>>

-----------------------------------------------------------------------------
(* A proof on its way to a verifier.                                       *)

Send ==
    /\ received' \in built
    /\ changes' = 0
    /\ UNCHANGED <<store, built>>

\* One field or one signature of a proof is other than it was built: a field
\* has another value, a signature is that of another proof, or is without one
\* of its optional parts.
Altered(p) ==
    LET Without(envelope) == {[envelope EXCEPT !.challenge = None],
                              [envelope EXCEPT !.verification_method = None]}
    IN {[p EXCEPT !.agent_did = did] : did \in KnownDids}
       \cup {[p EXCEPT !.payment_address = q.payment_address] : q \in built}
       \cup {[p EXCEPT !.payment_address.spelling = s] : s \in Spellings}
       \cup {[p EXCEPT !.custody = c] : c \in Custodies}
       \cup {[p EXCEPT !.terms = t] : t \in Terms}
       \cup {[p EXCEPT !.agent_proof = e] :
                 e \in {q.agent_proof : q \in built} \cup Without(p.agent_proof)}
       \cup {[p EXCEPT !.payment_account_proof = e] :
                 e \in {q.payment_account_proof : q \in built} \cup {None}
                       \cup IF p.payment_account_proof = None THEN {}
                            ELSE Without(p.payment_account_proof)}

Alter ==
    /\ received # None
    /\ changes < MaxChanges
    /\ changes' = changes + 1
    /\ received' \in Altered(received)
    /\ UNCHANGED <<store, built>>

Next ==
    \/ MakeKey \/ Restart \/ BuildProof \/ BuildProofWithAgentSigner
    \/ Send \/ Alter

Spec == Init /\ [][Next]_vars

-----------------------------------------------------------------------------
(* Properties.                                                             *)

TypeOK ==
    /\ IsKeyMap(keys)
    /\ IsKeyMap(agent_keys)
    /\ infos \subseteq Infos /\ IsFiniteSet(infos)
    /\ built \subseteq Proofs
    /\ received \in Proofs \cup {None}
    /\ changes \in Nat

\* Each signature of p was made with the key it names.
SignedAsNamed(p) ==
    /\ p.agent_proof.value.signer = p.agent_proof.verification_method
    /\ p.agent_proof.verification_method[1] = "ed25519"
    /\ p.payment_account_proof # None =>
          p.payment_account_proof.value.signer
             = p.payment_account_proof.verification_method

\* build_payment_account_binding_proof does not compare the handles it signs
\* with to the public keys it writes down.  A proof it returns passes
\* verify_payment_account_binding_proof exactly when they belong together (the
\* caller's obligation, payment_binding.rs:62-64 and 74-76) and the agent's key
\* is an Ed25519 key.
BuiltVerifiesIfKeysMatch ==
    \A p \in built : VerifyPaymentAccountBinding(p).ok <=> SignedAsNamed(p)

\* p and q make the same statement.
SameStatement(p, q) ==
    /\ p.agent_did = q.agent_did
    /\ p.payment_address = q.payment_address
    /\ p.custody = q.custody
    /\ p.terms = q.terms

\* What verification accepts was signed as it stands: each signature is that of a
\* proof that was built of the same statement, made with the key its own envelope
\* names, an Ed25519 key for the agent and, unless the account is only watched,
\* the key that the payment address belongs to.  No field may change on the way,
\* and no signature may come from a proof of something else.  That the first key
\* is the one of agent_did is not part of it (see AcceptedNamesItsAgent).
AcceptedWasSigned ==
    received # None /\ VerifyPaymentAccountBinding(received).ok =>
        LET payment == received.payment_account_proof
        IN /\ SignedAsNamed(received)
           /\ \E p \in built :
                 /\ SameStatement(p, received)
                 /\ p.agent_proof.value = received.agent_proof.value
           /\ payment = None => received.custody = "watch_only"
           /\ payment # None =>
                 /\ \E p \in built :
                       /\ SameStatement(p, received)
                       /\ p.payment_account_proof # None
                       /\ p.payment_account_proof.value = payment.value
                 /\ received.payment_address.account
                       = <<"0x", payment.value.signer[2]>>

\* payment_binding.rs:63 says of the agent's public key that it is "bound to
\* agent_did", and README.md:75-77 that a proof links an agent DID to a local
\* identity and is signed by that identity's key: what verification accepts
\* carries a signature of the key that its DID stands for.  Does not hold:
\* build_payment_account_binding_proof and verify_payment_account_binding_proof
\* take DID and public key as they are given.
AcceptedNamesItsAgent ==
    received # None /\ VerifyPaymentAccountBinding(received).ok =>
        received.agent_did = <<"did:key", received.agent_proof.value.signer>>

\* A field changed under the signatures it was sent with is reported as an
\* invalid signature, as the tests tampered_payment_address,
\* tampered_agent_did and tampered_nonce expect of three fields, and through
\* the trait as a failed verification.
ChangedFieldIsInvalidSignature ==
    received # None =>
        \A p \in built :
            /\ VerifyPaymentAccountBinding(p).ok
            /\ received.agent_proof = p.agent_proof
            /\ received.payment_account_proof = p.payment_account_proof
            /\ ~SameStatement(p, received)
            => LET verdict == VerifyPaymentAccountBinding(received)
               IN /\ ~verdict.ok
                  /\ verdict.value = "InvalidSignature" \/ ~ValidateBasic(received)
                  /\ ~VerifierVerdict(received).ok

=============================================================================
