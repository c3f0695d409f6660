------------------------------ MODULE Capability ------------------------------
(***************************************************************************)
(* Capability tokens (compact JWTs) and signed JSON payloads.  The issuer  *)
(* of a token is what the caller says; the key that signs it belongs to    *)
(* the active identity at that time.                                       *)
(*                                                                         *)
(* The header always names EdDSA.  Subject, audience, times, capabilities  *)
(* and key id are copied from the options and looked at by nobody here:    *)
(* `grant' stands for them.  A JSON text stands for its value.             *)
(***************************************************************************)
EXTENDS Profile

\* delegation::sign_capability_token: the signature is over header and claims.
SignToken(keys, handle, options) ==
    LET claims == [iss |-> options.issuer_did, grant |-> options.grant]
        signature == SignBytes(keys, handle, claims)
    IN IF ~signature.ok THEN signature
       ELSE Ok([claims |-> claims, signature |-> signature.value])

\* Mutant: the newest identity signs.
SignCapabilityTokenNewest(p, keys, options) ==
    IF ~ActiveIdentity(p).ok THEN ActiveIdentity(p)
    ELSE LET newest == CHOOSE i \in DOMAIN p.identities :
                           \A j \in DOMAIN p.identities : j <= i
         IN SignToken(keys, p.identities[newest].key_handle, options)

\* Wallet::sign_capability_token.
SignCapabilityToken(p, keys, options) ==
    LET active == ActiveIdentity(p)
    IN IF ~active.ok THEN active
       ELSE SignToken(keys, p.identities[active.value].key_handle, options)

\* watt-did: the token is accepted for the expected issuer when it names it and
\* its signature is by the Ed25519 key that the issuer's did:key stands for.
TokenVerifies(token, issuer) ==
    /\ token.claims.iss = issuer
    /\ issuer[2][1] = "ed25519"
    /\ token.signature = [signer |-> issuer[2], payload |-> token.claims]

SignPayloadJson(keys, handle, payload) == SignBytes(keys, handle, payload)

VerifyPayloadJson(keys, handle, payload, signature) ==
    VerifyBytes(keys, handle, payload, signature)

=============================================================================
