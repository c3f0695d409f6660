------------------------------ MODULE KeyStore ------------------------------
(***************************************************************************)
(* Key material and the operations of the KeyStore trait on it.  A key     *)
(* store is a map from key handles to key records, the HashMap that both   *)
(* InMemoryKeyStore and FileKeyStore keep; the file behind a FileKeyStore  *)
(* belongs to module Wallet.                                               *)
(*                                                                         *)
(* Fresh values (UUIDs, random seeds) are natural numbers, drawn once each *)
(* (see draws in module Wallet).  Imported secrets are the members of      *)
(* Seeds.  Cryptography is ideal: a public key stands for its secret, and  *)
(* a signature says which public key signed which payload.                 *)
(***************************************************************************)
EXTENDS Naturals

CONSTANTS Seeds,    \* secrets a user may import, possibly more than once
          None      \* the absent Option

ASSUME SeedsAreNotDrawn == Seeds \cap Nat = {}

ASSUME NoneIsNotDrawn == None \notin Nat

Algorithms == {"ed25519", "secp256k1"}

Secrets == Nat \cup Seeds

KeyRecords == [algorithm : Algorithms, secret : Secrets]

\* A map with finitely many named entries, as HashMap::insert and Vec::push
\* (of a record with a fresh id) extend it.
Put(map, k, v) == [x \in DOMAIN map \cup {k} |-> IF x = k THEN v ELSE map[x]]

EmptyMap == [x \in {} |-> x]

IsMap(map, D, R) == DOMAIN map \subseteq D /\ map \in [DOMAIN map -> R]

IsKeyMap(keys) == IsMap(keys, Nat, KeyRecords)

-----------------------------------------------------------------------------
(* Results: Ok carries a value, Err the name of the WalletError variant.   *)

Ok(value) == [ok |-> TRUE, value |-> value]

Err(error) == [ok |-> FALSE, value |-> error]

-----------------------------------------------------------------------------
(* What key_material_info derives from a secret.                           *)

PublicKey(record) == <<record.algorithm, record.secret>>

\* did:key is the multibase public key behind a method prefix.
DidOf(record) == <<"did:key", PublicKey(record)>>

\* The EVM address is the tail of a hash of the secp256k1 point alone.
AddressOf(record) == <<"0x", record.secret>>

-----------------------------------------------------------------------------
(* The trait's operations.  They fail on an unknown handle only, and       *)
(* exports also on a key of the other algorithm.                           *)

PublicKeyInfo(keys, handle) ==
    IF handle \notin DOMAIN keys THEN Err("UnknownKeyHandle")
    ELSE Ok([did |-> DidOf(keys[handle]),
             derived_address |-> IF keys[handle].algorithm = "secp256k1"
                                 THEN AddressOf(keys[handle]) ELSE None])

ExportSecret(keys, handle, algorithm) ==
    IF handle \notin DOMAIN keys THEN Err("UnknownKeyHandle")
    ELSE IF keys[handle].algorithm # algorithm THEN Err("UnsupportedAlgorithm")
    ELSE Ok(keys[handle].secret)

SignBytes(keys, handle, payload) ==
    IF handle \notin DOMAIN keys THEN Err("UnknownKeyHandle")
    ELSE Ok([signer |-> PublicKey(keys[handle]), payload |-> payload])

VerifyBytes(keys, handle, payload, signature) ==
    IF handle \notin DOMAIN keys THEN Err("UnknownKeyHandle")
    ELSE IF signature = [signer |-> PublicKey(keys[handle]), payload |-> payload]
         THEN Ok({})
         ELSE Err("InvalidSignature")

=============================================================================
