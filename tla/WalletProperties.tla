--------------------------- MODULE WalletProperties ---------------------------
(***************************************************************************)
(* What Wallet sessions promise.  The first group holds however sessions   *)
(* overlap, fail and crash.  The second holds as long as one session at a  *)
(* time uses the directory: sessions write back whole snapshots and        *)
(* nothing locks the files, so overlapping sessions undo each other.       *)
(***************************************************************************)
EXTENDS Wallet, Capability

\* Every profile there is: the one on disk (the last complete one) and the
\* callers' copies.  Likewise every key map.
Profiles == {metadata_file.value} \cup {profile[s] : s \in Sessions}

KeyMaps == {keystore_file.value} \cup {keys[s] : s \in Sessions}

-----------------------------------------------------------------------------
(* Any number of overlapping sessions.                                     *)

\* Rotation builds chains that neither fork nor merge.  An identity counts as
\* rotated exactly when one identity of the same profile replaces it, and at
\* most one does; an identity is older than its replacement.
Lineage(p) ==
    LET ids == DOMAIN p.identities
        Replaces(j, i) == p.identities[j].rotated_from = i
    IN /\ \A j \in ids : p.identities[j].rotated_from # None =>
             \E i \in ids : i < j /\ Replaces(j, i)
       /\ \A i \in ids : p.identities[i].status = "rotated" <=>
             \E j \in ids : Replaces(j, i)
       /\ \A i, j, k \in ids : Replaces(j, i) /\ Replaces(k, i) => j = k

\* The lineage of identities is sound in every profile, on disk and in memory
\* (rotate_active_identity, rotate_identity): a rotation that failed halfway,
\* was lost, or was saved over by another session leaves no half of itself.
RotationLineage == \A p \in Profiles : Lineage(p)

\* A profile selects one of its own identities as soon as it has any, and one of
\* its own accounts likewise; no selection dangles.  A rotated identity can be
\* selected (set_active_identity does not look at the status), which stops
\* signing and rotating, but then some identity that active_identity accepts can
\* be selected instead; the selected account is always one that
\* active_payment_account accepts.  This is about records: whether the keys are
\* there, SelectionWorks says, and of overlapping sessions it does not hold.
SelectionsAreSound ==
    \A p \in Profiles :
        /\ IF p.identities = EmptyMap
           THEN p.active_identity_id = None
           ELSE /\ p.active_identity_id \in DOMAIN p.identities
                /\ \E id \in DOMAIN p.identities :
                      ActiveIdentity(SetActiveIdentityId(p, id)).ok
        /\ IF p.payment_accounts = EmptyMap
           THEN p.active_payment_account_id = None
           ELSE /\ p.active_payment_account_id \in DOMAIN p.payment_accounts
                /\ ActivePaymentAccount(p).ok

\* A handle leads to the key it was made for, in every key map that has it:
\* the DID of an identity and the address of an account (stored in
\* metadata.json when the record was made) are those of the key a session
\* finds under the record's handle, whichever session made either.
KeysMatchRecords ==
    \A p \in Profiles, k \in KeyMaps :
        /\ \A i \in DOMAIN p.identities :
              LET identity == p.identities[i]
              IN identity.key_handle \in DOMAIN k =>
                    /\ PublicKeyInfo(k, identity.key_handle).value.did
                          = identity.did
                    /\ ExportSecret(k, identity.key_handle, "ed25519").ok
        /\ \A a \in DOMAIN p.payment_accounts :
              LET account == p.payment_accounts[a]
              IN account.key_handle \in DOMAIN k =>
                    /\ PublicKeyInfo(k, account.key_handle).value.derived_address
                          = account.address
                    /\ ExportSecret(k, account.key_handle, "secp256k1").ok

\* Where both have a record under an id, only its status may differ.
SameRecords(p, q) ==
    /\ \A i \in DOMAIN p.identities \cap DOMAIN q.identities :
          [p.identities[i] EXCEPT !.status = q.identities[i].status]
              = q.identities[i]
    /\ \A a \in DOMAIN p.payment_accounts \cap DOMAIN q.payment_accounts :
          p.payment_accounts[a] = q.payment_accounts[a]

\* An id means the same thing everywhere: two profiles that both have a record
\* under an id, on disk and in memory, agree on its DID or address, on its key
\* and on what it replaced, whichever sessions made the two (create_identity_*,
\* create_payment_account_* and the rotation, watch and import calls; Uuid::new_v4).
RecordsAgree == \A p, q \in Profiles : SameRecords(p, q)

\* A token verifies for its issuer exactly when the issuer is the DID of the
\* identity that is active as it is signed.  The caller of
\* Wallet::sign_capability_token names the issuer: the DID it has just read, as
\* the command-line tool does, or one it read before a rotation or another
\* selection; and other sessions may have replaced the key store and the
\* profile it works from.
TokensNameTheirSigner ==
    \A s \in Sessions : stage[s] = "idle" =>
        \A i \in DOMAIN profile[s].identities :
            LET p == profile[s]
                issuer == p.identities[i].did
                token == SignCapabilityToken(p, keys[s], [issuer_did |-> issuer,
                                                          grant |-> "invoke"])
            IN token.ok => (TokenVerifies(token.value, issuer)
                               <=> p.identities[p.active_identity_id].did = issuer)

\* A signature tells its signer: a JSON payload that one session signed as one
\* identity verifies in any session under the identities with the same DID, and
\* under no other (sign_payload_json, verify_payload_json), whatever either
\* session missed of the other's calls.
SignaturesTellSigners ==
    \A s, t \in Sessions :
        \A i \in DOMAIN profile[s].identities, j \in DOMAIN profile[t].identities :
            LET signer == profile[s].identities[i]
                reader == profile[t].identities[j]
                signature == SignPayloadJson(keys[s], signer.key_handle, "hello")
            IN signature.ok /\ reader.key_handle \in DOMAIN keys[t] =>
                  (VerifyPayloadJson(keys[t], reader.key_handle, "hello",
                                     signature.value).ok
                      <=> signer.did = reader.did)

-----------------------------------------------------------------------------
(* One session at a time, with a FileKeyStore.                             *)

\* No two of these sessions are open at the same time.
TakeTurns(S) ==
    \A s, t \in S : stage[s] # "closed" /\ stage[t] # "closed" => s = t

SerialSpec == Init /\ [][Next /\ TakeTurns(Sessions)']_vars

\* The last complete profile written to metadata.json refers to no key that is
\* missing from the last complete key store written to keystore.json: a key is
\* flushed before its record is saved (create_identity_ed25519 and the other
\* calls that make keys).  A stop between a file's truncation and its write
\* (keystore.rs:186, metadata.rs:37) loses what the file held all the same.
KeyCustody == References(metadata_file.value) \subseteq DOMAIN keystore_file.value

\* A session that may be called has the key of what is selected in its
\* profile: no call that uses the selection fails for want of a key or for a
\* key of the wrong kind, and what the active identity signs, the same
\* session verifies.
SelectionWorks ==
    \A s \in Sessions : stage[s] = "idle" =>
        LET p == profile[s]
            k == keys[s]
            signature == SignWithActiveIdentity(p, k, "hello")
            results == <<signature,
                         ActiveIdentityKeyInfo(p, k),
                         ExportActiveIdentitySeed(p, k),
                         SignWithActivePaymentAccount(p, k, "hello"),
                         ActivePaymentAccountKeyInfo(p, k),
                         ExportActivePaymentAccountSecret(p, k)>>
        IN /\ \A i \in DOMAIN results :
                 ~results[i].ok => results[i].value \notin
                                      {"UnknownKeyHandle", "UnsupportedAlgorithm"}
           /\ signature.ok =>
                 VerifyWithIdentity(p, k, p.active_identity_id, "hello",
                                    signature.value).ok

\* No save drops what a call reported as added: identities and payment accounts
\* whose create, import, rotate or watch call returned Ok are in the last
\* complete profile that was written to metadata.json, and a reported rotation
\* stays recorded there.  While metadata.json is truncated or torn that profile
\* is lost to a reader; what is promised is that nobody writes a lesser one.
AcknowledgedSurvives ==
    \A c \in acknowledged :
        /\ c.kind = "account" => c.id \in DOMAIN metadata_file.value.payment_accounts
        /\ c.kind = "identity" =>
              /\ c.id \in DOMAIN metadata_file.value.identities
              /\ metadata_file.value.identities[c.id].rotated_from = c.from

\* The directory keeps its promises (module Custody), with the last complete
\* document of each file as vault and book: across failed calls, crashes and
\* reopened sessions both documents only grow, no rotated identity comes back,
\* no handle changes its key, and a record is written only when the key it was
\* made for has already been written.  A file that is truncated or torn is not
\* read, and no lesser document ever follows it.  (The order of the flush in KeyStore's
\* generate and import, and of WalletMetadataStore::save, in every call; files
\* that cannot be read are never taken for absent ones.)
Ledger == INSTANCE Custody WITH vault <- keystore_file.value,
                                book <- metadata_file.value

ImplementsCustody == Ledger!Spec

\* What is left of these promises when only the sessions that make keys take
\* turns, or when callers restore exported profiles: keys are never dropped or
\* replaced by a flush (FileKeyStore::flush), and what is written to
\* metadata.json, by whoever and over whatever is there, refers to kept keys only
\* (WalletMetadataStore::save).  Both again of the last complete documents.
ImplementsSafekeeping == Ledger!Safekeeping

-----------------------------------------------------------------------------
(* One session at a time, with the key store of the README's quick start.  *)

\* README.md:43-44, after the wallet loaded its profile from a fixed path: in a
\* session that may be called, an identity that is selected and active signs,
\* and its signature verifies.  Does not hold: an InMemoryKeyStore is empty
\* when the program runs again and metadata.json still selects its identity.
QuickStartSigns ==
    \A s \in Sessions : stage[s] = "idle" /\ ActiveIdentity(profile[s]).ok =>
        LET signature == SignWithActiveIdentity(profile[s], keys[s], "hello")
        IN /\ signature.ok
           /\ VerifyWithIdentity(profile[s], keys[s],
                                 profile[s].active_identity_id, "hello",
                                 signature.value).ok

=============================================================================
