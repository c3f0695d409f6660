------------------------------- MODULE Wallet -------------------------------
(***************************************************************************)
(* Wallet sessions over one wallet directory.  A session is a Wallet value *)
(* together with the profile its caller loaded: one run of the             *)
(* command-line tool, or an embedding program that keeps its wallet open.  *)
(* Each session holds a snapshot of the key store and one of the profile,  *)
(* changes the snapshots, and writes them back whole.                      *)
(*                                                                         *)
(* Steps of different sessions interleave at every file access.  A session *)
(* may end (exit, panic, kill) between any two steps, every write may      *)
(* fail, and a session that ended may be opened again.                     *)
(***************************************************************************)
EXTENDS Profile, FileStore

CONSTANTS Sessions,
          FileBacked,   \* TRUE: FileKeyStore; FALSE: InMemoryKeyStore
          MaxDraws      \* bound on the fresh values drawn

ASSUME FileBackedIsBoolean == FileBacked \in BOOLEAN

VARIABLES
    stage,          \* how far each session is
    keys,           \* self.keystore.keys, per session
    profile,        \* the caller's WalletProfileMetadata, per session
    call,           \* the call in progress, per session
    keystore_file,  \* keystore.json
    metadata_file,  \* metadata.json
    draws,          \* how many fresh values have been drawn
    acknowledged    \* history: the adding calls that returned Ok

vars == <<stage, keys, profile, call, keystore_file, metadata_file, draws,
          acknowledged>>

session == <<stage, keys, profile, call>>

files == <<keystore_file, metadata_file>>

\* "opened": FileKeyStore::open returned; "idle": a profile is loaded and the
\* caller may call; "flush" and "save": about to write keystore.json or
\* metadata.json; "flushing" and "saving": the file is open and truncated;
\* "flushed": the new key is kept and its record is not yet in the profile.
Stages == {"closed", "opened", "idle", "flush", "flushing", "flushed",
           "save", "saving"}

\* A call in progress: what it adds under the fresh id, and the identity a
\* rotation replaces.  "other" adds nothing.
Calls == [kind : {"identity", "account", "other"},
          id   : Nat \cup {None},
          from : Nat \cup {None}]

Other == [kind |-> "other", id |-> None, from |-> None]

TypeOK ==
    /\ stage \in [Sessions -> Stages]
    /\ DOMAIN keys = Sessions
    /\ \A s \in Sessions : IsKeyMap(keys[s])
    /\ DOMAIN profile = Sessions
    /\ \A s \in Sessions : IsProfile(profile[s])
    /\ call \in [Sessions -> Calls]
    /\ IsFile(keystore_file) /\ IsKeyMap(keystore_file.value)
    /\ IsFile(metadata_file) /\ IsProfile(metadata_file.value)
    /\ draws \in Nat
    /\ acknowledged \subseteq Calls

Init ==
    /\ stage = [s \in Sessions |-> "closed"]
    /\ keys = [s \in Sessions |-> EmptyMap]
    /\ profile = [s \in Sessions |-> NewProfile]
    /\ call = [s \in Sessions |-> Other]
    /\ keystore_file = NoFile(EmptyMap)
    /\ metadata_file = NoFile(NewProfile)
    /\ draws = 0
    /\ acknowledged = {}

-----------------------------------------------------------------------------
(* Opening and closing.  A file that does not parse is an error of the     *)
(* call and changes nothing, so it is no step here.                        *)

\* Mutant: a key store that cannot be read is taken to be empty.
OpenOrEmpty(s) ==
    /\ stage[s] = "closed"
    /\ stage' = [stage EXCEPT ![s] = "opened"]
    /\ keys' = [keys EXCEPT ![s] = IF FileBacked /\ Readable(keystore_file)
                                   THEN keystore_file.value ELSE EmptyMap]
    /\ UNCHANGED <<profile, call, files, draws, acknowledged>>

Open(s) ==
    /\ stage[s] = "closed"
    /\ FileBacked => Readable(keystore_file)
    /\ stage' = [stage EXCEPT ![s] = "opened"]
    /\ keys' = [keys EXCEPT ![s] = IF FileBacked THEN keystore_file.value
                                                 ELSE EmptyMap]
    /\ UNCHANGED <<profile, call, files, draws, acknowledged>>

\* Mutant: a profile that cannot be read is taken to be absent.
LoadOrNewProfile(s) ==
    /\ stage[s] \in {"opened", "idle"}
    /\ stage' = [stage EXCEPT ![s] = "idle"]
    /\ profile' = [profile EXCEPT ![s] = IF metadata_file.state = "intact"
                                         THEN metadata_file.value
                                         ELSE NewProfile]
    /\ UNCHANGED <<keys, call, files, draws, acknowledged>>

\* The caller may load again at any time; the key store is read only once.
LoadOrCreateProfile(s) ==
    /\ stage[s] \in {"opened", "idle"}
    /\ Readable(metadata_file)
    /\ stage' = [stage EXCEPT ![s] = "idle"]
    /\ profile' = [profile EXCEPT ![s] = IF metadata_file.state = "absent"
                                         THEN NewProfile
                                         ELSE metadata_file.value]
    /\ UNCHANGED <<keys, call, files, draws, acknowledged>>

\* The session ends wherever it is; a file it is writing stays as it is.
Close(s) ==
    /\ stage[s] # "closed"
    /\ stage' = [stage EXCEPT ![s] = "closed"]
    /\ keys' = [keys EXCEPT ![s] = EmptyMap]
    /\ profile' = [profile EXCEPT ![s] = NewProfile]
    /\ call' = [call EXCEPT ![s] = Other]
    /\ keystore_file' \in IF stage[s] = "flushing"
                          THEN InterruptedOutcomes(keystore_file)
                          ELSE {keystore_file}
    /\ metadata_file' \in IF stage[s] = "saving"
                          THEN InterruptedOutcomes(metadata_file)
                          ELSE {metadata_file}
    /\ UNCHANGED <<draws, acknowledged>>

-----------------------------------------------------------------------------
(* Calls that make a key.  The key enters the session's map before it is   *)
(* flushed, and stays there when flushing fails.  One draw names all fresh *)
(* values of a call: its key handle, its random seed and its record id are *)
(* of different kinds and never meet.                                      *)

\* Mutant: handles are numbered within the session's key map.
BeginKeyCallNumbering(s, kind, from, algorithm, secret) ==
    LET handle == CHOOSE n \in 1 .. draws + 1 : n \notin DOMAIN keys[s]
    IN /\ stage[s] = "idle"
       /\ draws < MaxDraws
       /\ draws' = draws + 1
       /\ keys' = [keys EXCEPT ![s] =
                      Put(@, handle, [algorithm |-> algorithm,
                                      secret |-> secret])]
       /\ call' = [call EXCEPT ![s] = [kind |-> kind, id |-> handle,
                                       from |-> from]]
       /\ stage' = [stage EXCEPT ![s] = IF FileBacked THEN "flush"
                                                      ELSE "flushed"]
       /\ UNCHANGED <<profile, files, acknowledged>>

BeginKeyCall(s, kind, from, algorithm, secret) ==
    LET fresh == draws + 1
    IN /\ stage[s] = "idle"
       /\ draws < MaxDraws
       /\ draws' = fresh
       /\ keys' = [keys EXCEPT ![s] =
                      Put(@, fresh, [algorithm |-> algorithm,
                                     secret |-> secret])]
       /\ call' = [call EXCEPT ![s] = [kind |-> kind, id |-> fresh,
                                       from |-> from]]
       /\ stage' = [stage EXCEPT ![s] = IF FileBacked THEN "flush"
                                                      ELSE "flushed"]
       /\ UNCHANGED <<profile, files, acknowledged>>

CreateIdentity(s) == BeginKeyCall(s, "identity", None, "ed25519", draws + 1)

ImportIdentity(s) ==
    \E seed \in Seeds : BeginKeyCall(s, "identity", None, "ed25519", seed)

RotateActiveIdentity(s) ==
    /\ ActiveIdentity(profile[s]).ok
    /\ BeginKeyCall(s, "identity", ActiveIdentity(profile[s]).value,
                    "ed25519", draws + 1)

CreatePaymentAccount(s) ==
    BeginKeyCall(s, "account", None, "secp256k1", draws + 1)

ImportPaymentAccount(s) ==
    \E seed \in Seeds : BeginKeyCall(s, "account", None, "secp256k1", seed)

\* With the key kept, the call adds the record it made to the profile.
Registered(p, c, record) ==
    LET identity == NewIdentity(c.id, DidOf(record))
    IN CASE c.kind = "account" ->
              AddPaymentAccount(p, c.id, NewPaymentAccount(c.id,
                                                           AddressOf(record)))
         [] c.kind = "identity" /\ c.from = None -> AddIdentity(p, c.id, identity)
         [] OTHER -> RotateIdentity(p, c.from, c.id, identity)

Register(s) ==
    /\ stage[s] = "flushed"
    /\ stage' = [stage EXCEPT ![s] = "save"]
    /\ profile' = [profile EXCEPT ![s] =
                      Registered(@, call[s], keys[s][call[s].id])]
    /\ UNCHANGED <<keys, call, files, draws, acknowledged>>

-----------------------------------------------------------------------------
(* Calls that need no key.  They change the profile and save it.           *)

BeginSave(s, c, p) ==
    /\ stage[s] = "idle"
    /\ stage' = [stage EXCEPT ![s] = "save"]
    /\ call' = [call EXCEPT ![s] = c]
    /\ profile' = [profile EXCEPT ![s] = p]
    /\ UNCHANGED <<keys, files, acknowledged>>

RegisterWatchPaymentAccount(s) ==
    /\ draws < MaxDraws
    /\ draws' = draws + 1
    /\ \E address \in WatchAddresses :
          BeginSave(s, [kind |-> "account", id |-> draws + 1, from |-> None],
                    AddPaymentAccount(profile[s], draws + 1,
                                      NewPaymentAccount(None, address)))

SetActiveIdentity(s) ==
    /\ \E id \in DOMAIN profile[s].identities :
          BeginSave(s, Other, SetActiveIdentityId(profile[s], id))
    /\ UNCHANGED draws

SetActivePaymentAccount(s) ==
    /\ \E id \in DOMAIN profile[s].payment_accounts :
          BeginSave(s, Other, SetActivePaymentAccountId(profile[s], id))
    /\ UNCHANGED draws

SaveProfile(s) ==
    /\ BeginSave(s, Other, profile[s])
    /\ UNCHANGED draws

-----------------------------------------------------------------------------
(* FileKeyStore::flush: the whole map of this session replaces the file.   *)

\* The caller may flush by itself, through Wallet::keystore.
FlushKeyStore(s) ==
    /\ FileBacked
    /\ stage[s] = "idle"
    /\ stage' = [stage EXCEPT ![s] = "flush"]
    /\ UNCHANGED <<keys, profile, call, files, draws, acknowledged>>

FlushTruncate(s) ==
    /\ stage[s] = "flush"
    /\ stage' = [stage EXCEPT ![s] = "flushing"]
    /\ keystore_file' = Truncated(keystore_file)
    /\ UNCHANGED <<keys, profile, call, metadata_file, draws, acknowledged>>

FlushWrite(s) ==
    /\ stage[s] = "flushing"
    /\ stage' = [stage EXCEPT ![s] = IF call[s] = Other THEN "idle"
                                                       ELSE "flushed"]
    /\ keystore_file' \in WriteOutcomes(keystore_file, keys[s])
    /\ UNCHANGED <<keys, profile, call, metadata_file, draws, acknowledged>>

\* Mutant: the call goes on as if its key had been written.
FlushFailIgnored(s) ==
    /\ stage[s] \in {"flush", "flushing"}
    /\ stage' = [stage EXCEPT ![s] = IF call[s] = Other THEN "idle"
                                                       ELSE "flushed"]
    /\ keystore_file' \in IF stage[s] = "flushing"
                          THEN InterruptedOutcomes(keystore_file)
                          ELSE {keystore_file}
    /\ UNCHANGED <<keys, profile, call, metadata_file, draws, acknowledged>>

\* Mutant: the key store is written again until that succeeds.
FlushFailRetrying(s) ==
    /\ stage[s] \in {"flush", "flushing"}
    /\ stage' = [stage EXCEPT ![s] = "flush"]
    /\ keystore_file' \in IF stage[s] = "flushing"
                          THEN InterruptedOutcomes(keystore_file)
                          ELSE {keystore_file}
    /\ UNCHANGED <<keys, profile, call, metadata_file, draws, acknowledged>>

\* The call returns the i/o error.  Its key stays in the session's map.
FlushFail(s) ==
    /\ stage[s] \in {"flush", "flushing"}
    /\ stage' = [stage EXCEPT ![s] = "idle"]
    /\ call' = [call EXCEPT ![s] = Other]
    /\ keystore_file' \in IF stage[s] = "flushing"
                          THEN InterruptedOutcomes(keystore_file)
                          ELSE {keystore_file}
    /\ UNCHANGED <<keys, profile, metadata_file, draws, acknowledged>>

-----------------------------------------------------------------------------
(* FileWalletMetadataStore::save: likewise for the profile.                *)

SaveTruncate(s) ==
    /\ stage[s] = "save"
    /\ stage' = [stage EXCEPT ![s] = "saving"]
    /\ metadata_file' = Truncated(metadata_file)
    /\ UNCHANGED <<keys, profile, call, keystore_file, draws, acknowledged>>

\* The call returns Ok.
SaveWrite(s) ==
    /\ stage[s] = "saving"
    /\ stage' = [stage EXCEPT ![s] = "idle"]
    /\ call' = [call EXCEPT ![s] = Other]
    /\ metadata_file' \in WriteOutcomes(metadata_file, profile[s])
    /\ acknowledged' = acknowledged \cup
                           IF call[s].kind = "other" THEN {} ELSE {call[s]}
    /\ UNCHANGED <<keys, profile, keystore_file, draws>>

\* The call returns the i/o error.  The session's profile keeps its change.
SaveFail(s) ==
    /\ stage[s] \in {"save", "saving"}
    /\ stage' = [stage EXCEPT ![s] = "idle"]
    /\ call' = [call EXCEPT ![s] = Other]
    /\ metadata_file' \in IF stage[s] = "saving"
                          THEN InterruptedOutcomes(metadata_file)
                          ELSE {metadata_file}
    /\ UNCHANGED <<keys, profile, keystore_file, draws, acknowledged>>

-----------------------------------------------------------------------------
(* Calls that change nothing.  They read the caller's profile p and the    *)
(* session's key map k.                                                    *)

SignWithActiveIdentity(p, k, payload) ==
    LET active == ActiveIdentity(p)
    IN IF ~active.ok THEN active
       ELSE SignBytes(k, p.identities[active.value].key_handle, payload)

VerifyWithIdentity(p, k, id, payload, signature) ==
    IF id \notin DOMAIN p.identities THEN Err("UnknownIdentityId")
    ELSE VerifyBytes(k, p.identities[id].key_handle, payload, signature)

ActiveIdentityKeyInfo(p, k) ==
    LET active == ActiveIdentity(p)
    IN IF ~active.ok THEN active
       ELSE PublicKeyInfo(k, p.identities[active.value].key_handle)

ExportActiveIdentitySeed(p, k) ==
    LET active == ActiveIdentity(p)
    IN IF ~active.ok THEN active
       ELSE ExportSecret(k, p.identities[active.value].key_handle, "ed25519")

\* A watch-only account has no key: the Metadata error.
ActiveAccountHandle(p) ==
    LET active == ActivePaymentAccount(p)
    IN IF ~active.ok THEN active
       ELSE IF ~IsKeyControlled(p.payment_accounts[active.value])
            THEN Err("Metadata")
            ELSE Ok(p.payment_accounts[active.value].key_handle)

SignWithActivePaymentAccount(p, k, payload) ==
    LET handle == ActiveAccountHandle(p)
    IN IF ~handle.ok THEN handle ELSE SignBytes(k, handle.value, payload)

ActivePaymentAccountKeyInfo(p, k) ==
    LET handle == ActiveAccountHandle(p)
    IN IF ~handle.ok THEN handle ELSE PublicKeyInfo(k, handle.value)

ExportActivePaymentAccountSecret(p, k) ==
    LET handle == ActiveAccountHandle(p)
    IN IF ~handle.ok THEN handle
       ELSE ExportSecret(k, handle.value, "secp256k1")

-----------------------------------------------------------------------------
Step(s) ==
    \/ Open(s) \/ LoadOrCreateProfile(s) \/ Close(s)
    \/ CreateIdentity(s) \/ ImportIdentity(s) \/ RotateActiveIdentity(s)
    \/ CreatePaymentAccount(s) \/ ImportPaymentAccount(s) \/ Register(s)
    \/ RegisterWatchPaymentAccount(s)
    \/ SetActiveIdentity(s) \/ SetActivePaymentAccount(s) \/ SaveProfile(s)
    \/ FlushKeyStore(s) \/ FlushTruncate(s) \/ FlushWrite(s) \/ FlushFail(s)
    \/ SaveTruncate(s) \/ SaveWrite(s) \/ SaveFail(s)

Next == \E s \in Sessions : Step(s)

Spec == Init /\ [][Next]_vars

=============================================================================
