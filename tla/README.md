# watt-wallet: TLA+ specification and proofs

watt-wallet keeps the keys of local identities and payment accounts, and the
records that refer to them, in two JSON files that it reads and writes
separately; it signs and verifies with those keys. These modules model its key
store, profile and metadata store, the operations of `Wallet` on them, the
command-line tool, capability tokens and payment binding proofs. TLC checks them
on small instances and TLAPS proves the safety properties, the refinements and the
action properties for every instance.

## The system

| Part | Source | State | Operations |
|---|---|---|---|
| Key store | `src/keystore.rs` | a `HashMap` from key handle to secret; `keystore.json` behind a `FileKeyStore` | open, flush; generate, import, export; sign, verify, public key info |
| Metadata store | `src/metadata.rs` | `metadata.json` | load, save |
| Profile | `src/model.rs` | identities, payment accounts, which of each is selected; owned by the caller | add, rotate, select, look up, export and import as JSON |
| Wallet | `src/wallet.rs` | a key store and a metadata store | create, import, rotate, watch, select, save; sign, verify, export, key info |
| Payment binding | `src/payment_binding.rs` | none | build and verify proofs that an agent controls a payment account |
| Capability tokens | `src/delegation.rs` | none | sign tokens; sign and verify JSON payloads |
| Command-line tool | `src/bin/watt-wallet.rs` | none | one command per process on one directory |

`Wallet` calls its two stores; the caller owns the profile and passes it to
every call. A call that makes a key (create, import, rotate) puts the key in the
session's map, writes the whole map to `keystore.json`, changes the caller's
profile, and writes the whole profile to `metadata.json`, in this order. Nothing
locks or renames a file, and each session reads `keystore.json` once, when it is
opened. Tokens and binding proofs are built from what a caller was told earlier:
DIDs, key handles, public keys.

What is hard: both files are overwritten whole from snapshots, so sessions that
overlap undo each other; every write truncates first, so a process that stops
leaves an unreadable file; a call has up to four file accesses and may fail or
stop between any two; a failed call leaves its change in memory; handles, public
keys and issuers are named separately and may not belong together, or no longer.
What makes the parts correct:

- key store: a handle always leads to the key it was made for; no flush drops a
  stored key.
- profile: a selection never dangles; rotation builds chains; there is always an
  active identity to select; whoever can open the key store can restore an export.
- wallet: a record is never saved before its key; no save drops what a call
  reported; what is selected can be used.
- capability tokens: a token verifies for the identity that was active, and a
  signature for the identity whose key made it.
- payment binding: what is accepted was signed as it stands with the keys it
  names; a change of any signed field is noticed.
- tool: every command ends; none makes a damaged file worse.

## Modules

| Module | Models |
|---|---|
| `FileStore` | one JSON file: absent, intact, empty (truncated) or torn, and what a write leaves behind when it completes, fails, stops or overlaps another one |
| `KeyStore` | key maps, what is derived from a secret, and the operations of the `KeyStore` trait |
| `Profile` | `WalletProfileMetadata` and its methods |
| `Wallet` | the state machine: sessions over one directory |
| `Capability` | tokens and JSON payloads, signed by a session |
| `WalletProperties` | the properties of sessions |
| `Custody` | abstract: what a wallet directory promises, without files, calls or failures, in a strong form and a weak one |
| `Backup` | sessions whose caller exports and imports its profile |
| `Cli` | the tool: processes that run one command each |
| `Binding` | payment binding proofs: built, passed on, verified |
| `MCWallet`, `MCBackup`, `MCCli`, `MCBinding` | TLC instances |
| `WalletProofs`, `RecordProofs`, `AgreementProofs`, `LedgerProofs`, `BackupProofs`, `CliProofs`, `CustodyProofs`, `BindingProofs` | the proofs |

`Wallet` extends `Profile` (which extends `KeyStore`) and `FileStore`;
`WalletProperties` extends `Wallet` and `Capability`, and instantiates `Custody`;
`Backup` and `Cli` extend `WalletProperties` and compose its steps with their
own. `Binding` stands beside them on `KeyStore`: it reads keys, and no file.

### State

A session is a `Wallet` value with the profile its caller loaded: one run of the
tool, or a program that keeps its wallet open. `keys[s]` is `self.keystore.keys`,
`profile[s]` the caller's profile, `stage[s]` how far the session is and `call[s]`
the call in progress. `keystore_file` and `metadata_file` are the files. `draws`
counts fresh values. `acknowledged` is a history variable: the calls that
returned `Ok` after adding an identity or an account.

`Backup` adds `exports`, the profiles that were exported. `Cli` adds
`command[s]`, the command a process runs, and `called[s]`, whether it has come to
its call. `Custody` has a `vault` (a key map) and a `book` (a profile). `Binding`
has the wallet's key store, that of an agent outside the wallet, the
`KeyMaterialInfo` values and the proofs that were handed out (`infos`, `built`),
and the proof that arrives at a verifier (`received`).

### Actions

A call without file access in the middle is one action; every file access is
one of its own, so other sessions interleave there:

- `Open`: `FileKeyStore::open`, or `InMemoryKeyStore::new` when `FileBacked` is
  FALSE; `LoadOrCreateProfile`: at any time between calls; `Close`: the session
  ends normally, or is killed, wherever it is.
- `CreateIdentity`, `ImportIdentity`, `RotateActiveIdentity`,
  `CreatePaymentAccount`, `ImportPaymentAccount` start with `BeginKeyCall` (the
  key enters the map), continue with `FlushTruncate` and `FlushWrite` (or
  `FlushFail`), `Register` (the record enters the profile), and `SaveTruncate`
  and `SaveWrite` (or `SaveFail`).
- `RegisterWatchPaymentAccount`, `SetActiveIdentity`, `SetActivePaymentAccount`,
  `SaveProfile` change the profile and go on to save it. `FlushKeyStore` is the
  caller's own flush through `Wallet::keystore`.

In `Wallet` a call that fails before it changes anything (an unknown id, no active
identity, a file that does not parse) is no step. Calls that only read, tokens
among them, are operators, which properties evaluate in every state.

In `Cli` such a failure is a step, because it ends the process: `ExitWithError`.
`Run` starts a process, `OpenKeyStore`, `LoadProfile`, `Call` and `Work` are its
way through `run()`, `Exit` its return, `Kill` a stop at any point.

In `Backup`, `ExportJson` and `ImportJson` are steps of a caller between calls.
`ImportJson` is also a way into a session: it needs no profile to be loaded, so a
caller can start with an export where `metadata.json` does not parse.

In `Binding`, `MakeKey` covers generating and importing on either key store,
`Restart` a wallet whose `InMemoryKeyStore` is gone, `BuildProof` and
`BuildProofWithAgentSigner` the two builders with everything a caller may ask
for: the DID, the key handles and the public keys are those of any keys it was told
of, each named by itself. `Send` and `Alter` carry a proof to a verifier; on the way
single fields change, and envelopes are dropped, stripped or replaced by those of
other proofs.
Verification is an operator that properties evaluate on what has arrived.

### Abstractions

- UUIDs and random seeds are numbers, each drawn once. One draw stands for all
  fresh values of a call; they are of different kinds and never compared. The
  `Vec`s of the profile are therefore maps by id.
- A public key stands for its secret, a DID or an address for its public key, a
  signature for the signing key and the payload. secp256k1 imports that the curve
  rejects change nothing and are left out. Nobody signs without the key.
- Labels, purposes, rails, networks, capabilities, profile ids and times decide
  nothing in the code that `Wallet` models and are left out. In `Binding`, where
  they are signed, one value of `Terms` stands for the fields that only the
  challenge reads. The canonical challenge is the record of its fields.
- A binding's DID is not compared with the agent's public key, its expiry is not
  looked at and the nonce in an envelope is not read, by the code and so by the
  model. Whoever relies on an accepted proof has to find out by itself whether the
  public key in `agent_proof` is one of `agent_did` (run `binding_agent`).
- A write that overlaps another one leaves the new document or a file that does
  not parse. That bytes of two documents mix into a third one that parses is not
  modelled.
- The file's last complete document stays in `value` as history while the file is
  unreadable. Nothing reads it then; properties say what it held. In the code such a
  file has lost what it held: a process that stops between the truncation and the
  write of `fs::write` (keystore.rs:186, metadata.rs:37) destroys every key, or every
  record, and nothing in the repository brings them back. Properties that speak of
  the last complete document (`KeyCustody`, `AcknowledgedSurvives`,
  `ImplementsCustody`, `ImplementsSafekeeping`) therefore promise that what is
  written completely is never worse than what was written completely before it, and
  do not promise that a file can always be read.
- Power loss is not modelled (nothing in the code calls fsync), the end of a
  process is.
- `list` stands for the two listing commands and for help, none of which changes
  anything; a command that takes an argument may be refused for it.

## Runs

| Run | Instance | Shows |
|---|---|---|
| `one_session` | two sessions in turn, `MaxDraws` = 3 | `RotationLineage`, `KeyCustody`, `SelectionWorks`, `AcknowledgedSurvives`, `ImplementsCustody` |
| `sessions` | two sessions, `MaxDraws` = 2, one secret to import, symmetric | `TypeOK`, `RotationLineage`, `SelectionsAreSound`, `KeysMatchRecords`, `RecordsAgree`, `TokensNameTheirSigner`, `SignaturesTellSigners` |
| `backup` | two sessions in turn, `MaxDraws` = 3, one export | `ExportsRestorable`, `RotationLineage`, `SelectionWorks`, `ImplementsSafekeeping` |
| `commands` | one process at a time, `MaxDraws` = 3 | `CommandsEnd`, `DamageIsKept` |
| `commands_overlap` | two processes, `MaxDraws` = 2 | `CommandsEnd`, `DamageIsKept`, `CommandsAreShort` |
| `commands_key_turns` | two processes, those that make keys in turn, `MaxDraws` = 3 | `ImplementsSafekeeping` |
| `commands_writer_turns` | two processes, those that write in turn, `MaxDraws` = 3 | `AcknowledgedSurvives`, `ImplementsCustody` |
| `binding` | two keys, two proofs, two changes | `TypeOK`, `BuiltVerifiesIfKeysMatch`, `AcceptedWasSigned`, `ChangedFieldIsInvalidSignature` |
| `binding_agent` | two keys, one proof | `AcceptedNamesItsAgent` fails |
| `quick_start` | one session, in-memory keys | `QuickStartSigns` fails |
| `overlap` | two sessions, `MaxDraws` = 2 | `KeyCustody` fails |

Of sessions, however they overlap:

- `RotationLineage`: in every profile, on disk and in memory, an identity is
  rotated exactly when one other identity replaces it, and chains neither fork nor
  merge.
- `SelectionsAreSound`: a profile that has identities selects one of them, and has one
  that is active, so that `active_identity` accepts it once it is selected; a profile
  that has accounts selects an active one. This is about records. That the keys are
  there is `SelectionWorks`, which overlapping sessions do not keep.
- `KeysMatchRecords`: the DID or address in a record is that of the key under its
  handle, in every key map that has the handle.
- `RecordsAgree`: an id means the same thing everywhere. Two profiles that both have
  a record under it agree on its key, its DID or address and what it replaced.
- `TokensNameTheirSigner`: a token verifies for the issuer its caller named exactly
  when that is the DID of the identity that is active as it is signed. The code
  issues the token in either case.
- `SignaturesTellSigners`: what one session signed as an identity verifies in
  another under the identities with the same DID and under no other.

Of any number of sessions of which no two are open at the same time:

- `KeyCustody`: the last complete `metadata.json` refers to no key that the last
  complete `keystore.json` lacks.
- `SelectionWorks`: no call on the selected identity or account fails for want of
  a key or for a key of the wrong kind, and the active identity's signatures
  verify.
- `AcknowledgedSurvives`: what a call reported as added is in the last complete
  `metadata.json` from then on. No later save drops it, and no session takes a
  damaged file for a new directory; a save that is killed may leave the file itself
  unreadable.
- `ImplementsCustody`: the last complete documents of the two files are a vault and
  a book as `Custody` has them. From one to the next they only grow, a handle keeps
  its key, no rotated identity comes back, and a record is written when the key it
  was made for has already been.
- `ExportsRestorable`: a session that has its key store open, or can open it, has the
  keys of every export, also while no profile refers to them. Where `keystore.json`
  was left truncated or torn nobody can open it, and no export helps. An import does
  undo the book: `ImplementsCustody` and `AcknowledgedSurvives` do not hold in
  `Backup`.
- `ImplementsSafekeeping`, also of sessions that import: no complete `keystore.json`
  drops or replaces a key of the one before, and whoever writes `metadata.json` over
  whatever is there, what it says is backed by keys that were written (`Custody`'s
  weak form).

Of the tool:

- `CommandsEnd`: every command ends, whatever the files hold, whichever writes
  fail and whatever other processes do.
- `DamageIsKept`: a file that is unreadable when no process is running stays as it
  is. While another process is writing, a file may be unreadable and recover.
- `CommandsAreShort`: each step of a process uses up one of at most nine that it had
  left, and other processes neither add one nor touch what it has in memory. Nothing
  is tried twice, and nobody waits for a file to become readable.
- `ImplementsSafekeeping`, when only the commands that make keys take turns, whatever
  others overlap. Records may get lost to a later save.
- `AcknowledgedSurvives`, `ImplementsCustody`, when only the commands that write take
  turns: all that sessions in turn promise is kept, whatever commands that read run
  beside them.

Of binding proofs:

- `BuiltVerifiesIfKeysMatch`: the builder does not compare handles with public
  keys; what it returns verifies exactly when they belong together.
- `AcceptedWasSigned`: an accepted proof makes a statement that was signed in this
  form with the Ed25519 key that its agent envelope names and, unless the account is
  only watched, with the key its address belongs to. The parts of several proofs
  cannot be combined into another statement. It does not say that the first key is
  the one of `agent_did`: `binding_agent` shows that it need not be.
- `ChangedFieldIsInvalidSignature`: a field changed under its signatures is
  reported as an invalid signature, unless `validate_basic` refuses it first.

`KeyCustody`, `SelectionWorks`, `AcknowledgedSurvives` and `ImplementsCustody` hold
for sessions that take turns only. With two that overlap they do not, and the
`overlap` run shows the worst case: session 2 opens the key store, session 1 creates an identity and
returns `Ok`, session 2 flushes its own map, and the first identity's secret is
gone while its record remains. The `quick_start` run shows that the README's
example, which keeps keys in memory and its profile at a fixed path, cannot sign
the second time it runs. The `binding_agent` run shows a proof, built and accepted,
that names the DID of one key and is signed with another one: the code leaves it to
the builder's caller and to whoever reads an accepted proof that the public key is
"bound to `agent_did`" (payment_binding.rs:63).

### Bounds

`MaxDraws` bounds the fresh values drawn, and is the only bound on `Wallet`. Three
draws in turn give a chain of two rotations, or an identity, its replacement and an
account, with a failure, a stop and a reopening, of the same session or of the
other, at any of the steps. Two draws with two sessions that overlap give each its
own new key or a rotation raced by a second call. `Seeds` has one secret, which
can be imported repeatedly, so that two identities of one session, or of two, have
the same DID. The properties of overlapping sessions include what one session could
do with the same bound.

`Backup` needs `MaxExports` = 1 only: properties are about one export at a time.
Three draws let it be made, outgrown by a rotation and an account, restored, also by
a new session over a damaged `metadata.json`, and rotated again. `commands_overlap`
has `MaxDraws` = 2 because with one there is no second command that adds to a damaged
directory, and no imports: an import takes the same steps as a new account. The two
runs with turns have three: a key that is saved, a second one whose writing is
interrupted, and a third that would drop the first. In `Binding`, `MaxKeys` = 2 gives
one key per signature or two of one kind, in either store, and a DID of the one beside
a signature of the other; two proofs are enough to take an envelope or a field from
one into the other, and two changes to swap an envelope and a field, the way to make a
statement out of two. `Terms` has two values, which are symmetric. `binding_agent`
needs one proof and no change.

### Deadlock

Not checked for sessions (`Wallet`, `Backup`): a `keystore.json` that does not parse
makes `open` fail for good, so once one was left behind no session can start. A
`metadata.json` that does not parse does the same to `load_or_create_profile`; there
a caller that has an export can still go on with it, and its next save makes the file
whole again (`Backup`). Checked for `Cli`, where that is an exit and another command
can always be run, and for `Binding`.

### Fairness

`Cli` assumes weak fairness of `Progress(s)`, all that a process does by itself,
for each process. It is justified because the tool has one thread that never waits
for a lock, for input or for another process, and the operating system runs it and
returns from its file accesses. Nobody has to start a process or to kill one; the
outcome of a write, and which error comes first, are left open. Sessions of
`Wallet` may stop anywhere, and no fairness is assumed of them, or of `Binding`.

## Proofs

Every property that a passing run checks, except `CommandsEnd`, is also proved, for every
value of the constants: any `MaxDraws`, any sets of secrets and addresses, any
number of sessions or processes. The assumptions are that imported secrets and
`None` are not numbers and that `None` is neither a public key nor an envelope.
`FileBacked`, a hypothesis of the theorems on what the files promise, says that the
key store is a `FileKeyStore`. Who has to take turns is part of the specification a
theorem starts from: nobody (`Spec`, `CliSpec`), all sessions (`SerialSpec`,
`BackupSpec`), the commands that make keys (`KeyTurnsSpec`), or those that write
(`WriterTurnsSpec`).

- `WalletProofs`: `TypeCorrect` (`Spec => []TypeOK`) and `CustodyHolds`
  (`SerialSpec => []KeyCustody`). `TypeOK` is not inductive: `Register` reads the key
  of the pending call and, in a rotation, the identity to be retired. `TypeInv` adds
  `PendingCall`: both are there from `BeginKeyCall` to `Register`. `CustodyInv(M)` is
  about a set `M` of sessions that are the only ones to write `keystore.json`, and
  says what each open session owes to the files (`SessionCustody`): the key map of
  one in `M`, which will replace `keystore.json`, has every key that is there; the
  profile of any session, which may replace `metadata.json`, refers to keys that are
  there already; nobody else touches `keystore.json` between its truncation and its
  write; and with the write done the pending key is in the file. `StepCustody` shows that a
  step keeps it when the sessions of `M` take turns and no other flushes
  (`OnlyFlush(M)`), so that the others may overlap as they like.
- `RecordProofs`, sessions that overlap: `LineageHolds`,
  `SelectionsStaySound`, `HandlesKeepTheirKeys`, `TokensTellTheirSigner`,
  `SignaturesNameSigners`. Their
  invariant `RecordInv` says that no id or handle is past `draws`, so that fresh
  ones are new everywhere; that any two key maps agree on the handles they share;
  that every profile is sound by itself (its lineage, its selections, an active
  identity); that every record matches every key map; and that the record about
  to be registered will. Overlapping sessions do not disturb it, because each
  part speaks of single profiles and pairs of snapshots, whichever of them is on
  disk.
- `AgreementProofs`, sessions that overlap: `IdsMeanOneThing` (`Spec =>
  []RecordsAgree`). Two profiles may come to share an id only by copying, unless a
  call registers one that another profile has, so `AgreeInv` adds to `RecordInv`
  that the id of a call whose key is being written is in no profile and in no other
  call (`Unseen`). The rest are lemmas on what each profile operation does to a
  profile that agrees with another (`NewAccountAgrees`, `NewIdentityAgrees`,
  `RetiredAgrees`, `RegisteredAgrees`).
- `LedgerProofs`, sessions that take turns: `DirectoryImplementsCustody` (the
  refinement, one step of the files at a time), `AcknowledgedStays`,
  `SelectionCanBeUsed`. `LedgerInv(W)` joins `CustodyInv(W)` and `RecordInv` with what
  a session of `W`, the only ones that save, owes to the book: its profile extends
  `metadata.json`, and its map has the keys of all it records. `SafekeepingStep` is
  the step of the weaker refinement, from `CustodyInv` and `RecordInv` alone.
- `CustodyProofs`: `BookIsBacked`, already in the weak form of `Custody` every record
  has its very key in the vault.
- `BackupProofs`: `ExportsStayRestorable`, and `RestoredLineage` and
  `RestoredSelection` for sessions that import, their own export or another
  session's. An import takes `LedgerInv` away (the profile no longer extends the
  file), so `BackupInv` goes back to `CustodyInv` and `RecordInv`, and adds that
  every export is a sound profile whose keys are in the last complete
  `keystore.json`, which only grows; an open session has at least those
  (`SessionCustody`), and the same ones (`RecordInv`).
  `RestoringKeepsSafe` is the weak refinement, from the same two.
- `CliProofs`: `CliIsWallet` (`CliSpec => Spec`): every step of the tool is one of
  sessions or leaves them alone, which carries the safety theorems about `Spec` over
  to it; with `SerialCliIsWallet`, also those about `SerialSpec` when one process
  runs at a time. `KeyMakersInTurn` and `KeyMakersKeepCustody` (from `CustodyInv` of
  the processes with a key command), `WritersInTurn` and `WritersKeepTheirWord` (from
  `LedgerInv` of those with a writing command) say how little has to take turns: what
  they need besides `StepCustody` and `StepLedger` is that the other commands never
  flush or save, because a call is of its command's kind (`InCall`). `CommandsRunOnce`
  ranks the stages of a process by `StepsLeft`. `DamageStays`: while no process runs
  there is no session; from there, with `keystore.json` unreadable nobody opens it,
  and with `metadata.json` unreadable nobody gets past loading it, so nobody writes.
- `BindingProofs`, with DID, handles and public keys named in any combination:
  `BuiltVerifies`, `AcceptedIsSigned`, `ChangedFieldIsReported`,
  `BindingTypes`. `BindingInv` says that every built proof carries two signatures
  over its own challenge beside two copies of it, and that every signature of a
  proof on its way is one of a built proof.

Only model-checked: `CommandsEnd`, as liveness under fairness is beyond the prover.
`CommandsRunOnce` is the safety half of it: a command has finitely many steps to
take. What is left to TLC is that it is never stuck before the last. `QuickStartSigns`,
`AcceptedNamesItsAgent`, and `KeyCustody` of sessions that overlap, do not hold.

## Not modelled

- Callers that edit a profile by themselves, through its public fields or
  `identity_mut` (disabling or archiving an identity, and anything else): the
  modelled callers use the operations of `Wallet`, export and import.
- `profile_id`: `load_or_create_profile` does not compare it with the one it
  loads.
- The records calls return. `rotate_active_identity` returns the replacement as
  it was before `rotated_from` was set; the profile has the other copy.
- Power loss. Nothing calls fsync, and what a file system keeps then is not in the
  code.
- Encodings, the syntax of arguments, and what the tool prints. `print_help`,
  listings and `payment_account` are lookups.
- `require_capabilities_present`, which nothing calls. `watt-did` beyond what
  `Binding` and `Capability` take from it; it is an external crate.
- Cryptography, which is ideal.

## Plan

What is left, in this order: callers that edit their profile's records, and which
of the session properties survive that; the records that calls return, against
those that are stored; profiles with a `profile_id`, so that two can share a
directory.
