------------------------------- MODULE Backup -------------------------------
(***************************************************************************)
(* Sessions whose caller also exports its profile as JSON and later goes   *)
(* on with an exported one (WalletProfileMetadata::export_json and         *)
(* import_json).  An imported profile replaces the caller's; it reaches    *)
(* metadata.json with the next call that saves, also where that file did   *)
(* not parse.  An export holds no keys: it depends on the keystore.json it *)
(* was made beside.                                                        *)
(***************************************************************************)
EXTENDS WalletProperties, FiniteSets

CONSTANT MaxExports     \* bound on the exports made

VARIABLE exports        \* the exported profiles that are kept somewhere

BackupInit == Init /\ exports = {}

\* The caller has its profile to itself between calls.
ExportJson(s) ==
    /\ stage[s] = "idle"
    /\ Cardinality(exports) < MaxExports
    /\ exports' = exports \cup {profile[s]}
    /\ UNCHANGED vars

\* Mutant: rotated_from is not read back.
ImportJsonSkippingRotatedFrom(s) ==
    /\ stage[s] \in {"opened", "idle"}
    /\ stage' = [stage EXCEPT ![s] = "idle"]
    /\ \E p \in exports :
          profile' = [profile EXCEPT ![s] =
              [p EXCEPT !.identities = [i \in DOMAIN @ |->
                  [@[i] EXCEPT !.rotated_from = None]]]]
    /\ UNCHANGED <<keys, call, files, draws, acknowledged, exports>>

\* Every field is read back as it was written.  Nothing has to be loaded before:
\* the caller may start with an export, whatever metadata.json holds.
ImportJson(s) ==
    /\ stage[s] \in {"opened", "idle"}
    /\ stage' = [stage EXCEPT ![s] = "idle"]
    /\ \E p \in exports : profile' = [profile EXCEPT ![s] = p]
    /\ UNCHANGED <<keys, call, files, draws, acknowledged, exports>>

BackupNext ==
    \/ Next /\ UNCHANGED exports
    \/ \E s \in Sessions : ExportJson(s) \/ ImportJson(s)

\* One session at a time.
BackupSpec ==
    BackupInit /\ [][BackupNext /\ TakeTurns(Sessions)']_<<vars, exports>>

-----------------------------------------------------------------------------
(* One session at a time, with a FileKeyStore.                             *)

\* An export can be restored by any session that has its key store open, or that
\* could open it: that key store has the very key of every record in the export,
\* also after another export was imported and saved, when no profile refers to
\* that key any more, and also for an export that holds what a failed save kept
\* from metadata.json.  Where keystore.json was left truncated or torn
\* (keystore.rs:186), no session can open it, and an export is no help.
ExportsRestorable ==
    \A p \in exports :
        /\ Readable(keystore_file) => Ledger!Backed(p, keystore_file.value)
        /\ \A s \in Sessions : stage[s] # "closed" => Ledger!Backed(p, keys[s])

=============================================================================
