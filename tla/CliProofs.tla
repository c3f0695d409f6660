------------------------------ MODULE CliProofs ------------------------------
(***************************************************************************)
(* The tool's processes are wallet sessions (CliIsWallet), so that what is *)
(* proved of all sessions holds of them; and a file that was left          *)
(* unreadable stays as it is.                                              *)
(***************************************************************************)
EXTENDS Cli, LedgerProofs

LEMMA EndIsClose ==
    ASSUME NEW s \in Sessions, End(s)
    PROVE  /\ [Next]_vars
           /\ stage[s] = "closed" => UNCHANGED vars
           /\ stage[s] # "closed" => Close(s)
  BY DEF End, Next, Step

LEMMA CliStepIsStep ==
    ASSUME [CliNext]_cliVars
    PROVE  [Next]_vars
  <1>1. CASE UNCHANGED cliVars
    BY <1>1 DEF cliVars
  <1>2. ASSUME NEW s \in Sessions, NEW c, Run(s, c) PROVE [Next]_vars
    BY <1>2 DEF Run
  <1>3. ASSUME NEW s \in Sessions, OpenKeyStore(s) \/ LoadProfile(s) \/ Work(s)
        PROVE  [Next]_vars
    BY <1>3 DEF OpenKeyStore, LoadProfile, Work, Next, Step
  <1>4. ASSUME NEW s \in Sessions, Call(s) PROVE [Next]_vars
    BY <1>4 DEF Call, Next, Step
  <1>5. ASSUME NEW s \in Sessions, ExitWithError(s) \/ Exit(s) \/ Kill(s)
        PROVE  [Next]_vars
    BY <1>5, EndIsClose DEF ExitWithError, Exit, Kill
  <1> QED
    BY <1>1, <1>2, <1>3, <1>4, <1>5 DEF CliNext, Progress

\* What the tool's processes do to the files, sessions of Wallet do: the
\* invariants proved of Spec hold of every use of the tool (run in
\* watt-wallet.rs calls nothing but Wallet, FileKeyStore and
\* FileWalletMetadataStore).
THEOREM CliIsWallet == CliSpec => Spec
  <1>1. CliInit => Init
    BY DEF CliInit
  <1> QED
    BY <1>1, CliStepIsStep, PTL DEF CliSpec, Spec

\* With one process at a time the tool is one session at a time.
THEOREM SerialCliIsWallet == CliSpec /\ []TakeTurns(Sessions) => SerialSpec
  <1>1. CliInit => Init
    BY DEF CliInit
  <1>2. [CliNext]_cliVars /\ TakeTurns(Sessions)'
           => [Next /\ TakeTurns(Sessions)']_vars
    BY CliStepIsStep
  <1> QED
    BY <1>1, <1>2, PTL DEF CliSpec, SerialSpec

\* A session in a call belongs to a process that has come to its call, by a
\* command that makes this kind of call.
InCall(s) ==
    /\ stage[s] \in {"flush", "flushing", "flushed"} =>
          called[s] /\ command[s] \in KeyCommands
    /\ stage[s] \in {"save", "saving"} =>
          called[s] /\ command[s] \in WritingCommands

\* The tool's sessions are of the types of Wallet, and a process that does not
\* run has none.
CliInv ==
    /\ TypeInv
    /\ DOMAIN command = Sessions /\ command = [s \in Sessions |-> command[s]]
    /\ DOMAIN called = Sessions /\ called = [s \in Sessions |-> called[s]]
    /\ \A s \in Sessions : command[s] = None => stage[s] = "closed"
    /\ \A s \in Sessions : InCall(s)

LEMMA InitCli == CliInit => CliInv
  BY InitType DEF CliInit, CliInv, Init, InCall

\* A step of a process that runs and goes on running.
LEMMA GoesOn ==
    ASSUME CliInv, NEW s \in Sessions, command' = command,
           called' = called \/ called' = [called EXCEPT ![s] = TRUE],
           command[s] # None, Step(s) \/ UNCHANGED vars, TypeInv', InCall(s)'
    PROVE  CliInv'
  <1>1. \A t \in Sessions : t # s => stage'[t] = stage[t] /\ called'[t] = called[t]
    BY OwnState DEF CliInv, TypeInv, vars
  <1>2. \A t \in Sessions : t # s => InCall(t)'
    BY <1>1 DEF CliInv, InCall
  <1>3. DOMAIN called' = Sessions /\ called' = [t \in Sessions |-> called'[t]]
    BY DEF CliInv
  <1> QED
    BY <1>1, <1>2, <1>3 DEF CliInv

LEMMA EndKeepsCli ==
    ASSUME CliInv, NEW s \in Sessions, End(s), TypeInv'
    PROVE  CliInv'
  <1>1. /\ command' = [command EXCEPT ![s] = None]
        /\ called' = [called EXCEPT ![s] = FALSE]
        /\ stage' = [stage EXCEPT ![s] = "closed"]
    <2>1. CASE stage[s] = "closed"
      BY <2>1, EndIsClose DEF End, CliInv, TypeInv, TypeOK, vars
    <2>2. CASE stage[s] # "closed"
      BY <2>2, EndIsClose DEF End, Close
    <2> QED BY <2>1, <2>2
  <1>2. \A t \in Sessions : InCall(t)'
    BY <1>1 DEF CliInv, InCall, TypeInv, TypeOK
  <1> QED
    BY <1>1, <1>2 DEF CliInv, TypeInv, TypeOK

\* The call a command makes is one of its kind.
LEMMA CallIsOfItsKind ==
    ASSUME CliInv, NEW s \in Sessions, Call(s)
    PROVE  InCall(s)'
  <1>1. called'[s] = TRUE /\ command' = command /\ stage[s] = "idle"
    BY DEF Call, CliInv
  <1>2. ASSUME NEW kind, NEW from, NEW algorithm, NEW secret,
               BeginKeyCall(s, kind, from, algorithm, secret)
        PROVE  stage'[s] \in {"flush", "flushed"}
    BY <1>2 DEF BeginKeyCall, CliInv, TypeInv, TypeOK
  <1>3. CASE \/ command[s] = "create-identity" /\ CreateIdentity(s)
             \/ command[s] = "create-payment-account" /\ CreatePaymentAccount(s)
             \/ command[s] = "import-payment-account" /\ ImportPaymentAccount(s)
    <2>1. stage'[s] \in {"flush", "flushed"}
      BY <1>2, <1>3 DEF CreateIdentity, CreatePaymentAccount, ImportPaymentAccount
    <2> QED BY <1>1, <1>3, <2>1 DEF InCall, KeyCommands
  <1>4. CASE \/ command[s] = "watch-payment-account" /\ RegisterWatchPaymentAccount(s)
             \/ command[s] = "bind-payment-account" /\ SetActivePaymentAccount(s)
    <2>1. stage'[s] = "save"
      BY <1>4 DEF RegisterWatchPaymentAccount, SetActivePaymentAccount, BeginSave,
                  CliInv, TypeInv, TypeOK
    <2> QED BY <1>1, <1>4, <2>1 DEF InCall, WritingCommands, Adding
  <1>5. CASE UNCHANGED vars
    BY <1>1, <1>5 DEF InCall, vars
  <1> QED
    BY <1>3, <1>4, <1>5 DEF Call

LEMMA WorkStaysInCall ==
    ASSUME CliInv, NEW s \in Sessions, Work(s)
    PROVE  InCall(s)' /\ command[s] # None /\ Step(s)
  <1>1. InCall(s) /\ command' = command /\ called' = called
        /\ (command[s] = None => stage[s] = "closed") /\ TypeOK
    BY DEF CliInv, TypeInv, Work, cli
  <1>2. Step(s)
    BY DEF Work, Step
  <1>3. command[s] # None
    BY <1>1 DEF Work, Register, FlushTruncate, FlushWrite, FlushFail,
                SaveTruncate, SaveWrite, SaveFail
  <1> SUFFICES InCall(s)'
    BY <1>2, <1>3
  <1>4. CASE Register(s)
    BY <1>1, <1>4 DEF Register, TypeOK, InCall, WritingCommands, Adding
  <1>5. CASE FlushTruncate(s) \/ FlushWrite(s) \/ FlushFail(s)
    <2>1. /\ stage[s] \in {"flush", "flushing"}
          /\ stage'[s] \in {"flushing", "flushed", "idle"}
      BY <1>1, <1>5 DEF FlushTruncate, FlushWrite, FlushFail, TypeOK
    <2> QED BY <1>1, <2>1 DEF InCall
  <1>6. CASE SaveTruncate(s) \/ SaveWrite(s) \/ SaveFail(s)
    <2>1. stage[s] \in {"save", "saving"} /\ stage'[s] \in {"saving", "idle"}
      BY <1>1, <1>6 DEF SaveTruncate, SaveWrite, SaveFail, TypeOK
    <2> QED BY <1>1, <2>1 DEF InCall
  <1> QED
    BY <1>4, <1>5, <1>6 DEF Work

LEMMA StepCli ==
    ASSUME CliInv, [CliNext]_cliVars
    PROVE  CliInv'
  <1>1. TypeInv' /\ TypeOK
    BY CliStepIsStep, StepType DEF CliInv, TypeInv
  <1>2. CASE UNCHANGED cliVars
    BY <1>1, <1>2 DEF CliInv, InCall, cliVars, cli, vars
  <1>3. ASSUME NEW s \in Sessions, NEW c \in Commands, Run(s, c) PROVE CliInv'
    <2>1. stage[s] = "closed" /\ UNCHANGED vars
      BY <1>3 DEF Run, CliInv
    <2>2. \A t \in Sessions : InCall(t)'
      BY <1>3, <2>1 DEF Run, CliInv, InCall, vars
    <2> QED BY <1>1, <1>3, <2>1, <2>2 DEF Run, CliInv, vars
  <1>4. ASSUME NEW s \in Sessions, OpenKeyStore(s) PROVE CliInv'
    <2>1. stage'[s] = "opened"
      BY <1>1, <1>4 DEF OpenKeyStore, Open, TypeOK
    <2>2. InCall(s)'
      BY <2>1 DEF InCall
    <2> QED BY <1>1, <1>4, <2>2, GoesOn DEF OpenKeyStore, cli, Step
  <1>5. ASSUME NEW s \in Sessions, LoadProfile(s) PROVE CliInv'
    <2>1. command[s] # None /\ stage'[s] = "idle"
      BY <1>1, <1>5 DEF LoadProfile, LoadOrCreateProfile, CliInv, TypeOK
    <2>2. InCall(s)'
      BY <2>1 DEF InCall
    <2> QED BY <1>1, <1>5, <2>1, <2>2, GoesOn DEF LoadProfile, cli, Step
  <1>6. ASSUME NEW s \in Sessions, Call(s) PROVE CliInv'
    <2>1. command[s] # None
      BY <1>6 DEF Call, CliInv
    <2>2. Step(s) \/ UNCHANGED vars
      BY <1>6 DEF Call, Step
    <2>3. InCall(s)'
      BY <1>6, CallIsOfItsKind
    <2> QED BY <1>1, <1>6, <2>1, <2>2, <2>3, GoesOn DEF Call
  <1>7. ASSUME NEW s \in Sessions, Work(s) PROVE CliInv'
    <2>1. InCall(s)' /\ command[s] # None /\ Step(s)
      BY <1>7, WorkStaysInCall
    <2> QED BY <1>1, <1>7, <2>1, GoesOn DEF Work, cli
  <1>8. ASSUME NEW s \in Sessions, ExitWithError(s) \/ Exit(s) \/ Kill(s)
        PROVE  CliInv'
    BY <1>1, <1>8, EndKeepsCli DEF ExitWithError, Exit, Kill
  <1> QED
    BY <1>2, <1>3, <1>4, <1>5, <1>6, <1>7, <1>8 DEF CliNext, Progress

-----------------------------------------------------------------------------
(* With keystore.json unreadable nobody opens it, with metadata.json       *)
(* unreadable nobody loads it; and nobody writes who has not loaded both.  *)

KeysDamaged ==
    ~Readable(keystore_file) /\ \A s \in Sessions : stage[s] = "closed"

ProfileDamaged ==
    /\ ~Readable(metadata_file)
    /\ \A s \in Sessions : stage[s] \in {"closed", "opened"}

\* Before both files are loaded, only three steps can be taken.
LEMMA BeforeLoading ==
    ASSUME NEW s \in Sessions, Step(s), stage[s] \in {"closed", "opened"}
    PROVE  Open(s) \/ LoadOrCreateProfile(s) \/ Close(s)
  BY DEF Step, CreateIdentity, ImportIdentity, RotateActiveIdentity,
         CreatePaymentAccount, ImportPaymentAccount, BeginKeyCall, Register,
         RegisterWatchPaymentAccount, SetActiveIdentity, SetActivePaymentAccount,
         SaveProfile, BeginSave, FlushKeyStore, FlushTruncate, FlushWrite,
         FlushFail, SaveTruncate, SaveWrite, SaveFail

LEMMA DamagedKeysStay ==
    ASSUME FileBacked, KeysDamaged, [Next]_vars
    PROVE  KeysDamaged'
  <1>1. CASE UNCHANGED vars
    BY <1>1 DEF KeysDamaged, vars
  <1>2. ASSUME NEW s \in Sessions, Step(s) PROVE KeysDamaged'
    BY <1>2, BeforeLoading DEF KeysDamaged, Open, LoadOrCreateProfile, Close
  <1> QED
    BY <1>1, <1>2 DEF Next

LEMMA DamagedProfileStays ==
    ASSUME TypeInv, ProfileDamaged, [Next]_vars
    PROVE  ProfileDamaged'
  <1>1. CASE UNCHANGED vars
    BY <1>1 DEF ProfileDamaged, vars
  <1>2. ASSUME NEW s \in Sessions, Step(s) PROVE ProfileDamaged'
    <2>1. Open(s) \/ Close(s)
      BY <1>2, BeforeLoading DEF ProfileDamaged, LoadOrCreateProfile
    <2>2. /\ metadata_file' = metadata_file
          /\ stage'[s] \in {"closed", "opened"}
      BY <2>1 DEF Open, Close, files, ProfileDamaged, TypeInv, TypeOK
    <2>3. \A t \in Sessions : t # s => stage'[t] = stage[t]
      BY <1>2, OwnState DEF TypeInv
    <2> QED BY <2>2, <2>3 DEF ProfileDamaged
  <1> QED
    BY <1>1, <1>2 DEF Next

\* A file that was left unreadable when the last process ended is never written
\* again: every command ends at FileKeyStore::open or load_or_create_profile.
THEOREM DamageStays == FileBacked => (CliSpec => DamageIsKept)
  <1> SUFFICES ASSUME FileBacked PROVE CliSpec => DamageIsKept
    OBVIOUS
  <1> DEFINE KeysUnreadable == ~Readable(keystore_file)
             ProfileUnreadable == ~Readable(metadata_file)
  <1>1. CliInit => CliInv
    BY InitCli
  <1>2. CliInv /\ [CliNext]_cliVars => CliInv'
    BY StepCli
  <1>3. CliInv /\ NoneRunning /\ KeysUnreadable => KeysDamaged
    BY DEF CliInv, NoneRunning, KeysDamaged
  <1>4. KeysDamaged /\ [CliNext]_cliVars => KeysDamaged'
    BY DamagedKeysStay, CliStepIsStep
  <1>5. KeysDamaged => KeysUnreadable
    BY DEF KeysDamaged
  <1>6. CliInv /\ NoneRunning /\ ProfileUnreadable => ProfileDamaged
    BY DEF CliInv, NoneRunning, ProfileDamaged
  <1>7. CliInv /\ ProfileDamaged /\ [CliNext]_cliVars => ProfileDamaged'
    BY DamagedProfileStays, CliStepIsStep DEF CliInv
  <1>8. ProfileDamaged => ProfileUnreadable
    BY DEF ProfileDamaged
  <1>9. CliSpec => [](NoneRunning /\ KeysUnreadable => []KeysUnreadable)
    BY <1>1, <1>2, <1>3, <1>4, <1>5, PTL DEF CliSpec
  <1>10. CliSpec => [](NoneRunning /\ ProfileUnreadable => []ProfileUnreadable)
    BY <1>1, <1>2, <1>6, <1>7, <1>8, PTL DEF CliSpec
  <1> QED
    BY <1>9, <1>10, PTL DEF DamageIsKept

-----------------------------------------------------------------------------
(* Processes that take turns.  Which processes make keys, or write, changes *)
(* as processes start and end; a process whose command changes has nothing  *)
(* open, so that nothing is asked of it.                                    *)

LEMMA WhoWritesWhat ==
    ASSUME CliInv
    PROVE  /\ OnlyFlush(KeyMakers) /\ OnlyFlush(Writers)
           /\ OnlySave(Writers)
  BY DEF CliInv, InCall, OnlyFlush, OnlySave, KeyMakers, Writers,
         WritingCommands, Adding

LEMMA ChangingCommand ==
    ASSUME CliInv, [CliNext]_cliVars, NEW s \in Sessions, command'[s] # command[s]
    PROVE  stage'[s] = "closed"
  <1>1. TypeOK /\ CliInv'
    BY StepCli DEF CliInv, TypeInv
  <1>2. ASSUME NEW t \in Sessions, NEW c \in Commands, Run(t, c)
        PROVE  stage'[s] = "closed"
    BY <1>1, <1>2 DEF Run, CliInv, vars
  <1>3. ASSUME NEW t \in Sessions, End(t)
        PROVE  stage'[s] = "closed"
    <2>1. s = t /\ command'[s] = None
      BY <1>1, <1>3 DEF End, CliInv
    <2> QED BY <1>1, <2>1 DEF CliInv
  <1>4. ASSUME command' = command PROVE FALSE
    BY <1>4
  <1> QED
    BY <1>2, <1>3, <1>4 DEF CliNext, Progress, OpenKeyStore, LoadProfile, Call, Work,
                            ExitWithError, Exit, Kill, cliVars, cli

\* One step of the tool keeps the custody of the processes that make keys.
LEMMA StepKeyTurns ==
    ASSUME FileBacked, CliInv, TakeTurns(KeyMakers), CustodyInv(KeyMakers),
           [CliNext]_cliVars
    PROVE  CustodyInv(KeyMakers)'
  <1>1. PICK M : M = KeyMakers
    OBVIOUS
  <1>2. TakeTurns(M) /\ OnlyFlush(M) /\ CustodyInv(M)
    BY <1>1, WhoWritesWhat
  <1>3. CustodyInv(M)'
    BY <1>2, CliStepIsStep, StepCustody
  <1>4. ASSUME NEW s \in Sessions PROVE SessionCustody(s, KeyMakers)'
    <2>1. stage'[s] # "closed" /\ s \in KeyMakers' => s \in M
      BY <1>1, ChangingCommand DEF KeyMakers
    <2>2. SessionCustody(s, M)'
      BY <1>3 DEF CustodyInv
    <2> QED BY <2>1, <2>2 DEF SessionCustody
  <1> QED
    BY <1>3, <1>4 DEF CustodyInv

LEMMA StepWriterTurns ==
    ASSUME FileBacked, CliInv, TakeTurns(Writers), LedgerInv(Writers),
           [CliNext]_cliVars
    PROVE  LedgerInv(Writers)'
  <1>1. PICK W : W = Writers
    OBVIOUS
  <1>2. TakeTurns(W) /\ OnlyFlush(W) /\ OnlySave(W) /\ LedgerInv(W)
    BY <1>1, WhoWritesWhat
  <1>3. LedgerInv(W)'
    BY <1>2, CliStepIsStep, StepLedger
  <1>4. ASSUME NEW s \in Sessions
        PROVE  SessionCustody(s, Writers)' /\ Owed(s, Writers)'
    <2>1. stage'[s] # "closed" /\ s \in Writers' => s \in W
      BY <1>1, ChangingCommand DEF Writers
    <2>2. SessionCustody(s, W)' /\ Owed(s, W)'
      BY <1>3 DEF LedgerInv, CustodyInv
    <2> QED BY <2>1, <2>2 DEF SessionCustody, Owed
  <1> QED
    BY <1>3, <1>4 DEF LedgerInv, CustodyInv

LEMMA KeyTurnsInv ==
    FileBacked => (KeyTurnsSpec => [](CliInv /\ RecordInv /\ CustodyInv(KeyMakers)))
  <1> SUFFICES ASSUME FileBacked
      PROVE  KeyTurnsSpec => [](CliInv /\ RecordInv /\ CustodyInv(KeyMakers))
    OBVIOUS
  <1> DEFINE Inv == /\ CliInv /\ RecordInv /\ CustodyInv(KeyMakers)
                    /\ TakeTurns(KeyMakers)
  <1>1. CliInit => Inv
    <2> SUFFICES ASSUME CliInit PROVE Inv
      OBVIOUS
    <2>1. Init /\ TakeTurns(KeyMakers)
      BY DEF CliInit, Init, TakeTurns, KeyMakers
    <2>2. \A M : CustodyInv(M)
      BY <2>1, InitCustody
    <2> QED BY <2>1, <2>2, InitCli, InitRecord
  <1>2. ASSUME Inv, [CliNext /\ TakeTurns(KeyMakers)']_cliVars PROVE Inv'
    <2>1. CliInv' /\ RecordInv' /\ CustodyInv(KeyMakers)'
      BY <1>2, StepCli, CliStepIsStep, StepRecords, StepKeyTurns
    <2>2. TakeTurns(KeyMakers)'
      BY <1>2 DEF TakeTurns, KeyMakers, cliVars, cli, vars
    <2> QED BY <2>1, <2>2
  <1> QED
    BY <1>1, <1>2, PTL DEF KeyTurnsSpec

\* As long as the commands that make keys take turns, whatever other commands
\* run beside them, no complete keystore.json that is written drops or replaces a
\* key of the one before, and no metadata.json is written before the keys of its
\* records have been (the order of flush and save in the calls of create-identity,
\* create-payment-account and import-payment-account; watch- and
\* bind-payment-account save profiles whose keys were kept before they loaded
\* them).
THEOREM KeyMakersInTurn == FileBacked => (KeyTurnsSpec => ImplementsSafekeeping)
  <1> SUFFICES ASSUME FileBacked PROVE KeyTurnsSpec => ImplementsSafekeeping
    OBVIOUS
  <1>1. CliInit => Ledger!Init
    BY InitIsLedgerInit DEF CliInit
  <1>2. ASSUME CliInv, RecordInv, CustodyInv(KeyMakers),
               [CliNext /\ TakeTurns(KeyMakers)']_cliVars
        PROVE  [Ledger!Keep \/ Ledger!Replace]_<<keystore_file.value,
                                                 metadata_file.value>>
    <2>1. PICK M : M = KeyMakers
      OBVIOUS
    <2>2. OnlyFlush(M) /\ CustodyInv(M)
      BY <1>2, <2>1, WhoWritesWhat
    <2>3. [Next]_vars
      BY <1>2, CliStepIsStep
    <2> QED BY <1>2, <2>2, <2>3, SafekeepingStep
  <1> QED
    BY <1>1, <1>2, KeyTurnsInv, PTL
       DEF KeyTurnsSpec, ImplementsSafekeeping, Ledger!Safekeeping

\* And the last complete metadata.json never refers to a key that the last
\* complete keystore.json lacks.
THEOREM KeyMakersKeepCustody == FileBacked => (KeyTurnsSpec => []KeyCustody)
  <1>1. CustodyInv(KeyMakers) => KeyCustody
    BY DEF CustodyInv
  <1> QED
    BY <1>1, KeyTurnsInv, PTL

LEMMA WriterTurnsInv == FileBacked => (WriterTurnsSpec => [](CliInv /\ LedgerInv(Writers)))
  <1> SUFFICES ASSUME FileBacked
      PROVE  WriterTurnsSpec => [](CliInv /\ LedgerInv(Writers))
    OBVIOUS
  <1> DEFINE Inv == CliInv /\ LedgerInv(Writers) /\ TakeTurns(Writers)
  <1>1. CliInit => Inv
    <2> SUFFICES ASSUME CliInit PROVE Inv
      OBVIOUS
    <2>1. Init /\ TakeTurns(Writers)
      BY DEF CliInit, Init, TakeTurns, Writers
    <2>2. \A W : LedgerInv(W)
      BY <2>1, InitLedger
    <2> QED BY <2>1, <2>2, InitCli
  <1>2. ASSUME Inv, [CliNext /\ TakeTurns(Writers)']_cliVars PROVE Inv'
    <2>1. CliInv' /\ LedgerInv(Writers)'
      BY <1>2, StepCli, StepWriterTurns
    <2>2. TakeTurns(Writers)'
      BY <1>2 DEF TakeTurns, Writers, cliVars, cli, vars
    <2> QED BY <2>1, <2>2
  <1> QED
    BY <1>1, <1>2, PTL DEF WriterTurnsSpec

\* As long as the commands that write take turns, the directory keeps all the
\* promises of module Custody on its last complete documents, whatever commands
\* read it meanwhile (a command that lists or signs writes neither file).
THEOREM WritersInTurn == FileBacked => (WriterTurnsSpec => ImplementsCustody)
  <1> SUFFICES ASSUME FileBacked PROVE WriterTurnsSpec => ImplementsCustody
    OBVIOUS
  <1>1. CliInit => Ledger!Init
    BY InitIsLedgerInit DEF CliInit
  <1>2. ASSUME CliInv, LedgerInv(Writers), [CliNext /\ TakeTurns(Writers)']_cliVars
        PROVE  [Ledger!Next]_<<keystore_file.value, metadata_file.value>>
    <2>1. PICK W : W = Writers
      OBVIOUS
    <2>2. OnlyFlush(W) /\ OnlySave(W) /\ LedgerInv(W)
      BY <1>2, <2>1, WhoWritesWhat
    <2>3. [Next]_vars
      BY <1>2, CliStepIsStep
    <2> QED BY <2>2, <2>3, LedgerStep
  <1> QED
    BY <1>1, <1>2, WriterTurnsInv, PTL
       DEF WriterTurnsSpec, ImplementsCustody, Ledger!Spec

\* And what a command reported as added is in every complete profile written to
\* metadata.json from then on.
THEOREM WritersKeepTheirWord == FileBacked => (WriterTurnsSpec => []AcknowledgedSurvives)
  <1>1. LedgerInv(Writers) => AcknowledgedSurvives
    BY DEF LedgerInv, AcknowledgedSurvives, Recorded
  <1> QED
    BY <1>1, WriterTurnsInv, PTL

-----------------------------------------------------------------------------
(* Every command is short.                                                 *)

Counted(s) ==
    /\ command[s] = None => StepsLeft(s) = 0
    /\ command[s] # None =>
          /\ StepsLeft(s) \in 1 .. 9
          /\ stage[s] = "closed" => StepsLeft(s) = 9
          /\ stage[s] = "opened" => StepsLeft(s) = 8
          /\ stage[s] = "idle" => StepsLeft(s) = IF called[s] THEN 1 ELSE 7
          /\ stage[s] = "flush" => StepsLeft(s) = 6
          /\ stage[s] = "flushing" => StepsLeft(s) = 5
          /\ stage[s] = "flushed" => StepsLeft(s) = 4
          /\ stage[s] = "save" => StepsLeft(s) = 3
          /\ stage[s] = "saving" => StepsLeft(s) = 2

LEMMA StepCounts ==
    ASSUME TypeOK, TypeOK', NEW s \in Sessions
    PROVE  Counted(s) /\ Counted(s)'
  <1>1. Counted(s)
    BY DEF Counted, StepsLeft, Steps, TypeOK, Stages
  <1>2. Counted(s)'
    BY DEF Counted, StepsLeft, Steps, TypeOK, Stages
  <1> QED BY <1>1, <1>2

\* A call goes from one stage to a later one.
LEMMA CallAdvances ==
    ASSUME CliInv, NEW s \in Sessions, Call(s)
    PROVE  /\ stage[s] = "idle" /\ ~called[s] /\ called'[s] /\ command' = command
           /\ stage'[s] \in {"flush", "flushed", "save", "idle"}
  <1>1. stage[s] = "idle" /\ ~called[s] /\ called'[s] /\ command' = command
    BY DEF Call, CliInv
  <1>2. ASSUME NEW kind, NEW from, NEW algorithm, NEW secret,
               BeginKeyCall(s, kind, from, algorithm, secret)
        PROVE  stage'[s] \in {"flush", "flushed"}
    BY <1>2 DEF BeginKeyCall, CliInv, TypeInv, TypeOK
  <1>3. ASSUME NEW c, NEW p, BeginSave(s, c, p) PROVE stage'[s] = "save"
    BY <1>3 DEF BeginSave, CliInv, TypeInv, TypeOK
  <1>4. CASE UNCHANGED vars
    BY <1>1, <1>4 DEF vars
  <1> QED
    BY <1>1, <1>2, <1>3, <1>4
       DEF Call, CreateIdentity, CreatePaymentAccount, ImportPaymentAccount,
           RegisterWatchPaymentAccount, SetActivePaymentAccount

LEMMA WorkAdvances ==
    ASSUME TypeOK, NEW s \in Sessions, Work(s)
    PROVE  /\ command' = command /\ called' = called
           /\ \/ stage[s] = "flush" /\ stage'[s] \in {"flushing", "idle"}
              \/ stage[s] = "flushing" /\ stage'[s] \in {"flushed", "idle"}
              \/ stage[s] = "flushed" /\ stage'[s] = "save"
              \/ stage[s] = "save" /\ stage'[s] \in {"saving", "idle"}
              \/ stage[s] = "saving" /\ stage'[s] = "idle"
  BY DEF TypeOK, Work, cli, Register, FlushTruncate, FlushWrite, FlushFail,
         SaveTruncate, SaveWrite, SaveFail

\* What other processes do to a process: nothing.
LEMMA OthersTouchNothing ==
    ASSUME CliInv, NEW s \in Sessions, NEW t \in Sessions, t # s,
           Progress(t) \/ Kill(t) \/ \E c \in Commands : Run(t, c)
    PROVE  UNCHANGED <<command[s], called[s], stage[s], keys[s], profile[s], call[s]>>
  <1>1. /\ Step(t) \/ UNCHANGED vars
        /\ command' = command \/ \E c : command' = [command EXCEPT ![t] = c]
        /\ called' = called \/ \E b : called' = [called EXCEPT ![t] = b]
    <2>1. CASE \E c \in Commands : Run(t, c)
      BY <2>1 DEF Run
    <2>2. CASE OpenKeyStore(t) \/ LoadProfile(t) \/ Work(t)
      BY <2>2 DEF OpenKeyStore, LoadProfile, Work, Step, cli
    <2>3. CASE Call(t)
      BY <2>3 DEF Call, Step
    <2>4. CASE ExitWithError(t) \/ Exit(t) \/ Kill(t)
      <3>1. End(t)
        BY <2>4 DEF ExitWithError, Exit, Kill
      <3> QED BY <3>1 DEF End, Step
    <2> QED BY <2>1, <2>2, <2>3, <2>4 DEF Progress
  <1>2. command'[s] = command[s] /\ called'[s] = called[s]
    BY <1>1 DEF CliInv
  <1>3. /\ stage'[s] = stage[s] /\ keys'[s] = keys[s]
        /\ profile'[s] = profile[s] /\ call'[s] = call[s]
    BY <1>1, OwnState DEF CliInv, TypeInv, vars
  <1> QED
    BY <1>2, <1>3

\* Each step of a process uses up one of the nine it has, and other processes
\* neither give it more nor touch what it has in memory (run and main in
\* watt-wallet.rs: no loop, no retry; a failed flush or save is returned with `?').
THEOREM CommandsRunOnce == CliSpec => CommandsAreShort
  <1>1. ASSUME CliInv, [CliNext]_cliVars, NEW s \in Sessions, command[s] # None
        PROVE  \/ StepsLeft(s)' < StepsLeft(s)
               \/ UNCHANGED <<command[s], called[s], stage[s], keys[s], profile[s],
                              call[s]>>
    <2>1. TypeOK /\ TypeOK' /\ Counted(s) /\ Counted(s)'
      BY <1>1, StepCli, StepCounts DEF CliInv, TypeInv
    <2>2. CASE UNCHANGED cliVars
      BY <2>2 DEF cliVars, cli, vars
    <2>3. ASSUME NEW t \in Sessions, t # s,
                 Progress(t) \/ Kill(t) \/ \E c \in Commands : Run(t, c)
          PROVE  UNCHANGED <<command[s], called[s], stage[s], keys[s], profile[s],
                             call[s]>>
      BY <1>1, <2>3, OthersTouchNothing
    <2>4. CASE OpenKeyStore(s)
      <3>1. stage[s] = "closed" /\ stage'[s] = "opened" /\ command' = command
        BY <2>1, <2>4 DEF OpenKeyStore, Open, cli, TypeOK
      <3> QED BY <1>1, <2>1, <3>1 DEF Counted
    <2>5. CASE LoadProfile(s)
      <3>1. stage[s] = "opened" /\ stage'[s] = "idle" /\ command' = command
        BY <2>1, <2>5 DEF LoadProfile, LoadOrCreateProfile, cli, TypeOK
      <3>2. StepsLeft(s) = 8
        BY <1>1, <2>1, <3>1 DEF Counted
      <3>3. StepsLeft(s)' = 1 \/ StepsLeft(s)' = 7
        BY <1>1, <2>1, <3>1 DEF Counted
      <3> QED BY <3>2, <3>3
    <2>6. CASE Call(s)
      <3>1. /\ stage[s] = "idle" /\ ~called[s] /\ called'[s] /\ command' = command
            /\ stage'[s] \in {"flush", "flushed", "save", "idle"}
        BY <1>1, <2>6, CallAdvances
      <3>2. StepsLeft(s) = 7
        BY <1>1, <2>1, <3>1 DEF Counted
      <3>3. StepsLeft(s)' \in {6, 4, 3, 1}
        BY <1>1, <2>1, <3>1 DEF Counted
      <3> QED BY <3>2, <3>3
    <2>7. CASE Work(s)
      <3>1. called[s]
        BY <1>1, <2>1, <2>7, WorkAdvances DEF CliInv, InCall
      <3>2. command'[s] # None /\ called'[s]
        BY <1>1, <2>1, <2>7, <3>1, WorkAdvances
      <3>3. stage'[s] = "idle" => StepsLeft(s)' = 1
        BY <2>1, <3>2 DEF Counted
      <3>4. /\ stage[s] = "flush" => StepsLeft(s) = 6
            /\ stage[s] = "flushing" => StepsLeft(s) = 5
            /\ stage[s] = "flushed" => StepsLeft(s) = 4
            /\ stage[s] = "save" => StepsLeft(s) = 3
            /\ stage[s] = "saving" => StepsLeft(s) = 2
        BY <1>1, <2>1 DEF Counted
      <3>5. /\ stage'[s] = "flushing" => StepsLeft(s)' = 5
            /\ stage'[s] = "flushed" => StepsLeft(s)' = 4
            /\ stage'[s] = "save" => StepsLeft(s)' = 3
            /\ stage'[s] = "saving" => StepsLeft(s)' = 2
        BY <2>1, <3>2 DEF Counted
      <3>6. StepsLeft(s)' < StepsLeft(s)
        BY <2>1, <2>7, <3>3, <3>4, <3>5, WorkAdvances
      <3> QED BY <3>6
    <2>8. CASE ExitWithError(s) \/ Exit(s) \/ Kill(s)
      <3>1. command'[s] = None
        BY <1>1, <2>8 DEF ExitWithError, Exit, Kill, End, CliInv
      <3> QED BY <1>1, <2>1, <3>1 DEF Counted
    <2>9. CASE \E c \in Commands : Run(s, c)
      BY <1>1, <2>9 DEF Run
    <2> QED
      BY <1>1, <2>2, <2>3, <2>4, <2>5, <2>6, <2>7, <2>8, <2>9 DEF CliNext, Progress
  <1>2. CliInv /\ [CliNext]_cliVars
           => [\A s \in Sessions : command[s] # None =>
                 \/ StepsLeft(s)' < StepsLeft(s)
                 \/ UNCHANGED <<command[s], called[s], stage[s], keys[s], profile[s],
                                call[s]>>]_cliVars
    BY <1>1
  <1> QED
    BY InitCli, StepCli, <1>2, PTL DEF CliSpec, CommandsAreShort

=============================================================================
