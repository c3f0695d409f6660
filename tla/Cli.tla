--------------------------------- MODULE Cli ---------------------------------
(***************************************************************************)
(* The command-line tool: one command per process, any number of processes *)
(* on one directory.  A process opens the key store, loads the profile,    *)
(* makes at most one call of Wallet, and ends; an error ends it early.     *)
(* `Sessions' names the processes that may run at the same time.           *)
(***************************************************************************)
EXTENDS WalletProperties, FiniteSets

VARIABLES
    command,    \* the command each process runs, None where none is running
    called      \* whether it has come to its call

cli == <<command, called>>

KeyCommands == {"create-identity", "create-payment-account",
                "import-payment-account"}

Adding == KeyCommands \cup {"watch-payment-account"}

WritingCommands == Adding \cup {"bind-payment-account"}

\* "list" stands for the commands that print what was loaded, and for help.
Commands == WritingCommands \cup {"sign-test-payload", "sign-capability", "list",
                                  "unknown"}

CliTypeOK ==
    /\ command \in [Sessions -> Commands \cup {None}]
    /\ called \in [Sessions -> BOOLEAN]

CliInit ==
    /\ Init
    /\ command = [s \in Sessions |-> None]
    /\ called = [s \in Sessions |-> FALSE]

\* A process starts.  (MaxDraws bounds the commands that draw fresh values.)
Run(s, c) ==
    LET waiting == {t \in Sessions : command[t] \in Adding /\ ~called[t]}
    IN /\ command[s] = None
       /\ c \in Adding => draws + Cardinality(waiting) < MaxDraws
       /\ command' = [command EXCEPT ![s] = c]
       /\ called' = [called EXCEPT ![s] = FALSE]
       /\ UNCHANGED vars

OpenKeyStore(s) ==
    /\ command[s] # None /\ ~called[s]
    /\ Open(s)
    /\ UNCHANGED cli

LoadProfile(s) ==
    /\ stage[s] = "opened"
    /\ LoadOrCreateProfile(s)
    /\ UNCHANGED cli

\* The call each command makes.
Call(s) ==
    /\ stage[s] = "idle" /\ ~called[s]
    /\ called' = [called EXCEPT ![s] = TRUE]
    /\ UNCHANGED command
    /\ \/ command[s] = "create-identity" /\ CreateIdentity(s)
       \/ command[s] = "create-payment-account" /\ CreatePaymentAccount(s)
       \/ command[s] = "import-payment-account" /\ ImportPaymentAccount(s)
       \/ command[s] = "watch-payment-account" /\ RegisterWatchPaymentAccount(s)
       \/ command[s] = "bind-payment-account" /\ SetActivePaymentAccount(s)
       \/ /\ command[s] \in {"sign-test-payload", "sign-capability"}
          /\ SignWithActiveIdentity(profile[s], keys[s], "hello").ok
          /\ UNCHANGED vars
       \/ command[s] = "list" /\ UNCHANGED vars

\* The steps of a call after its first.
Work(s) ==
    /\ \/ Register(s)
       \/ FlushTruncate(s) \/ FlushWrite(s) \/ FlushFail(s)
       \/ SaveTruncate(s) \/ SaveWrite(s) \/ SaveFail(s)
    /\ UNCHANGED cli

\* A call that is refused before it changes anything: a command that is not
\* known, an argument that is missing or does not parse, an account that is not
\* in the profile, no active identity, no key for it.
Refused(s) ==
    \/ command[s] \in {"unknown", "import-payment-account",
                       "watch-payment-account", "bind-payment-account"}
    \/ /\ command[s] \in {"sign-test-payload", "sign-capability"}
       /\ ~SignWithActiveIdentity(profile[s], keys[s], "hello").ok

\* The process is gone; a file it was writing stays as it is.
End(s) ==
    /\ command' = [command EXCEPT ![s] = None]
    /\ called' = [called EXCEPT ![s] = FALSE]
    /\ IF stage[s] = "closed" THEN UNCHANGED vars ELSE Close(s)

\* Mutant: metadata.json is tried again until it can be read.
ExitWithErrorWaiting(s) ==
    /\ command[s] # None /\ ~called[s]
    /\ \/ stage[s] = "closed" /\ FileBacked /\ ~Readable(keystore_file)
       \/ stage[s] = "idle" /\ Refused(s)
    /\ End(s)

\* An error before the call ends the process.
ExitWithError(s) ==
    /\ command[s] # None /\ ~called[s]
    /\ \/ stage[s] = "closed" /\ FileBacked /\ ~Readable(keystore_file)
       \/ stage[s] = "opened" /\ ~Readable(metadata_file)
       \/ stage[s] = "idle" /\ Refused(s)
    /\ End(s)

\* The call returned, with a result or with an error.
Exit(s) ==
    /\ stage[s] = "idle" /\ called[s]
    /\ End(s)

\* The process is stopped, at any point.
Kill(s) ==
    /\ command[s] # None
    /\ End(s)

\* What a process does by itself.
Progress(s) ==
    \/ OpenKeyStore(s) \/ LoadProfile(s) \/ Call(s) \/ Work(s)
    \/ ExitWithError(s) \/ Exit(s)

CliNext ==
    \E s \in Sessions :
        \/ \E c \in Commands : Run(s, c)
        \/ Progress(s)
        \/ Kill(s)

cliVars == <<vars, cli>>

(***************************************************************************)
(* A process that is running goes on: nothing in it waits for a lock, for  *)
(* input or for another process, and the operating system runs it.  Nobody *)
(* has to start a process, and nobody has to stop one.                     *)
(***************************************************************************)
Fairness == \A s \in Sessions : WF_cliVars(Progress(s))

CliSpec == CliInit /\ [][CliNext]_cliVars /\ Fairness

(***************************************************************************)
(* How much of the promises of one session at a time is left depends on    *)
(* which processes overlap.  Nothing in the tool keeps them apart; whoever *)
(* runs it may, and then other commands still run beside them.             *)
(***************************************************************************)
KeyMakers == {s \in Sessions : command[s] \in KeyCommands}

Writers == {s \in Sessions : command[s] \in WritingCommands}

\* Commands that make keys take turns.
KeyTurnsSpec == CliInit /\ [][CliNext /\ TakeTurns(KeyMakers)']_cliVars

\* Commands that write take turns.
WriterTurnsSpec == CliInit /\ [][CliNext /\ TakeTurns(Writers)']_cliVars

-----------------------------------------------------------------------------
(* Properties.                                                             *)

\* Every command ends, whatever the files hold, whichever writes fail, and
\* whatever the other processes do to the files in the meantime.
CommandsEnd == \A s \in Sessions : command[s] # None ~> command[s] = None

\* A file that was left unreadable when the last process ended is left alone
\* by all commands after that: none takes it for an absent one and writes a new
\* one over what may still be recovered from it.
NoneRunning == \A s \in Sessions : command[s] = None

DamageIsKept ==
    /\ [](NoneRunning /\ ~Readable(keystore_file)
             => []~Readable(keystore_file))
    /\ [](NoneRunning /\ ~Readable(metadata_file)
             => []~Readable(metadata_file))

\* How many steps a process can still take, at most.
Steps == [closed |-> 9, opened |-> 8, idle |-> 7, flush |-> 6, flushing |-> 5,
          flushed |-> 4, save |-> 3, saving |-> 2]

StepsLeft(s) ==
    IF command[s] = None THEN 0
    ELSE IF stage[s] = "idle" /\ called[s] THEN 1
    ELSE Steps[stage[s]]

\* No command does anything twice: each step of a process uses up one that it
\* had left, and what other processes do meanwhile neither adds one nor touches
\* what the process has in memory.  So a command takes at most nine steps, a
\* failed flush or save is not tried again, and nobody waits for a file to
\* become readable.
CommandsAreShort ==
    [][\A s \in Sessions : command[s] # None =>
          \/ StepsLeft(s)' < StepsLeft(s)
          \/ UNCHANGED <<command[s], called[s], stage[s], keys[s], profile[s],
                         call[s]>>]_cliVars

=============================================================================
