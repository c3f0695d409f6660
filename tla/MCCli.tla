-------------------------------- MODULE MCCli --------------------------------
(* A small instance of the command-line tool for TLC. *)
EXTENDS Cli

=============================================================================
