------------------------------ MODULE MCBinding ------------------------------
(* A small instance of payment account binding for TLC. *)
EXTENDS Binding, TLC

\* Nothing looks into the terms, or into an account that is only watched.
TermSymmetry == Permutations(Terms)

=============================================================================
