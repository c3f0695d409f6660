---------------------------- MODULE CustodyProofs ----------------------------
(***************************************************************************)
(* What the weaker promise of the ledger already amounts to: since keys    *)
(* are never dropped or replaced, a record that was backed when it was     *)
(* written is backed for good.                                             *)
(***************************************************************************)
EXTENDS Custody, TLAPS

\* Every record in the book always names a key in the vault, and its DID or
\* address is that key's, already when the book may forget (the records and the
\* keys of the last complete metadata.json and keystore.json).
THEOREM BookIsBacked == Safekeeping => []Backed(book, vault)
  <1>1. Init => Backed(book, vault)
    BY DEF Init, Backed, NewProfile, EmptyMap
  <1>2. ASSUME Backed(book, vault), [Keep \/ Replace]_<<vault, book>>
        PROVE  Backed(book, vault)'
    <2>1. CASE Keep
      BY <1>2, <2>1 DEF Keep, Contains, Backed
    <2>2. CASE Replace
      BY <2>2 DEF Replace, Backed
    <2>3. CASE UNCHANGED <<vault, book>>
      BY <1>2, <2>3 DEF Backed
    <2> QED
      BY <1>2, <2>1, <2>2, <2>3
  <1> QED
    BY <1>1, <1>2, PTL DEF Safekeeping

=============================================================================
