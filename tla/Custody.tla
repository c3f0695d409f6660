------------------------------- MODULE Custody -------------------------------
(***************************************************************************)
(* What a wallet directory promises, without files, calls or failures: a   *)
(* vault that keeps keys and a book that records what they are for.  Keys  *)
(* are never dropped or replaced, records are never dropped, a retired     *)
(* identity stays retired, and nothing is recorded before the very key it  *)
(* names is in the vault.                                                  *)
(***************************************************************************)
EXTENDS Profile

VARIABLES vault,    \* a key map
          book      \* a profile

\* Each record of p names a key in k, and its DID or address is that key's.
\* A watch-only account names none.
Backed(p, k) ==
    /\ \A i \in DOMAIN p.identities :
          LET identity == p.identities[i]
          IN /\ identity.key_handle \in DOMAIN k
             /\ identity.did = DidOf(k[identity.key_handle])
    /\ \A a \in DOMAIN p.payment_accounts :
          LET account == p.payment_accounts[a]
          IN IsKeyControlled(account) =>
                /\ account.key_handle \in DOMAIN k
                /\ account.address = AddressOf(k[account.key_handle])

\* What k keeps, l keeps.
Contains(l, k) == \A h \in DOMAIN k : h \in DOMAIN l /\ l[h] = k[h]

\* What p records, q records too; a rotated identity stays rotated.
Extends(p, q) ==
    /\ \A i \in DOMAIN p.identities :
          /\ i \in DOMAIN q.identities
          /\ p.identities[i].status = "rotated" =>
                q.identities[i].status = "rotated"
          /\ q.identities[i].rotated_from = p.identities[i].rotated_from
    /\ DOMAIN p.payment_accounts \subseteq DOMAIN q.payment_accounts

Init ==
    /\ vault = EmptyMap
    /\ book = NewProfile

\* Keys are put in the vault.
Keep ==
    /\ Contains(vault', vault)
    /\ UNCHANGED book

\* What became of the book since it was last written is recorded.
Record ==
    /\ Extends(book, book')
    /\ Backed(book', vault)
    /\ UNCHANGED vault

Next == Keep \/ Record

Spec == Init /\ [][Next]_<<vault, book>>

-----------------------------------------------------------------------------
(* A weaker promise: the book may forget, but all it says is backed.       *)

Replace ==
    /\ Backed(book', vault)
    /\ UNCHANGED vault

Safekeeping == Init /\ [][Keep \/ Replace]_<<vault, book>>

=============================================================================
