------------------------------- MODULE Profile -------------------------------
(***************************************************************************)
(* WalletProfileMetadata and its methods: the identities and the payment   *)
(* accounts of a wallet, and which of each is selected.                    *)
(*                                                                         *)
(* The two Vecs of the source are maps from id to record here: ids are     *)
(* UUIDs, drawn once, so `find' by id returns the only record with it.     *)
(* Labels, purposes, rails, networks and timestamps decide nothing in the  *)
(* code and are left out.                                                  *)
(***************************************************************************)
EXTENDS KeyStore

CONSTANT WatchAddresses     \* addresses a user may register to watch

IdentityStatus == {"active", "disabled", "rotated", "archived"}

PaymentAccountStatus == {"active", "disabled", "archived"}

Dids == {"did:key"} \X (Algorithms \X Secrets)

Addresses == ({"0x"} \X Secrets) \cup WatchAddresses

LocalIdentities == [key_handle   : Nat,
                    did          : Dids,
                    status       : IdentityStatus,
                    rotated_from : Nat \cup {None}]

PaymentAccounts == [key_handle : Nat \cup {None},
                    address    : Addresses,
                    status     : PaymentAccountStatus]

IsProfile(p) ==
    /\ p = [identities                |-> p.identities,
            active_identity_id        |-> p.active_identity_id,
            payment_accounts          |-> p.payment_accounts,
            active_payment_account_id |-> p.active_payment_account_id]
    /\ IsMap(p.identities, Nat, LocalIdentities)
    /\ p.active_identity_id \in Nat \cup {None}
    /\ IsMap(p.payment_accounts, Nat, PaymentAccounts)
    /\ p.active_payment_account_id \in Nat \cup {None}

NewProfile ==
    [identities                |-> EmptyMap,
     active_identity_id        |-> None,
     payment_accounts          |-> EmptyMap,
     active_payment_account_id |-> None]

-----------------------------------------------------------------------------
(* LocalIdentity::new and PaymentAccount::new.                             *)

\* Mutant: the record is built without the handle of its key.
NewIdentityWithoutHandle(handle, did) ==
    [key_handle |-> None, did |-> did, status |-> "active",
     rotated_from |-> None]

NewIdentity(handle, did) ==
    [key_handle |-> handle, did |-> did, status |-> "active",
     rotated_from |-> None]

NewPaymentAccount(handle, address) ==
    [key_handle |-> handle, address |-> address, status |-> "active"]

-----------------------------------------------------------------------------
(* Identities.                                                             *)

\* The first identity is selected as it is added.
AddIdentity(p, id, identity) ==
    [p EXCEPT !.identities = Put(@, id, identity),
              !.active_identity_id = IF @ = None THEN id ELSE @]

\* Mutant: selecting an identity also enables it.
SetActiveIdentityIdEnabling(p, id) ==
    [p EXCEPT !.identities = Put(@, id, [@[id] EXCEPT !.status = "active"]),
              !.active_identity_id = id]

\* Any known identity can be selected, whatever its status.
SetActiveIdentityId(p, id) == [p EXCEPT !.active_identity_id = id]

\* Mutant: the previous identity is left active.
RotateIdentityNotRetiring(p, from, id, replacement) ==
    LET added == AddIdentity(p, id, [replacement EXCEPT !.rotated_from = from])
    IN [added EXCEPT !.active_identity_id = id]

\* Mutant: the replacement takes the status of the identity it replaces, after
\* that was retired.
RotateIdentityCopyingStatus(p, from, id, replacement) ==
    LET retired == [p EXCEPT !.identities =
                       Put(@, from, [@[from] EXCEPT !.status = "rotated"])]
        added == AddIdentity(retired, id,
                             [replacement EXCEPT !.rotated_from = from,
                                                 !.status = "rotated"])
    IN [added EXCEPT !.active_identity_id = id]

\* The id is known to exist here: rotate_identity answers false otherwise.
RotateIdentity(p, from, id, replacement) ==
    LET retired == [p EXCEPT !.identities =
                       Put(@, from, [@[from] EXCEPT !.status = "rotated"])]
        added == AddIdentity(retired, id,
                             [replacement EXCEPT !.rotated_from = from])
    IN [added EXCEPT !.active_identity_id = id]

-----------------------------------------------------------------------------
(* Payment accounts.                                                       *)

AddPaymentAccount(p, id, account) ==
    [p EXCEPT !.payment_accounts = Put(@, id, account),
              !.active_payment_account_id = IF @ = None THEN id ELSE @]

SetActivePaymentAccountId(p, id) == [p EXCEPT !.active_payment_account_id = id]

IsKeyControlled(account) == account.key_handle # None

-----------------------------------------------------------------------------
(* The lookups of Wallet::active_identity and Wallet::active_payment_account:*)
(* the selected record must exist and must be active.                      *)

ActiveIdentity(p) ==
    IF p.active_identity_id \notin DOMAIN p.identities
    THEN Err("NoActiveIdentity")
    ELSE IF p.identities[p.active_identity_id].status # "active"
    THEN Err("IdentityNotActive")
    ELSE Ok(p.active_identity_id)

ActivePaymentAccount(p) ==
    IF p.active_payment_account_id \notin DOMAIN p.payment_accounts
    THEN Err("NoActivePaymentAccount")
    ELSE IF p.payment_accounts[p.active_payment_account_id].status # "active"
    THEN Err("PaymentAccountNotActive")
    ELSE Ok(p.active_payment_account_id)

\* The key handles a profile depends on.
References(p) ==
    {p.identities[i].key_handle : i \in DOMAIN p.identities}
        \cup {p.payment_accounts[a].key_handle :
                  a \in {b \in DOMAIN p.payment_accounts :
                             IsKeyControlled(p.payment_accounts[b])}}

=============================================================================
