---------------------------- MODULE CredentialRow ----------------------------
(***************************************************************************)
(* What the account service promises to everything that is bound to a      *)
(* password (sessions, OAuth credentials): a row is active or not, and the *)
(* only thing that changes its credential is the redemption of a reset     *)
(* link, which leaves the row active under a credential never used before. *)
(* Accounts implements it; OAuthStore and Sessions take their account rows *)
(* to behave like this.                                                    *)
(***************************************************************************)
EXTENDS Naturals

CONSTANT Users

VARIABLE account  \* account[u]: may u sign in, and which credential is u's

Statuses == {"active", "inactive"}

Init == account \in [Users -> [status : Statuses, tag : {0}]]

\* A reset link is redeemed: a new credential, and the row is active.
Replace(u) ==
  account' = [account EXCEPT ![u] = [status |-> "active", tag |-> account[u].tag + 1]]

\* Verification of the address, or an operator changing AccountStatus.
Switch(u, s) ==
  /\ account[u].status # s
  /\ account' = [account EXCEPT ![u].status = s]

Next == \E u \in Users : Replace(u) \/ \E s \in Statuses : Switch(u, s)

Spec == Init /\ [][Next]_account
=============================================================================
