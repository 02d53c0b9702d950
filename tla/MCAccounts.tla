----------------------------- MODULE MCAccounts -----------------------------
(* TLC instance of Accounts: an administrator and one more user.           *)
EXTENDS Accounts

CONSTANTS h1, h2, root, alice

MCSymmetry == Permutations({h1, h2})
=============================================================================
