----------------------------- MODULE MCAccounts -----------------------------
(* Accounts for TLC. *)
EXTENDS Accounts, TLC

CONSTANTS w1, w2

MCEdits == {<<"admin", "on">>, <<"keep", "off">>}

MCSymmetry == Permutations(Workers)
=============================================================================
