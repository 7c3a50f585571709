------------------------- MODULE MCAccountRegistry -------------------------
(* AccountRegistry for TLC: two accounts and one label each. *)
EXTENDS AccountRegistry

CONSTANTS A, B

MCAccounts == {A, B}
MCLabels   == {1}
MCNobody   == {}
MCOne      == {A}
MCBoth     == {A, B}

=============================================================================
