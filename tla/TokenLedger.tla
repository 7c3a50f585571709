----------------------------- MODULE TokenLedger -----------------------------
(***************************************************************************)
(* What the Session collection promises about token consumption, without   *)
(* files, cursors, cycles or crashes: sessions consume tokens, and the     *)
(* ledger charges consumption to the account.  A consumption is charged at *)
(* most once, and no charge is larger than the consumption it stands for.  *)
(***************************************************************************)
EXTENDS Integers, Sequences, Functions

VARIABLES
  used,      \* used[i]: tokens of the i-th consumption, in the order they happened
  charged,   \* the consumptions some ledger entry stands for
  tokens     \* the sum of the ledger

ledgerVars == <<used, charged, tokens>>

Init ==
    /\ used = <<>>
    /\ charged = {}
    /\ tokens = 0

Consume ==
    /\ Len(used') = Len(used) + 1
    /\ SubSeq(used', 1, Len(used)) = used
    /\ UNCHANGED <<charged, tokens>>

\* Only what was not charged before can be charged, and nothing is refunded.
Charge ==
    /\ charged \subseteq charged'
    /\ charged' \subseteq DOMAIN used
    /\ tokens' >= tokens
    /\ tokens' <= tokens + SumFunctionOnSet(used, charged' \ charged)
    /\ UNCHANGED used

Next == Consume \/ Charge

Spec == Init /\ [][Next]_ledgerVars

=============================================================================
