---------------------------- MODULE MCQuotaLane ----------------------------
(* Finite instances of QuotaLane for TLC.                                   *)
EXTENDS QuotaLane, TLC

\* A version that reads only the current response format, and its successor.
BothVersions == {{"current"}, {"current", "next"}}
OneVersion   == {{"current"}}

AccountSymmetry == Permutations(Accounts)
=============================================================================
