------------------------------ MODULE MCMoney ------------------------------
(***************************************************************************)
(* Small instances of Money for TLC: texts long enough for a group of      *)
(* three digits between two separators, and a sign.                        *)
(***************************************************************************)
EXTENDS Money

AmountChars == {"-", ".", ",", "0", "5"}

=============================================================================
