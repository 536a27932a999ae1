------------------------------ MODULE MCBTree ------------------------------
(***************************************************************************)
(* Small leaves: eight or nine entries with values of one of two sizes,    *)
(* and writes that bring a tree to where the interesting ones are near.    *)
(***************************************************************************)
EXTENDS BTree

LargeValues == [k \in 1..9 |-> 3]
SmallValues == [k \in 1..9 |-> 1]

(* A leaf that is nearly full.                                             *)
NearlyFull == <<1, 2, 3, 4, 5, 6, 7>>

(* A root with two leaves and some deletions in both.                      *)
Split == <<1, 2, 3, 4, 5, 6, 7, 8, 9, -2, -9, -3>>

(* The left leaf is about to be levelled with the right one.               *)
Lopsided == Split \o <<-1>>

(* Deletions that lost their claim to a timestamp, in a left leaf.         *)
Thinned == <<1, 2, 3, 4, 5, 6, 7, 8, 9, -4, -3, -5, -6, -9>>

EitherPrefill == {NearlyFull, Split}
OnlyNearlyFull == {NearlyFull}
OnlyLopsided == {Lopsided}
OnlyThinned == {Thinned}
=============================================================================
