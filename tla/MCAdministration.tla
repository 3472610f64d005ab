--------------------------- MODULE MCAdministration ---------------------------
(* Two users, two products, two stores and a group. *)
EXTENDS Administration, TLC

CONSTANTS ann, bob, milk, oats, aldi, lidl, friends

Pair == {ann, bob}
TwoProducts == {milk, oats}
TwoStores == {aldi, lidl}
OneGroup == {friends}

Indistinct == Permutations(Users) \cup Permutations(Products) \cup Permutations(Stores)
=============================================================================
