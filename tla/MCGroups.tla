------------------------------- MODULE MCGroups -------------------------------
(* One group of two people, with two runs. *)
EXTENDS Groups, TLC

CONSTANTS ann, bob, friends, costco, lidl

Pair == {ann, bob}
OneGroup == {friends}
TwoRuns == {costco, lidl}

Alike == Permutations(Users) \cup Permutations(Runs)
=============================================================================
