-------------------------- MODULE MCRunLifecycle --------------------------
(* Small instances of RunLifecycle for TLC: people, products and inputs. *)
EXTENDS RunProperties, TLC

CONSTANTS ann, bob, cyd, dan, rice, beans

Pair == {ann, bob}
Trio == {ann, bob, cyd}
Four == {ann, bob, cyd, dan}
Rice == {rice}
Pantry == {rice, beans}

Bids(Q) == [quantity : Q, interested : {FALSE}]
OneUnit == Bids({1})
OneOrTwo == Bids({1, 2})
OneOrInterested == [quantity : {1}, interested : BOOLEAN]

Nobody == {}
NoQuantity == {}
OnlyOne == {1}
OnlyTwo == {2}
UpToTwo == {1, 2}
TwoOrThree == {2, 3}

\* Nothing in the model tells the others apart.
Alike == Permutations(Four \ {ann})

OnlyBob == {bob}
BobAndCyd == {bob, cyd}
=============================================================================
