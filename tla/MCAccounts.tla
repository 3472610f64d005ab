------------------------------ MODULE MCAccounts ------------------------------
(* One or two accounts, two tokens, and a request in flight. *)
EXTENDS Accounts, TLC

CONSTANTS ann, bob, annie, Annie, bobby, x, t1, t2, r1

OneUser == {ann}
TwoUsers == {ann, bob}
OneName == {annie}
ThreeNames == {annie, Annie, bobby}
InLowercase == [n \in ThreeNames |-> IF n = Annie THEN annie ELSE n]
OneInLowercase == [n \in OneName |-> n]
OnePassword == {x}
TwoTokens == {t1, t2}
OneRequest == {r1}
=============================================================================
