----------------------------- MODULE MCPageSocket -----------------------------
(* Three visits, with the hook's own number of attempts. *)
EXTENDS PageSocket, TLC
=============================================================================
