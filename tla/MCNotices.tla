------------------------------- MODULE MCNotices -------------------------------
(* Three notifications, about a run or something else. *)
EXTENDS Notices, TLC

CONSTANTS costco

OneRun == {costco}
=============================================================================
