--------------------------- MODULE RunStateMachine ---------------------------
(***************************************************************************)
(* The life cycle of a shopping run, as backend/app/core/run_state.py      *)
(* defines it: the eight states, the transition table and the predicates   *)
(* the services ask before they act.  A constant-level module: the state   *)
(* itself is a variable of RunLifecycle.                                   *)
(***************************************************************************)

States == {"planning", "active", "confirmed", "shopping",
           "adjusting", "distributing", "completed", "cancelled"}

\* The table as it is written, one pair per entry of the lists of
\* VALID_TRANSITIONS.
ValidTransitions ==
  {<<"planning", "active">>, <<"planning", "cancelled">>,
   <<"active", "confirmed">>, <<"active", "planning">>,
   <<"active", "cancelled">>,
   <<"confirmed", "shopping">>, <<"confirmed", "active">>,
   <<"confirmed", "cancelled">>,
   <<"shopping", "adjusting">>, <<"shopping", "distributing">>,
   <<"shopping", "cancelled">>,
   <<"adjusting", "distributing">>, <<"adjusting", "cancelled">>,
   <<"distributing", "completed">>, <<"distributing", "cancelled">>}

CanTransition(from, to) == <<from, to>> \in ValidTransitions

IsTerminal(s) == \A to \in States : ~CanTransition(s, to)

CanCancel(s) == CanTransition(s, "cancelled")

CanPlaceBid_UntilDistribution(s) ==
  s \in {"planning", "active", "shopping", "adjusting"}
CanPlaceBid(s) == s \in {"planning", "active", "adjusting"}

CanRetractBid(s) == s \in {"planning", "active", "adjusting"}

CanToggleReady(s) == s = "active"

CanStartShopping(s) == s = "confirmed"

CanCompleteShopping(s) == s = "shopping"

CanFinishAdjusting(s) == s = "adjusting"

CanViewDistribution(s) == s \in {"distributing", "completed"}

CanCompleteDistribution(s) == s = "distributing"

CanJoinRun(s) == s \in {"planning", "active"}

\* is_active_run: the runs that count against the limit of a group.
IsActiveRun(s) == s \notin {"completed", "cancelled"}
=============================================================================
