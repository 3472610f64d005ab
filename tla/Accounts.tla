-------------------------------- MODULE Accounts --------------------------------
(***************************************************************************)
(* Accounts and their sessions: infrastructure/auth.py, the routes of      *)
(* api/routes/auth.py and the hourly sweep of main.py.                     *)
(*                                                                         *)
(* The sessions are a dictionary in memory.  Handlers and the sweep use it *)
(* on the event loop, one at a time; the dependency of every other request *)
(* (get_current_user) uses it in a thread of its own, whose steps come     *)
(* between any two steps of the sweep.  A request is therefore a sequence  *)
(* of steps of a thread, one for each use of the dictionary, and then one  *)
(* step of its handler, which works with the row the thread has loaded.    *)
(*                                                                         *)
(* Time is a session's expiry only.  Tokens are never used again.          *)
(***************************************************************************)
EXTENDS Naturals, FiniteSets

CONSTANTS
  Users,      \* ids of accounts
  Names,      \* usernames, as they may be typed
  Lower,      \* the same in lowercase
  Passwords,
  Tokens,     \* session tokens
  Requests,   \* requests that may be in flight together
  None

ASSUME ConstantsAssumption ==
  /\ None \notin Users \cup Names \cup Passwords \cup Tokens
  /\ IsFiniteSet(Tokens)
ASSUME LowerAssumption ==
  Lower \in [Names -> Names] /\ \A n \in Names : Lower[Lower[n]] = Lower[n]

VARIABLES
  username,   \* None where there is no account
  password,
  named,      \* the accounts that have their name from an administrator
  dark,       \* the accounts in dark mode
  deleted,    \* accounts there were: an id is never used again
  open,       \* allow_registration
  sessions,   \* tokens in the dictionary
  owner,      \* whom a token was issued to, None before
  expired,    \* tokens whose time is over
  ended,      \* tokens that were logged out or lost in a restart
  request,    \* what each request is at
  sweep

accountVars == <<username, password, named, dark, deleted, open>>
sessionVars == <<sessions, owner, expired, ended>>
vars == <<username, password, named, dark, deleted, open,
          sessions, owner, expired, ended, request, sweep>>

\* A request: where it is, its cookie, whether that was void from the
\* beginning; later the user row as the thread loaded it.
Absent == [at |-> "absent"]
InThread == [at : {"lookup", "get", "delete", "load"}, token : Tokens, void : BOOLEAN]
Ready == [at : {"ready"}, token : Tokens, void : BOOLEAN, user : Users,
          password : Passwords, dark : BOOLEAN]

\* The sweep: the comprehension, with the tokens yet to see, those found to
\* be expired and the size of the dictionary when it began; then the deletions.
Asleep == [at |-> "asleep"]
Dead == [at |-> "dead"]
Scanning == [at : {"scan"}, left : SUBSET Tokens, found : SUBSET Tokens, size : Nat]
Deleting == [at : {"delete"}, found : SUBSET Tokens]

TypeOK ==
  /\ username \in [Users -> Names \cup {None}]
  /\ password \in [Users -> Passwords \cup {None}]
  /\ \A u \in Users : username[u] = None <=> password[u] = None
  /\ named \subseteq Users /\ dark \subseteq Users /\ deleted \subseteq Users
  /\ open \in BOOLEAN
  /\ owner \in [Tokens -> Users \cup {None}]
  /\ sessions \subseteq {t \in Tokens : owner[t] # None}
  /\ expired \subseteq Tokens /\ ended \subseteq Tokens
  /\ request \in [Requests -> {Absent} \cup InThread \cup Ready]
  /\ sweep \in {Asleep, Dead} \cup Scanning \cup Deleting

Init ==
  /\ username = [u \in Users |-> None]
  /\ password = [u \in Users |-> None]
  /\ named = {} /\ dark = {} /\ deleted = {}
  /\ open = TRUE
  /\ sessions = {}
  /\ owner = [t \in Tokens |-> None]
  /\ expired = {} /\ ended = {}
  /\ request = [r \in Requests |-> Absent]
  /\ sweep = Asleep

Exists(u) == username[u] # None
-----------------------------------------------------------------------------
(* Handlers without a dependency on the user. *)

\* The event loop runs one handler, or the sweep, at a time.
LoopFree == sweep \in {Asleep, Dead}

\* create_session
NewSession(u, t) ==
  /\ owner[t] = None
  /\ owner' = [owner EXCEPT ![t] = u]
  /\ sessions' = sessions \cup {t}
  /\ UNCHANGED <<expired, ended>>

\* users.username is unique: the database refuses a write of another's name.
WriteName(u, n) ==
  /\ \A v \in Users \ {u} : username[v] # n
  /\ username' = [username EXCEPT ![u] = n]

NameTaken(n) == \E v \in Users : username[v] = n

\* The request schema turns the name into lowercase.
Register(u, n, p, t) ==
  /\ LoopFree
  /\ open
  /\ ~Exists(u) /\ u \notin deleted
  /\ ~NameTaken(Lower[n])
  /\ WriteName(u, Lower[n])
  /\ password' = [password EXCEPT ![u] = p]
  /\ NewSession(u, t)
  /\ UNCHANGED <<named, dark, deleted, open, request, sweep>>

Login(u, t) ==
  /\ LoopFree
  /\ Exists(u)
  /\ NewSession(u, t)
  /\ UNCHANGED <<accountVars, request, sweep>>

Logout_CookieOnly(t) ==
  /\ LoopFree
  /\ t \in sessions
  /\ ended' = ended \cup {t}
  /\ UNCHANGED <<accountVars, sessions, owner, expired, request, sweep>>
Logout(t) ==
  /\ LoopFree
  /\ t \in sessions
  /\ sessions' = sessions \ {t}
  /\ ended' = ended \cup {t}
  /\ UNCHANGED <<accountVars, owner, expired, request, sweep>>

\* set_registration_setting, by an administrator.
AllowRegistration ==
  /\ LoopFree
  /\ open' = ~open
  /\ UNCHANGED <<username, password, named, dark, deleted, sessionVars, request, sweep>>
-----------------------------------------------------------------------------
(* The dependency get_current_user, in a thread. *)

\* A session that would be accepted now.
Accepted(t) == t \in sessions \ expired /\ Exists(owner[t])

Arrive(r, t) ==
  /\ request[r] = Absent
  /\ owner[t] # None
  /\ request' = [request EXCEPT ![r] =
                   [at |-> "lookup", token |-> t, void |-> ~Accepted(t)]]
  /\ UNCHANGED <<accountVars, sessionVars, sweep>>

Token(r) == request[r].token

\* The thread goes on to another step; or its request is answered.
GoesOn(r, to) == request' = [request EXCEPT ![r].at = to]
Answered(r) == request' = [request EXCEPT ![r] = Absent]

\* "if session_token not in sessions"
LookUp(r) ==
  /\ request[r].at = "lookup"
  /\ IF Token(r) \in sessions THEN GoesOn(r, "get") ELSE Answered(r)
  /\ UNCHANGED <<accountVars, sessionVars, sweep>>

\* "session = sessions[session_token]": a KeyError when it is gone by now.
Get_AnyAge(r) ==
  /\ request[r].at = "get"
  /\ IF Token(r) \in sessions THEN GoesOn(r, "load") ELSE Answered(r)
  /\ UNCHANGED <<accountVars, sessionVars, sweep>>
Get(r) ==
  /\ request[r].at = "get"
  /\ IF Token(r) \in sessions
     THEN GoesOn(r, IF Token(r) \in expired THEN "delete" ELSE "load")
     ELSE Answered(r)
  /\ UNCHANGED <<accountVars, sessionVars, sweep>>

\* "del sessions[session_token]": the same.
Delete(r) ==
  /\ request[r].at = "delete"
  /\ sessions' = sessions \ {Token(r)}
  /\ Answered(r)
  /\ UNCHANGED <<accountVars, owner, expired, ended, sweep>>

\* The row of the user, if there is one.
Load_Unasked(r) ==
  /\ request[r].at = "load"
  /\ LET u == owner[Token(r)] IN
       request' = [request EXCEPT ![r] =
         [at |-> "ready", token |-> Token(r), void |-> @.void, user |-> u,
          password |-> password[u], dark |-> u \in dark]]
  /\ UNCHANGED <<accountVars, sessionVars, sweep>>
Load(r) ==
  /\ request[r].at = "load"
  /\ LET u == owner[Token(r)] IN
       IF Exists(u)
       THEN request' = [request EXCEPT ![r] =
              [at |-> "ready", token |-> Token(r), void |-> @.void, user |-> u,
               password |-> password[u], dark |-> u \in dark]]
       ELSE Answered(r)
  /\ UNCHANGED <<accountVars, sessionVars, sweep>>
-----------------------------------------------------------------------------
(* Handlers of a request that was let in. *)

Handles(r) ==
  /\ LoopFree
  /\ request[r].at = "ready"
  /\ Answered(r)

Me(r) == request[r].user

\* The given password is compared with the row the thread has loaded;
\* update_user finds nothing to update when the account is gone.
ChangePassword(r, given, new) ==
  /\ Handles(r)
  /\ given = request[r].password
  /\ password' = IF Exists(Me(r)) THEN [password EXCEPT ![Me(r)] = new] ELSE password
  /\ UNCHANGED <<username, named, dark, deleted, open, sessionVars, sweep>>

ChangeUsername_AsTyped(r, given, n) ==
  /\ Handles(r)
  /\ given = request[r].password
  /\ Exists(Me(r))
  /\ \A v \in Users : username[v] = n => v = Me(r)
  /\ WriteName(Me(r), n)
  /\ named' = named \ {Me(r)}
  /\ UNCHANGED <<password, dark, deleted, open, sessionVars, sweep>>
ChangeUsername(r, given, n) ==
  /\ Handles(r)
  /\ given = request[r].password
  /\ Exists(Me(r))
  /\ \A v \in Users : username[v] = Lower[n] => v = Me(r)
  /\ WriteName(Me(r), Lower[n])
  /\ named' = named \ {Me(r)}
  /\ UNCHANGED <<password, dark, deleted, open, sessionVars, sweep>>

\* The new mode is computed from the row the thread has loaded.
ToggleDarkMode(r) ==
  /\ Handles(r)
  /\ Exists(Me(r))
  /\ dark' = IF request[r].dark THEN dark \ {Me(r)} ELSE dark \cup {Me(r)}
  /\ UNCHANGED <<username, password, named, deleted, open, sessionVars, sweep>>

\* Everything else, and every refusal.
OtherwiseHandled(r) ==
  /\ Handles(r)
  /\ UNCHANGED <<accountVars, sessionVars, sweep>>

\* AdminService.update_user writes the name as it is typed and asks nobody
\* whether it is taken.
RenameUser(u, n) ==
  /\ LoopFree
  /\ Exists(u)
  /\ WriteName(u, n)
  /\ named' = IF username[u] = n THEN named ELSE named \cup {u}
  /\ UNCHANGED <<password, dark, deleted, open, sessionVars, request, sweep>>

\* AdminService.delete_user, or a merge: the sessions stay.
DeleteUser(u) ==
  /\ LoopFree
  /\ Exists(u)
  /\ username' = [username EXCEPT ![u] = None]
  /\ password' = [password EXCEPT ![u] = None]
  /\ named' = named \ {u} /\ dark' = dark \ {u}
  /\ deleted' = deleted \cup {u}
  /\ UNCHANGED <<open, sessionVars, request, sweep>>
-----------------------------------------------------------------------------
(* Time, the sweep, and restarts. *)

Expire(t) ==
  /\ owner[t] # None /\ t \notin expired
  /\ expired' = expired \cup {t}
  /\ UNCHANGED <<accountVars, sessions, owner, ended, request, sweep>>

StartSweep ==
  /\ sweep = Asleep
  /\ sweep' = [at |-> "scan", left |-> sessions, found |-> {},
               size |-> Cardinality(sessions)]
  /\ UNCHANGED <<accountVars, sessionVars, request>>

\* The iteration over the dictionary ends in a RuntimeError when the size
\* of the dictionary has changed.
Undisturbed == Cardinality(sessions) = sweep.size

IsOver_Inverted(t) == t \notin expired
IsOver(t) == t \in expired

Scan ==
  /\ sweep.at = "scan"
  /\ Undisturbed
  /\ \E t \in sweep.left :
       sweep' = [sweep EXCEPT !.left = @ \ {t},
                              !.found = IF IsOver(t) THEN @ \cup {t} ELSE @]
  /\ UNCHANGED <<accountVars, sessionVars, request>>

EndScan ==
  /\ sweep.at = "scan"
  /\ Undisturbed
  /\ sweep.left = {}
  /\ sweep' = [at |-> "delete", found |-> sweep.found]
  /\ UNCHANGED <<accountVars, sessionVars, request>>

Sweep ==
  /\ sweep.at = "delete"
  /\ \E t \in sweep.found \cap sessions :
       /\ sessions' = sessions \ {t}
       /\ sweep' = [sweep EXCEPT !.found = @ \ {t}]
  /\ UNCHANGED <<accountVars, owner, expired, ended, request>>

EndSweep ==
  /\ sweep.at = "delete"
  /\ sweep.found = {}
  /\ sweep' = Asleep
  /\ UNCHANGED <<accountVars, sessionVars, request>>

\* Nothing catches the RuntimeError, or the KeyError of a deletion, but the
\* wrapper of background tasks, which logs it: the loop of sweeps has ended.
SweepFails ==
  /\ \/ sweep.at = "scan" /\ ~Undisturbed
     \/ sweep.at = "delete" /\ ~(sweep.found \subseteq sessions)
  /\ sweep' = Dead
  /\ UNCHANGED <<accountVars, sessionVars, request>>

SweepStep == StartSweep \/ Scan \/ EndScan \/ Sweep \/ EndSweep \/ SweepFails

Restart ==
  /\ sessions' = {}
  /\ ended' = ended \cup sessions
  /\ request' = [r \in Requests |-> Absent]
  /\ sweep' = Asleep
  /\ UNCHANGED <<accountVars, owner, expired>>
-----------------------------------------------------------------------------
Visitors ==
  \/ \E u \in Users, n \in Names, p \in Passwords, t \in Tokens : Register(u, n, p, t)
  \/ \E u \in Users, t \in Tokens : Login(u, t)
  \/ \E t \in Tokens : Logout(t) \/ \E r \in Requests : Arrive(r, t)

ThreadStep(r) == LookUp(r) \/ Get(r) \/ Delete(r) \/ Load(r)

Handlers(r) ==
  \/ \E given, new \in Passwords : ChangePassword(r, given, new)
  \/ \E given \in Passwords, n \in Names : ChangeUsername(r, given, n)
  \/ ToggleDarkMode(r)
  \/ OtherwiseHandled(r)

Next ==
  \/ Visitors
  \/ AllowRegistration
  \/ \E r \in Requests : ThreadStep(r) \/ Handlers(r)
  \/ \E u \in Users : DeleteUser(u) \/ \E n \in Names : RenameUser(u, n)
  \/ \E t \in Tokens : Expire(t)
  \/ SweepStep
  \/ Restart

Spec == Init /\ [][Next]_vars

\* The hour passes, the event loop runs the sweep to its end, and every
\* thread runs.
FairSpec == /\ Spec
            /\ WF_vars(SweepStep)
            /\ \A r \in Requests : WF_vars(ThreadStep(r))
-----------------------------------------------------------------------------
(* What is true of the sessions. *)

\* "Sessions can be invalidated server-side immediately": a request that
\* arrives with a token that has been logged out, has expired, was lost in
\* a restart, or whose account is deleted, never reaches a handler.
VoidStaysOut == \A r \in Requests : request[r].at = "ready" => ~request[r].void

\* The dictionary holds every session that should be accepted, and none
\* that was ended: sweep, logout and threads take away no other's session.
DictionaryIsTrue ==
  /\ {t \in Tokens : owner[t] # None} \ (ended \cup expired) \subseteq sessions
  /\ ended \cap sessions = {}

\* No two accounts have one name, not even in different case ("automatically
\* converted to lowercase"), when their owners chose their names themselves, by
\* registering and by renaming themselves. A name that an administrator gave
\* is held apart from others by the unique column only, which knows cases.
NamesUnique ==
  \A u, v \in Users :
    /\ Exists(u) /\ Exists(v) /\ {u, v} \cap named = {}
    /\ Lower[username[u]] = Lower[username[v]]
    => u = v

\* As long as the sweep lives, no expired session stays in memory for good.
SweptWhileAlive ==
  \A t \in Tokens : t \in sessions \cap expired ~> t \notin sessions \/ sweep = Dead

\* "Periodically clean up expired sessions to prevent memory leak"
ExpiredAreSwept ==
  \A t \in Tokens : t \in sessions \cap expired ~> t \notin sessions
=============================================================================
