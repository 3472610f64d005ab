---------------------------- MODULE Accounts_proofs ----------------------------
(***************************************************************************)
(* What is true of accounts and sessions for every number of accounts,     *)
(* tokens and requests in flight.                                          *)
(*                                                                         *)
(* The argument about void cookies: what makes a token void stays (it is   *)
(* not put back into the dictionary, its time does not come again, a       *)
(* deleted account does not come back), and each of these stops a thread   *)
(* at one of its steps.                                                    *)
(***************************************************************************)
EXTENDS Accounts, FiniteSetTheorems, TLAPS

USE ConstantsAssumption, LowerAssumption

\* The cookie of a request, and a token that was ended, had been issued.
TokensIssued ==
  /\ \A r \in Requests : request[r].at # "absent" => owner[request[r].token] # None
  /\ \A t \in ended : owner[t] # None

\* An account that is gone was deleted, and stays so.
Departed(t) == owner[t] # None /\ ~Exists(owner[t])
DeletedStay ==
  /\ \A u \in deleted : ~Exists(u)
  /\ \A t \in Tokens : Departed(t) => owner[t] \in deleted

\* Where a request with a void cookie can be.
VoidStops ==
  \A r \in Requests : request[r].at # "absent" /\ request[r].void =>
    /\ request[r].at \in {"lookup", "get"} => ~Accepted(request[r].token)
    /\ request[r].at = "load" => ~Exists(owner[request[r].token])
    /\ request[r].at # "ready"

\* The sweep, and a thread about to delete, have none but expired sessions.
FoundExpired ==
  /\ sweep.at \in {"scan", "delete"} => sweep.found \subseteq expired
  /\ \A r \in Requests : request[r].at = "delete" => request[r].token \in expired

\* No two rows have one name, and who chose a name has it in lowercase.
NamesKept ==
  /\ \A u, v \in Users : Exists(u) /\ username[u] = username[v] => u = v
  /\ \A u \in Users \ named : Exists(u) => Lower[username[u]] = username[u]

AInv == TypeOK /\ TokensIssued /\ DeletedStay /\ VoidStops /\ FoundExpired
        /\ DictionaryIsTrue /\ NamesKept

\* Every operation keeps the types.
LEMMA TypeOKStep == TypeOK /\ TokensIssued /\ [Next]_vars => TypeOK'
<1> SUFFICES ASSUME TypeOK, TokensIssued, [Next]_vars PROVE TypeOK'
  OBVIOUS
<1> USE DEF TypeOK, accountVars, sessionVars
<1>1. ASSUME NEW u \in Users, NEW n \in Names, NEW p \in Passwords, NEW t \in Tokens,
             Register(u, n, p, t)
      PROVE TypeOK'
  BY <1>1 DEF Register, WriteName, NewSession, LoopFree
<1>2. ASSUME NEW u \in Users, NEW t \in Tokens, Login(u, t)
      PROVE TypeOK'
  BY <1>2 DEF Login, NewSession
<1>3. ASSUME NEW t \in Tokens, Logout(t)
      PROVE TypeOK'
  BY <1>3 DEF Logout
<1>4. ASSUME NEW t \in Tokens, NEW r \in Requests, Arrive(r, t)
      PROVE TypeOK'
  BY <1>4 DEF Arrive, Accepted, Exists, InThread
<1>5. CASE AllowRegistration
  BY <1>5 DEF AllowRegistration
<1>6. ASSUME NEW r \in Requests, LookUp(r) PROVE TypeOK'
  BY <1>6 DEF LookUp, GoesOn, Answered, Token, InThread, Ready, Absent
<1>7. ASSUME NEW r \in Requests, Get(r) PROVE TypeOK'
  BY <1>7 DEF Get, GoesOn, Answered, Token, InThread, Ready, Absent
<1>8. ASSUME NEW r \in Requests, Delete(r) PROVE TypeOK'
  BY <1>8 DEF Delete, Answered, Token
<1>9. ASSUME NEW r \in Requests, Load(r) PROVE TypeOK'
  <2> DEFINE u == owner[Token(r)]
  <2>1. request[r] \in InThread /\ request[r].at = "load" /\ u \in Users
    BY <1>9 DEF Load, InThread, Ready, Absent, Token, TokensIssued
  <2>2. CASE Exists(u)
    <3> DEFINE loaded == [at |-> "ready", token |-> Token(r), void |-> request[r].void,
                          user |-> u, password |-> password[u], dark |-> u \in dark]
    <3>1. loaded \in Ready
      BY <2>1, <2>2 DEF InThread, Ready, Token, Exists
    <3>2. request' = [request EXCEPT ![r] = loaded]
      BY <1>9, <2>2 DEF Load
    <3> HIDE DEF loaded
    <3> QED BY <1>9, <3>1, <3>2 DEF Load
  <2>3. CASE ~Exists(u)
    BY <1>9, <2>3 DEF Load, Answered
  <2> QED BY <2>2, <2>3
<1>10. ASSUME NEW r \in Requests, Handlers(r) PROVE TypeOK'
  <2>1. request[r] \in Ready
    BY <1>10 DEF Handlers, ChangePassword, ChangeUsername, ToggleDarkMode,
                 OtherwiseHandled, Handles, InThread, Ready, Absent
  <2>2. request' \in [Requests -> {Absent} \cup InThread \cup Ready]
    BY <1>10 DEF Handlers, ChangePassword, ChangeUsername, ToggleDarkMode,
                 OtherwiseHandled, Handles, Answered
  <2> HIDE DEF InThread, Ready, Absent
  <2>3. Me(r) \in Users
    BY <2>1 DEF Ready, Me
  <2>4. ASSUME NEW given \in Passwords, NEW new \in Passwords, ChangePassword(r, given, new)
        PROVE TypeOK'
    BY <2>2, <2>3, <2>4 DEF ChangePassword, Exists
  <2>5. ASSUME NEW given \in Passwords, NEW n \in Names, ChangeUsername(r, given, n)
        PROVE TypeOK'
    BY <2>2, <2>3, <2>5 DEF ChangeUsername, WriteName, Exists
  <2>6. CASE ToggleDarkMode(r)
    BY <2>2, <2>3, <2>6 DEF ToggleDarkMode
  <2>7. CASE OtherwiseHandled(r)
    BY <2>2, <2>7 DEF OtherwiseHandled
  <2> QED
    BY <1>10, <2>4, <2>5, <2>6, <2>7 DEF Handlers
<1>11. ASSUME NEW u \in Users, DeleteUser(u) \/ \E n \in Names : RenameUser(u, n)
       PROVE TypeOK'
  BY <1>11 DEF DeleteUser, RenameUser, WriteName, Exists
<1>12. ASSUME NEW t \in Tokens, Expire(t) PROVE TypeOK'
  BY <1>12 DEF Expire
<1>13. CASE SweepStep
  <2>1. IsFiniteSet(sessions)
    BY FS_Subset
  <2>2. Cardinality(sessions) \in Nat
    BY <2>1, FS_CardinalityType
  <2>3. CASE StartSweep
    BY <2>2, <2>3 DEF StartSweep, Scanning
  <2>4. CASE Scan
    <3>1. sweep \in Scanning
      BY <2>4 DEF Scan, Scanning, Deleting, Asleep, Dead
    <3>2. PICK t \in sweep.left :
            sweep' = [sweep EXCEPT !.left = @ \ {t},
                                   !.found = IF IsOver(t) THEN @ \cup {t} ELSE @]
      BY <2>4 DEF Scan
    <3>3. sweep' \in Scanning
      BY <3>1, <3>2 DEF Scanning
    <3> QED BY <2>4, <3>3 DEF Scan
  <2>5. CASE EndScan
    BY <2>5 DEF EndScan, Scanning, Deleting, Asleep, Dead
  <2>6. CASE Sweep
    BY <2>6 DEF Sweep, Scanning, Deleting, Asleep, Dead
  <2>7. CASE EndSweep \/ SweepFails
    BY <2>7 DEF EndSweep, SweepFails
  <2> QED
    BY <1>13, <2>3, <2>4, <2>5, <2>6, <2>7 DEF SweepStep
<1>14. CASE Restart
  BY <1>14 DEF Restart
<1>15. CASE UNCHANGED vars
  BY <1>15 DEF vars
<1> QED
  BY <1>1, <1>2, <1>3, <1>4, <1>5, <1>6, <1>7, <1>8, <1>9, <1>10, <1>11, <1>12,
     <1>13, <1>14, <1>15 DEF Next, Visitors, ThreadStep

LEMMA InvInit == Init => AInv
BY FS_Subset DEF Init, AInv, TypeOK, TokensIssued, DeletedStay, Departed, VoidStops, FoundExpired,
    DictionaryIsTrue, NamesKept, Exists, Absent, Asleep

\* What is kept besides the types.
Kept == TokensIssued /\ DeletedStay /\ VoidStops /\ FoundExpired
        /\ DictionaryIsTrue /\ NamesKept

\* The steps of a thread.
LEMMA ThreadKeeps ==
  ASSUME AInv, NEW r \in Requests, ThreadStep(r)
  PROVE  Kept'
<1> USE DEF AInv, accountVars, sessionVars, Kept, TokensIssued, DeletedStay, Departed, VoidStops,
        FoundExpired, DictionaryIsTrue, NamesKept, Accepted, Exists
<1>1. request \in [Requests -> {Absent} \cup InThread \cup Ready]
  BY DEF TypeOK
<1>2. CASE LookUp(r)
  BY <1>1, <1>2 DEF LookUp, GoesOn, Answered, Token, InThread, Ready, Absent
<1>3. CASE Get(r)
  BY <1>1, <1>3 DEF Get, GoesOn, Answered, Token, InThread, Ready, Absent
<1>4. CASE Delete(r)
  BY <1>1, <1>4 DEF Delete, Answered, Token, InThread, Ready, Absent
<1>5. CASE Load(r)
  BY <1>1, <1>5 DEF Load, Answered, Token, InThread, Ready, Absent
<1> QED BY <1>2, <1>3, <1>4, <1>5 DEF ThreadStep

\* A handler that was let in changes a name or a password, or nothing, and
\* its request is answered.
LEMMA HandlersKeep ==
  ASSUME AInv, NEW r \in Requests, Handlers(r)
  PROVE  Kept'
<1> USE DEF AInv, accountVars, sessionVars, Kept, TokensIssued, DeletedStay, Departed, VoidStops,
        FoundExpired, DictionaryIsTrue, NamesKept, Accepted, Exists, Handles, Answered, Me
<1>1. request \in [Requests -> {Absent} \cup InThread \cup Ready]
  BY DEF TypeOK
<1>2. username \in [Users -> Names \cup {None}]
  BY DEF TypeOK
<1>3. ASSUME NEW given \in Passwords, NEW new \in Passwords, ChangePassword(r, given, new)
      PROVE Kept'
  BY <1>1, <1>3 DEF ChangePassword, Absent
<1>4. ASSUME NEW given \in Passwords, NEW n \in Names, ChangeUsername(r, given, n)
      PROVE Kept'
  BY <1>1, <1>2, <1>4 DEF ChangeUsername, WriteName, Absent
<1>5. CASE ToggleDarkMode(r) \/ OtherwiseHandled(r)
  BY <1>1, <1>5 DEF ToggleDarkMode, OtherwiseHandled, Absent
<1> QED BY <1>3, <1>4, <1>5 DEF Handlers

\* What visitors do: only a token never used before enters the dictionary.
LEMMA VisitorsKeep ==
  ASSUME AInv, Visitors \/ AllowRegistration
  PROVE  Kept'
<1> USE DEF AInv, accountVars, sessionVars, Kept, TokensIssued, DeletedStay, Departed, VoidStops,
        FoundExpired, DictionaryIsTrue, NamesKept, Accepted, Exists, NewSession
<1>1. TypeOK
  OBVIOUS
<1>2. \A r \in Requests : request[r].at # "absent" => request[r].token \in Tokens
  BY <1>1 DEF TypeOK, InThread, Ready, Absent
<1>3. ASSUME NEW u \in Users, NEW t \in Tokens, Exists(u)', UNCHANGED <<expired, ended>>,
             NewSession(u, t), UNCHANGED <<deleted, request, sweep>>, u \notin deleted,
             \A v \in Users \ {u} : username'[v] = username[v],
             Exists(u) => username'[u] = username[u]
      PROVE TokensIssued' /\ DeletedStay' /\ VoidStops' /\ FoundExpired' /\ DictionaryIsTrue'
  <2>1. /\ owner' \in [Tokens -> Users \cup {None}] /\ owner'[t] = u
        /\ \A s \in Tokens \ {t} : owner'[s] = owner[s]
        /\ owner[t] = None /\ u # None
    BY <1>1, <1>3 DEF TypeOK
  <2>2. \A r \in Requests : request[r].at # "absent" => request[r].token # t
    BY <2>1
  <2>3. TokensIssued'
    BY <1>2, <1>3, <2>1, <2>2
  <2>4. DeletedStay'
    BY <1>1, <1>3, <2>1 DEF TypeOK
  <2>5. VoidStops'
    <3> SUFFICES ASSUME NEW r \in Requests, (request[r].at # "absent" /\ request[r].void)'
                 PROVE  (/\ request[r].at \in {"lookup", "get"} =>
                              ~(request[r].token \in sessions \ expired
                                /\ username[owner[request[r].token]] # None)
                         /\ request[r].at = "load" => username[owner[request[r].token]] = None
                         /\ request[r].at # "ready")'
      OBVIOUS
    <3>1. request'[r] = request[r]
      BY <1>3
    <3> DEFINE s == request[r].token
    <3>2. s \in Tokens /\ s # t /\ owner'[s] = owner[s] /\ owner[s] \in Users
      BY <1>1, <1>2, <1>3, <2>1, <2>2, <3>1 DEF TypeOK
    <3>3. s \in sessions' \ expired' <=> s \in sessions \ expired
      BY <1>3, <3>2
    <3>4. ~Exists(owner[s]) => username'[owner'[s]] = None
      <4>1. ~Exists(owner[s]) => owner[s] # u
        BY <1>3, <2>1, <3>2
      <4> QED BY <1>3, <3>2, <4>1
    <3> QED BY <1>3, <3>1, <3>2, <3>3, <3>4
  <2>6. FoundExpired' /\ DictionaryIsTrue'
    BY <1>1, <1>3, <2>1 DEF TypeOK
  <2> QED BY <2>3, <2>4, <2>5, <2>6
<1>4. ASSUME NEW u \in Users, NEW n \in Names, NEW p \in Passwords, NEW t \in Tokens,
             Register(u, n, p, t)
      PROVE Kept'
  <2>1. ~Exists(u) /\ username' = [username EXCEPT ![u] = Lower[n]] /\ Lower[n] # None
    BY <1>4 DEF Register, WriteName
  <2>2. NamesKept'
    BY <1>1, <1>4, <2>1 DEF Register, NameTaken, TypeOK
  <2>3. /\ NewSession(u, t) /\ u \notin deleted /\ UNCHANGED <<expired, ended, deleted, request, sweep>>
        /\ username'[u] # None
        /\ \A v \in Users \ {u} : username'[v] = username[v]
    BY <1>1, <1>4, <2>1 DEF Register, TypeOK
  <2> HIDE DEF NewSession
  <2> QED BY <1>3, <2>1, <2>2, <2>3
<1>5. ASSUME NEW u \in Users, NEW t \in Tokens, Login(u, t)
      PROVE Kept'
  BY <1>1, <1>3, <1>5 DEF Login, TypeOK
<1>6. ASSUME NEW t \in Tokens, Logout(t)
      PROVE Kept'
  BY <1>1, <1>6 DEF Logout, TypeOK
<1>7. ASSUME NEW t \in Tokens, NEW r \in Requests, Arrive(r, t)
      PROVE Kept'
  BY <1>1, <1>7 DEF Arrive, TypeOK
<1>8. CASE AllowRegistration
  BY <1>8 DEF AllowRegistration
<1> QED BY <1>6, <1>7, <1>8, <1>4, <1>5 DEF Visitors

\* Administrators, time, the sweep and restarts only take sessions away.
LEMMA OthersKeep ==
  ASSUME AInv,
         \/ \E u \in Users : DeleteUser(u) \/ \E n \in Names : RenameUser(u, n)
         \/ \E t \in Tokens : Expire(t)
         \/ SweepStep \/ Restart \/ UNCHANGED vars
  PROVE  Kept'
<1> USE DEF AInv, accountVars, sessionVars, Kept, TokensIssued, DeletedStay, Departed, VoidStops,
        FoundExpired, DictionaryIsTrue, NamesKept, Accepted, Exists
<1>1. TypeOK
  OBVIOUS
<1>2. ASSUME NEW u \in Users, DeleteUser(u)
      PROVE Kept'
  BY <1>1, <1>2 DEF DeleteUser, TypeOK
<1>3. ASSUME NEW t \in Tokens, Expire(t)
      PROVE Kept'
  BY <1>1, <1>3 DEF Expire
<1>4. CASE SweepStep
  <2>1. CASE StartSweep
    BY <2>1 DEF StartSweep
  <2>2. CASE Scan
    <3>1. sweep \in Scanning
      BY <1>1, <2>2 DEF Scan, TypeOK, Scanning, Deleting, Asleep, Dead
    <3>2. PICK t \in sweep.left :
            sweep' = [sweep EXCEPT !.left = @ \ {t},
                                   !.found = IF IsOver(t) THEN @ \cup {t} ELSE @]
      BY <2>2 DEF Scan
    <3>3. sweep'.found \subseteq expired
      BY <2>2, <3>1, <3>2 DEF Scan, Scanning, IsOver
    <3> QED BY <2>2, <3>3 DEF Scan
  <2>3. CASE EndScan
    BY <2>3 DEF EndScan
  <2>4. CASE Sweep
    <3>1. sweep \in Deleting
      BY <1>1, <2>4 DEF Sweep, TypeOK, Scanning, Deleting, Asleep, Dead
    <3>2. PICK t \in sweep.found \cap sessions :
            /\ sessions' = sessions \ {t}
            /\ sweep' = [sweep EXCEPT !.found = @ \ {t}]
      BY <2>4 DEF Sweep
    <3>3. t \in expired /\ sweep'.found \subseteq expired
      BY <2>4, <3>1, <3>2 DEF Sweep, Deleting
    <3> QED BY <2>4, <3>2, <3>3 DEF Sweep
  <2>5. CASE EndSweep \/ SweepFails
    BY <2>5 DEF EndSweep, SweepFails, Asleep, Dead
  <2> QED BY <1>4, <2>1, <2>2, <2>3, <2>4, <2>5 DEF SweepStep
<1>5. CASE Restart
  BY <1>1, <1>5 DEF Restart, TypeOK, Absent, Asleep
<1>6. CASE UNCHANGED vars
  BY <1>6 DEF vars
<1>7. ASSUME NEW u \in Users, NEW n \in Names, RenameUser(u, n)
      PROVE Kept'
  BY <1>1, <1>7 DEF RenameUser, WriteName, TypeOK
<1> QED BY <1>2, <1>3, <1>4, <1>5, <1>6, <1>7

LEMMA InvStep == AInv /\ [Next]_vars => AInv'
<1> SUFFICES ASSUME AInv, [Next]_vars PROVE AInv'
  OBVIOUS
<1>1. TypeOK'
  BY TypeOKStep DEF AInv
<1>2. Kept'
  BY ThreadKeeps, HandlersKeep, VisitorsKeep, OthersKeep DEF Next
<1> QED BY <1>1, <1>2 DEF AInv, Kept

LEMMA Invariant == Spec => []AInv
BY InvInit, InvStep, PTL DEF Spec

\* Types: every handler, thread and sweep leaves well-formed accounts,
\* sessions and requests.
THEOREM TypesHold == Spec => []TypeOK
<1>1. AInv => TypeOK
  BY DEF AInv
<1> QED BY Invariant, <1>1, PTL

\* A request that came with a void cookie never reaches a handler, however
\* its thread is interleaved with logouts, sweeps, deletions and restarts.
THEOREM VoidCookiesStayOut == Spec => []VoidStaysOut
<1>1. AInv => VoidStaysOut
  BY DEF AInv, VoidStops, VoidStaysOut
<1> QED BY Invariant, <1>1, PTL

\* The dictionary keeps every session that should be accepted and none that
\* was logged out.
THEOREM SessionsAreTrue == Spec => []DictionaryIsTrue
<1>1. AInv => DictionaryIsTrue
  BY DEF AInv
<1> QED BY Invariant, <1>1, PTL

\* No two accounts have one name, not even in different case, when their
\* owners chose them, whatever names administrators give to others meanwhile.
THEOREM NamesAreUnique == Spec => []NamesUnique
<1>1. AInv => NamesUnique
  BY DEF AInv, NamesKept, NamesUnique
<1> QED BY Invariant, <1>1, PTL
=============================================================================
