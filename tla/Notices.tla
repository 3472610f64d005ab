-------------------------------- MODULE Notices --------------------------------
(***************************************************************************)
(* One person's notifications and the page that shows them:                *)
(* services/notification_service.py, the notifications that the shopping,  *)
(* distribution and reassignment services create, repositories/database/   *)
(* notification.py, and of the frontend NotificationContext.tsx, which     *)
(* keeps its own list and its own count of what is unread.                 *)
(*                                                                         *)
(* A call of the page is two steps: the server's handler, and the page's   *)
(* use of the answer.  Between them other calls are made, notifications    *)
(* are created, and the messages about them are under way on the socket.   *)
(***************************************************************************)
EXTENDS Integers, Sequences, FiniteSets

CONSTANTS
  Runs,      \* runs whose changes of state she is told of
  Other,     \* what a notification about a reassignment is about
  Window,    \* the five minutes in which changes are grouped
  \* Bounds of the model:
  MaxTime,
  MaxNotices,
  MaxAnswers \* answers under way at a time

ASSUME ConstantsAssumption ==
  /\ Other \notin Runs
  /\ {Window, MaxTime, MaxNotices, MaxAnswers} \subseteq Nat

VARIABLES
  store,     \* her rows of notifications, in the order of their creation
  online,    \* her page's socket is in the room user:<id>
  mail,      \* the messages about new notifications that are under way
  answers,   \* the answers that are under way
  list,      \* what the page shows: entries, the newest first
  unread,    \* the number on the badge
  clean      \* nothing has happened that the badge cannot stand

pageVars == <<list, unread>>
vars == <<store, online, mail, answers, list, unread, clean>>

Ids == 1..MaxNotices
Stored == DOMAIN store

\* An entry of the list stands for one notification or a group of them; it
\* goes by the id of the newest.
Entry == [id : Ids, of : SUBSET Ids, read : BOOLEAN]
Answer == [op : {"count"}, value : 0..MaxNotices]
          \cup [op : {"list"}, value : Seq(Entry)]
          \cup [op : {"read"}, value : Ids]
          \cup {[op |-> "all read"]}

TypeOK ==
  /\ store \in Seq([about : Runs \cup {Other}, at : 0..MaxTime, read : BOOLEAN])
  /\ Len(store) =< MaxNotices
  /\ online \in BOOLEAN
  /\ mail \subseteq Stored
  /\ \A a \in answers : a \in Answer
  /\ list \in Seq(Entry)
  /\ unread \in Nat
  /\ clean \in BOOLEAN

Init ==
  /\ store = <<>>
  /\ online = FALSE
  /\ mail = {} /\ answers = {}
  /\ list = <<>>
  /\ unread = 0
  /\ clean = TRUE

Unread == {i \in Stored : ~store[i].read}
-----------------------------------------------------------------------------
(* _group_notifications. *)

Newest(ids) == CHOOSE i \in ids : \A j \in ids : j =< i
Oldest(ids) == CHOOSE i \in ids : \A j \in ids : i =< j

About(r) == {i \in Stored : store[i].about = r}

\* All of a run's changes, if the whole of them is within the window.
Close_Neighbours(ids) ==
  \A i \in ids \ {Newest(ids)} : \E j \in ids : j > i /\ store[j].at - store[i].at =< Window
Close(ids) == store[Newest(ids)].at - store[Oldest(ids)].at =< Window

Groups == {g \in {About(r) : r \in Runs} : g # {} /\ Close(g)}
Singles == {{i} : i \in {j \in Stored : \A g \in Groups : j \notin g}}

AsEntry(ids) == [id |-> Newest(ids), of |-> ids,
                 read |-> \A i \in ids : store[i].read]

\* The result is sorted by the time of the newest of each entry.
Listing ==
  LET entries == Groups \cup Singles
      After(e) == {f \in entries : Newest(f) > Newest(e)}
  IN [k \in 1..Cardinality(entries) |->
        AsEntry(CHOOSE e \in entries : Cardinality(After(e)) = k - 1)]
-----------------------------------------------------------------------------
(* The server. *)

\* create_notification.
Store(about, at) ==
  /\ Len(store) < MaxNotices
  /\ \A i \in Stored : store[i].at =< at
  /\ store' = Append(store, [about |-> about, at |-> at, read |-> FALSE])
  /\ UNCHANGED <<online, answers, pageVars>>

\* _notify_run_state_change, with the broadcast to her room.  The badge
\* cannot stand a message that is lost, or that overlaps with an answer.
NotifyRunStateChange(r, at) ==
  /\ Store(r, at)
  /\ mail' = IF online THEN mail \cup {Len(store')} ELSE mail
  /\ clean' = (clean /\ online /\ answers = {})

\* An offer of the leadership, its acceptance or refusal.  Its message holds
\* an object that cannot be converted to JSON: the broadcast fails before it
\* sends anything, and the failure is logged.
NotifyReassignment(at) ==
  /\ Store(Other, at)
  /\ clean' = FALSE
  /\ UNCHANGED mail

\* The server's part of a call: what it does, and what it answers.
Handle(answer, read) ==
  /\ Cardinality(answers) < MaxAnswers
  /\ answer \notin answers
  /\ answers' = answers \cup {answer}
  /\ store' = [i \in Stored |-> [store[i] EXCEPT !.read = @ \/ i \in read]]
  /\ UNCHANGED <<online, mail, pageVars>>

Alone == clean /\ mail = {} /\ answers = {}

\* refreshUnreadCount, when the page is loaded: the list is empty again, and
\* the socket is yet to connect.
Load ==
  /\ Cardinality(answers) < MaxAnswers
  /\ answers' = {[op |-> "count", value |-> Cardinality(Unread)]}
  /\ online' = FALSE
  /\ mail' = {}
  /\ list' = <<>> /\ unread' = 0
  /\ clean' = TRUE
  /\ UNCHANGED store

\* fetchNotifications, when the dropdown or the page of notifications opens.
Fetch ==
  /\ Handle([op |-> "list", value |-> Listing], {})
  /\ clean' = Alone

\* A click on an entry that shows as unread.  The badge counts one less:
\* it cannot stand an entry that is a group.
Click(k) ==
  /\ ~list[k].read
  /\ Handle([op |-> "read", value |-> list[k].id], {list[k].id})
  /\ clean' = (Alone /\ Cardinality(list[k].of) = 1)

\* The button is there as long as an entry shows as unread.
MarkAllAsRead ==
  /\ \E k \in DOMAIN list : ~list[k].read
  /\ Handle([op |-> "all read"], Unread)
  /\ clean' = Alone
-----------------------------------------------------------------------------
(* The page. *)

\* A new notification is put before the list and counted.
Receive ==
  \E i \in mail :
    /\ mail' = mail \ {i}
    /\ list' = <<[id |-> i, of |-> {i}, read |-> FALSE]>> \o list
    /\ unread' = unread + 1
    /\ clean' = (clean /\ answers = {})
    /\ UNCHANGED <<store, online, answers>>

\* The socket breaks.  When it connects, the page asks for nothing.
Disconnect ==
  /\ online
  /\ online' = FALSE
  /\ mail' = {}
  /\ clean' = (clean /\ mail = {})
  /\ UNCHANGED <<store, answers, pageVars>>

Connect ==
  /\ ~online
  /\ online' = TRUE
  /\ UNCHANGED <<store, mail, answers, pageVars, clean>>

Answered(a) ==
  /\ a \in answers
  /\ answers' = answers \ {a}
  /\ UNCHANGED <<store, online, mail, clean>>

Counted(a) ==
  /\ a.op = "count"
  /\ Answered(a)
  /\ unread' = a.value
  /\ UNCHANGED list

Listed(a) ==
  /\ a.op = "list"
  /\ Answered(a)
  /\ list' = a.value
  /\ UNCHANGED unread

MarkedRead_Twice(a) ==
  /\ a.op = "read"
  /\ Answered(a)
  /\ list' = list
  /\ unread' = IF unread > 0 THEN unread - 1 ELSE 0
MarkedRead_BelowZero(a) ==
  /\ a.op = "read"
  /\ Answered(a)
  /\ list' = [k \in DOMAIN list |->
                IF list[k].id = a.value THEN [list[k] EXCEPT !.read = TRUE] ELSE list[k]]
  /\ unread' = unread - 1
MarkedRead(a) ==
  /\ a.op = "read"
  /\ Answered(a)
  /\ list' = [k \in DOMAIN list |->
                IF list[k].id = a.value THEN [list[k] EXCEPT !.read = TRUE] ELSE list[k]]
  /\ unread' = IF unread > 0 THEN unread - 1 ELSE 0

AllMarkedRead(a) ==
  /\ a.op = "all read"
  /\ Answered(a)
  /\ list' = [k \in DOMAIN list |-> [list[k] EXCEPT !.read = TRUE]]
  /\ unread' = 0
-----------------------------------------------------------------------------
Server == \E at \in 0..MaxTime :
  NotifyReassignment(at) \/ \E r \in Runs : NotifyRunStateChange(r, at)

Page ==
  \/ Load \/ Fetch \/ MarkAllAsRead
  \/ \E k \in DOMAIN list : Click(k)
  \/ Receive \/ Disconnect \/ Connect
  \/ \E a \in answers : Counted(a) \/ Listed(a) \/ MarkedRead(a) \/ AllMarkedRead(a)

Next == Server \/ Page

Spec == Init /\ [][Next]_vars
-----------------------------------------------------------------------------
(* What is true of the notifications. *)

Quiet == mail = {} /\ answers = {}

\* "Context ensures a single source of truth": while nothing is under way,
\* the badge shows how many notifications are unread - as long as no
\* message was lost or never sent, no message and no other call overlapped
\* with a call, and no group was clicked.
BadgeIsTrue == clean /\ Quiet => unread = Cardinality(Unread)

\* Every notification is in one entry of the list, and two of them are in
\* one entry only if they are about one run and within the window.
ListingIsComplete ==
  LET shown == Listing IN
  /\ \A i \in Stored : \E k \in DOMAIN shown : i \in shown[k].of
  /\ \A k \in DOMAIN shown : \A i, j \in shown[k].of :
       i # j => /\ store[i].about = store[j].about /\ store[i].about # Other
                /\ store[i].at - store[j].at =< Window
  /\ \A k, l \in DOMAIN shown :
       k < l => /\ shown[k].of \cap shown[l].of = {}
                /\ shown[k].id > shown[l].id
=============================================================================
