# bulq: a verification project

bulq lets a group of friends buy in bulk together: somebody starts a *run* at a
store, the others bid for quantities of products, one of them shops, what was
bought is shared out, and everybody collects their part. This directory holds
TLA+ specifications of the backend that does this and of the part of the
frontend that keeps its own state about it, the TLC runs that check them on
small instances, and proofs that TLAPS checks for instances of any size.

Paths in this file are relative to the repository; `app/` is short for
`src/backend/app/`.

## How the program runs, and what follows for the models

* One uvicorn process, one event loop, every route `async def`, and the
  services synchronous: between two awaits nothing else runs. A service method
  does not await before its last commit (`complete_shopping` and the
  reassignment service await a broadcast after it, the others nothing), so **the
  commits of two requests never interleave**.
* PostgreSQL behind SQLAlchemy with `autoflush=False`. Every write method of the
  repositories calls `commit()` itself, inside `transaction()` blocks as well
  (`app/infrastructure/transaction.py`). So **a handler with several writes is
  several commits**; an error or a crash between them leaves the first ones.
* Side effects go through `event_bus.emit`, which starts one asyncio task per
  handler. Those tasks and the WebSocket endpoints do await, at each send.
* The dependencies `get_db`, `get_current_user`, `require_auth` and
  `require_admin` are plain `def`: FastAPI runs them **in a thread pool, beside
  the event loop**. They use the dictionary of sessions, which nothing locks, and
  load the row of the user; the handler works later with the row as it was.
* The page makes its calls without waiting for one another, and its WebSocket
  hook works with timers and callbacks that share refs.

So there are several grains. `RunLifecycle`, `Groups` and `Administration` are
made of commits and crashes, `Rooms` of sends, `Accounts` of the uses a thread
and the sweep make of a dictionary, `Notices` of the two halves of a call, and
`PageSocket` of the events of timers and sockets.

## Inventory

| Component | State | Operations | Interacts with | Hard because | Correct when |
|---|---|---|---|---|---|
| Run state machine, `app/core/run_state.py` | none (a table) | transitions, one predicate per operation | asked by every run service | some services do not ask it | every change of state is an edge of the table |
| Bids, `app/services/bid_service.py` | `product_bids`, `run_participations` | place, change, retract | list (in adjusting), state machine | participation commits before validation; adjusting rules read a list that does not follow the bids | bids are members' bids; a shortage is not overshot |
| Transitions and allocation, `app/services/run_state_service.py` | `runs.state`, list, allocations | ready, confirm, start shopping, finish adjusting, cancel | bids, list | one commit per row; rounding; surplus to the leader | exactly what was bought is allotted; what a handler has read still holds when it writes |
| Shopping list, `app/services/shopping_service.py` | `shopping_list_items` | add, mark, update, undo, complete | bids, distribution | only two operations look at the run's state | the list asks for what the bids ask for |
| Distribution, `app/services/distribution_service.py` | `is_picked_up` of a bid | collect, complete | run state | a mark is possible in every state | complete only when everything is collected |
| Run creation, helpers, `app/services/run_service.py` | runs, roles | create, toggle helper, comment, views | groups | limit of active runs | one leader |
| Reassignment, `app/services/reassignment_service.py` | pending request | offer, accept, decline, cancel | roles, groups | an offer outlives what it checked | leadership moves, never forks or disappears |
| Group membership, `app/services/group_service.py` | `groups`, `group_membership`, invitations | found, join, leave, remove, promote, invite | runs, bids | a departure is many commits over many runs | an administrator is left; who is gone is out of every run; limits are kept |
| Event bus, WebSocket rooms, `app/events`, `app/api/websocket_manager.py`, `app/api/routes/websocket.py` | rooms, tasks | enter, leave, broadcast | services emit; pages listen | a set is iterated across awaits | everybody in the room is told; nobody who is served is dropped; dead connections are taken out |
| Notifications, `app/services/notification_service.py`, `app/services/run_notification_service.py`, `src/frontend/src/contexts/NotificationContext.tsx` | `notifications`; the page's list and count | create, list, mark one or all as read; receive | shopping, distribution, reassignment; the user's room | the page counts for itself; messages and answers overlap | the badge shows what is unread; the list shows everything once |
| Authentication, `app/api/routes/auth.py`, `app/infrastructure/auth.py`, `app/main.py` | sessions in memory, accounts | register, log in and out, change, expire, sweep | every route | threads beside the sweep; a row that is stale when used | a void cookie reaches no handler; nobody loses a session; names are unique |
| Administration, `app/services/admin_service.py`, `app/api/routes/admin.py` | users, products, stores and all that refers to them | update, verify, merge, delete | every table | a merge is a commit for each column; two administrators at once | nothing refers to what is gone; nobody takes part twice; an administrator is left |
| Catalogue, `app/services/product_service.py`, `store_service.py` | products, stores, prices | search, create, prices | list | - | - |
| HTTP layer, memory repositories, scripts | - | - | - | - | - |
| Frontend, `src/frontend/src` | pages, `hooks/useWebSocket.ts`, notifications | connect, retry, close; apply events | rooms | timers and late callbacks of earlier sockets share refs | the hook holds a live socket, gives up late, and comes to rest |

`PROJECT.json` lists the same components with what is modelled of each, and
under `hazards` every place of the code that is hard to test.

## Modules

| Module | Lines of the code | What it is |
|---|---|---|
| `RunStateMachine` | `app/core/run_state.py` | the table and its predicates; no variables |
| `RunLifecycle` | bids, transitions, list, distribution, roles, reassignment, membership of one run | the detailed specification |
| `RunPromise` | - | what a run promises its participants; abstract |
| `RunProperties` | - | the properties, and the refinement mapping to `RunPromise` |
| `MCRunLifecycle` | - | sets of users, products and inputs for TLC |
| `RunLifecycle_proofs` | - | theorems about `RunLifecycle`: types, what handlers read, roles |
| `RunProperties_proofs` | - | theorems about `RunLifecycle` and `RunPromise`: the refinement, the list, the allotment |
| `Rooms` | rooms, endpoints, background broadcasts | specification and properties |
| `MCRooms` | - | a run's page and its group's page for TLC |
| `Rooms_proofs` | - | theorems about `Rooms` |
| `Groups` | groups, members, administrators, invitations; a departure across the runs of a group | detailed specification and properties |
| `GroupPromise` | - | every operation of a group in one step; abstract |
| `MCGroups`, `Groups_proofs` | - | two alike people for TLC; theorems |
| `Administration` | users, products, stores, their merges and deletions | detailed specification and properties |
| `AdminPromise` | - | a merge in one step; abstract |
| `MCAdministration`, `Administration_proofs` | - | two of each kind for TLC; theorems |
| `Accounts` | accounts, sessions, threads, the sweep | specification and properties |
| `MCAccounts`, `Accounts_proofs` | - | sets for TLC; theorems |
| `Notices` | notifications, grouping, the page's badge | specification and properties |
| `MCNotices`, `Notices_proofs` | - | one run for TLC; theorems |
| `PageSocket` | `src/frontend/src/hooks/useWebSocket.ts` | specification and properties |
| `MCPageSocket`, `PageSocket_proofs` | - | the hook's own five attempts for TLC; theorems |

### RunLifecycle

The state is the database's, as far as one run goes: `state` (`runs.state`),
`members` (`group_membership`), `participants` with the flags `leaders`,
`helpers`, `ready` and `removed` (`run_participations`), `bids`
(`product_bids`, a function with `None` where there is no row), `items`
(`shopping_list_items` in order of creation) and `request` (the pending row of
`leader_reassignment_requests`). Two variables are not in the database: `job`,
what the handler that is running still has to commit, and `crashes`.

A handler with one commit is one action (`PlaceBid`, `CancelRun`,
`AcceptReassignment`...). A handler with several commits begins with an action
that does the checks (and the first commit, if it comes at once) and sets
`job`; each later commit is an action of `JobStep`. For example
`finish_adjusting` is `FinishAdjusting`, then for each bought item
`AllocateItem`, `AllocateBid` for each bid, `TakeSurplus`, `AllocateSurplus`,
`RequestSurplus` if there is a surplus, or `ItemAllocated`, and at last
`AdjustingFinished`. While `job` is not `Idle`, no other handler runs, as the
event loop has it; `Crash` ends the job and keeps what is committed. An SQL
error in the middle of a handler has the same effect as a crash.

Data is abstracted to what the properties tell apart. Quantities are integers:
one unit is the smallest quantity of a `DECIMAL(10, 2)` column, `Whole` units
make a whole one (for `int()`, which truncates the quantity of a bid in
`add_product_to_shopping_list`). `round(float(x), 2)` is `Rounded`: the nearest
integer, and either neighbour of a tie, since the binary fraction decides.
Prices, comments, timestamps, events and names are left out. Only the pending
reassignment request is kept; of the group only who is a member matters, and
another administrator is assumed to stay behind.

Where the database returns rows in no defined order
(`get_shopping_list_items_by_product(...)[0]`, the bids of an item), the model
chooses any.

### RunPromise and the refinement

`RunPromise` has five variables: the stage, the owner, her heir, the published
parts and what has been collected. A run moves along the table of the state
machine; nobody but the named heir becomes its owner; the parts appear all at
once with `distributing` and never change after that, except that a person who
leaves loses hers; the run is completed only when every part is collected.

`RunProperties` maps the detailed state to it (`Promise == INSTANCE RunPromise
WITH ...`), and `KeepsPromise` says that every step of `RunLifecycle` is a step of
the promise or a stutter. The mapping shows allocations only once the run is in
`distributing`, so that the commits of a handler are stutters and its last one is
`Publish`. It shows parts of zero and below as well, which the view of the
distribution skips; they are allotted all the same. With crashes the promise is
false: an allocation left by a handler that was cut short can later stand for an
item that was put back; so `KeepsPromise` is checked without them.

### Rooms

`rooms` is `active_connections`. A set is named after the connection that
created it (`sets`), because what matters in `broadcast` is whether the set it
iterates over is still the room: a room is deleted when it empties and a new
set is made for the next connection. `endpoint` says how far the endpoint of a
connection is, `gone` which clients have gone, `failed` to which a send has
failed. `task[e]` is the task that `emit` starts for event `e`: the stop of its
route (the run's room, then the group's), the connection it is sending to, the
set, whom it has tried, who was found dead, and, which is not in the code but what
`GhostsGo` is about, the ghosts it met (below).

Actions: `Enter`, `PeerGone`, `Disconnect`, `BreakOff` for a connection;
`PassBy`, `Begin`, `Sent`, `NotSent`, `GiveUp`, `GoOn`, `Finish` for a
broadcast. Everything else may happen while `task[e].at` is a connection, that
is, during the await of `send_text`. Two things are taken from libraries, as
the code uses them: CPython's set iterator raises an error when the set has
changed its *size* (a departure and an arrival in between go unnoticed), and a
send on a connection that the server has closed, or on which a send has failed, is
an error.

The endpoints catch `WebSocketDisconnect` only. Any other error ends an endpoint
without `manager.disconnect` (`BreakOff`), at any time: `receive_text()` raises a
`KeyError` on a message without text, and after a failed send the endpoint's own
call finds a connection that is not connected any more. The server then closes
the connection, which stays in its room: a *ghost*. Nothing takes a ghost out but
a broadcast that comes to its end, whose send to it fails; in a room to which
nothing is broadcast, ghosts stay, and the set they leave behind may stay empty
in `active_connections`. So no property says that there are no ghosts;
`NobodyIsDropped` says that nobody else is ever taken out, and `GhostsGo` that an
uninterrupted broadcast takes out those it met.

A set that is rebuilt while it is iterated (it takes five entries or more) is not
modelled. A user's own room (`user:<id>`) works like the others.

### Groups and GroupPromise

`creator`, `joining`, `links`, `members`, `admins` are the rows of `groups` and
`group_membership` (`links` holds the groups whose present invite token is known
to people outside), `groupOf` and `state` those of `runs`, `takes`, `leads`,
`removed` the participations, `bids` how many bids a participation has. A run is
"open" in all the states `is_active_run` accepts; how it moves among them is
`RunLifecycle`'s part, and `CreateRun`, `PlaceBid`, `HandOver`, `CompleteRun`,
`CancelRun` are those operations as a group sees them.

`create_group` is two commits (`CreateGroup`, `FounderJoins`). A departure
(`LeaveGroup`, `RemoveMember`) commits the membership, then looks at one run
after the other (`NextRun`): it flags the participation and cancels the run *in
memory* (`job.flagged`, `job.cancelled`), and each deletion of a bid
(`DeleteBid`) is a commit that writes whatever has been changed in memory so
far; the last commit is `Departed`. `Crash` loses what is in memory only.

In `GroupPromise` founding and departing are single steps. `Groups` implements
it under the mapping `AllAtOnce`, which shows a departure as finished from its
first commit on: a run the departed leads counts as cancelled, her open bids as
gone, her rows as flagged. This holds without crashes; with them the docstring
"All operations succeed together or all fail together" is not kept.

### Administration and AdminPromise

Only references matter: `ref` says what each foreign key (a column and a row)
refers to, `None` where there is no row, `Nobody` for NULL. `here` are the users,
products and stores there are. There is one row for each column, except for the
participants of a run, of whom there are two, because a merge must not make one
person take part twice. A merge is `Merge` (the checks), `MoveColumn` for each
column in the order of the code, `TransferGroupAdmin` and `EndMerge`, which
deletes the source or is refused by the database when something still refers to
it. `Admit` is `require_admin` in its thread: the handler comes later, when her
right may be gone. Deleting somebody takes her memberships along (`Erase`).

`AdminPromise` has a merge in one step, and `MergesAreAtomic` is the refinement:
it would fail if a column were forgotten, or moved after the deletion.

### Accounts

A request is a sequence of steps of a thread, one for each use of the dictionary
`sessions` (`LookUp`, `Get`, `Delete`), then `Load` for the row of the user, and
then one step of its handler, which uses the row as loaded. A `KeyError` in a
thread answers the request (an error page) and changes nothing. The sweep is the
comprehension over the dictionary (`Scan`, `EndScan`) and the deletions
(`Sweep`, `EndSweep`); handlers do not run beside it (`LoopFree`), threads do, and
when one of them has changed the dictionary `SweepFails`, for good.
`void` remembers whether a request arrived with a cookie that should not be
accepted. Hashing, cookies' attributes, name and language are left out.

`Lower` is the lowercase of a username. Registering and renaming oneself store
the name in lowercase and look whether it is taken; an administrator's renaming
(`RenameUser`, `PUT /admin/users/{id}`) does neither, and only the unique column,
which is part of every write of a name (`WriteName`), keeps equal names apart:
the database's error ends the request without a change. `named` are the accounts
that have their name from an administrator; it is not in the code, and
`NamesUnique` excepts them from being unique up to case.

### Notices

`store` are one reader's notifications. A call of the page is two steps: `Load`,
`Fetch`, `Click` or `MarkAllAsRead` is the handler in the server, and `Counted`,
`Listed`, `MarkedRead` or `AllMarkedRead` the page's use of the answer; between
them more is created, and messages travel on the socket (`mail`, received in any
order, lost when it breaks). `Listing` is `_group_notifications`. The variable
`clean` is not in the code: it tells whether anything has happened that the badge
cannot stand, so that `BadgeIsTrue` says exactly when the badge can be relied on:
no message was lost (the socket was away) or never sent (reassignments, below), no
answer was under way while another call was made or a message came, and no click
was on a group of several. One page with one socket is modelled. Left out are the
limit of the list, and that a merge of users moves notifications to the target
without a message (her badge is too small until the next count).

### PageSocket

A visit is a time during which the page gives the hook one url. Its line is a
timer or a socket: `starting` (the 100 ms of the effect), `connecting`, `open`,
`closing` (the page has called `close()`, `onclose` is still to come),
`retrying` (the timer of 3 s), or an end: `cancelled`, `refused` (1008 or 1000),
`exhausted`. All lines share the refs `held` (`wsRef`), `timer`
(`reconnectTimeoutRef`) and `attempts`. `connect` closes the socket in the ref
whichever visit's it is, and `onclose` clears the ref whichever it holds: that is
why a line can be ended by another. A `close()` without a code, which is what the
hook calls, is reported by a browser as 1005 (1006 before the connection is
made), so a socket the page closed itself is retried like one that failed.
`failures` counts all failures of the network and bounds them, `inARow` those since
a socket has opened last; neither is in the hook.
`reconnectInterval`, the heartbeat and the messages are left out; the url is only
a visit's number, since nothing depends on its text.

## Runs

| Run | Instance | Shows |
|---|---|---|
| `roles` | 3 people, 1 product, quantity 1, all may leave and return, two heirs, one helper, no crash | types, one leader, offers are the leader's, bids before the shopping are members', the promise is kept |
| `quantities` | 4 people, of whom all but the leader are alike, bids of 1 or 2, purchases of 2 or 3, one crash | what handlers read stays true, what was bought is allotted |
| `lists` | 2 people, 2 products, product limit 2, interest-only bids, ready flags, products added while shopping, a helper | the list asks for what the bids ask for, what was bought is allotted, the promise is kept |
| `rooms` | 2 connections of a run's page, 1 of its group's, 2 events | types, a broadcast stays in its room, nobody is dropped from hers, ghosts go |
| `groups` | 2 alike people, 1 group, 2 runs, up to 2 bids of a participation in a run, limits 2 members, 1 group, 2 active runs | types, an administrator remains, the departed are out, handlers look atomic |
| `administration` | 2 users, 2 products, 2 stores, 1 group; 3 of the six at a time, 2 cells in use | types, one participation each, an administrator is left, merges look atomic |
| `accounts` | 2 users, 3 names of which two differ in case only, 1 password, 2 tokens, 1 request in flight, the sweep, restarts | types, names unique up to case, void cookies stay out, the dictionary is true, expired sessions are swept while the sweep lives |
| `notices` | 3 notifications about one run or a reassignment, times 0 to 2, window 1, one answer at a time | types, the badge is true, the listing is complete |
| `page_socket` | 3 visits, 5 attempts, 6 failures | types, the socket is held, giving up is late, not without failures, the page comes to rest |
| `v_*` | the smallest instance that shows it | a statement of a docstring or comment that the code does not keep (below) |

The largest, `lists`, has about a million distinct states and takes two to three
minutes with two workers; `roles`, `quantities`, `groups`, `administration` and
`accounts` take one to two minutes each, the others seconds.

Why these bounds are enough for what the runs claim. Three people are the fewest
with a leader, an heir and somebody else; four are the fewest whose last share can
be negative: each wants 1, 2 are there, and three shares of one half are rounded
up. Quantities 1 and 2 with purchases of 2 and 3 give total demands from 1 to 8,
every sign of the difference, ties and non-ties in the rounding and a surplus for
a leader with a bid and without one (`lists` has one with an interest-only bid).
The three others are interchangeable in `quantities`, hence its symmetry, which is
sound for an invariant and for a property of single steps. A second list row for a
product needs `MaxItems = 2`. One crash suffices for a cut-short handler followed
by a complete retry, and a second crash starts from states of the same kind. In
`rooms`, two connections in one room are the fewest for which a departure during a
send to one changes the fate of the other; two rooms are needed for the second
stop of a route, and two events for two tasks in one room.

In `groups`, two people are enough for a group without an administrator, a leader
and an heir, and somebody who leaves and comes back; two runs for a departure
whose memory holds one run's changes while it commits another's bid; two bids for
a commit between two deletions. In `administration` two of a kind are the source
and the target, and a third row at a time is a bystander; two cells are the two
participations that must not become one person's, or two references of one source
in different columns. In `accounts` two tokens give the sweep something to remove
before and after a thread's deletion; three names are two that differ in case only
and one to come from or go to; what is compared with a password is the row as
loaded, for which its absence is the case that matters. Three notifications are
the fewest whose first and last are further apart than their neighbours; `notices`
was also checked by hand with two answers at a time (4.7 million states, no
error), which is too slow to keep. Six failures are one more than the attempts, so
that a page which never moves can exhaust them, and three visits are the number
from which a page can give up with a single failure.

No run crashes handlers in `RunLifecycle`'s roles, departures and reassignments,
nor in `Groups`, `Administration`: what is claimed about crashes there is proved (below) for
every value of the constants, and `quantities` crashes the handlers of the
shopping.

`CHECK_DEADLOCK FALSE` is set in all runs but `roles` and `lists`: a run that is
cancelled or completed, a room whose visitors have all come and gone and whose
events are all told, a group whose ids are used up, a page that rests may stop.

Each property of a passing run has a mutant in `PROJECT.json`: a change of one
definition, as a bug of the code would make it (a forgotten guard, a missing
last-share rule, a swapped test), under which TLC finds the property violated. The
mutated forms stand beside the definitions they replace, with the suffix after the
underscore naming the bug.

### Liveness and fairness

Two runs check that something happens at last, `accounts` and `page_socket`; the
others have `Spec` without fairness. That handlers and broadcasts end is not
claimed: each is a loop over what is finite, and that it is run is the event
loop's part.

`SweptWhileAlive` assumes weak fairness of `SweepStep` (the hour of
`asyncio.sleep` passes and the loop runs the sweep) and of each request's
`ThreadStep` (a thread that was started runs). Nobody has to log in or out, and
sessions need not expire. `ComesToRest` assumes that timers go off (`Connect`),
that a connection under way is made or fails (`Open`; a failure disables it), and
that a closing socket closes (`Closed`); nobody has to visit or leave. Failures
are bounded by `MaxFailures`, visits by `MaxVisits`: a page comes to rest when it
stays and the network is stable at last, which is what it takes.

## What the code does not keep

Each of these runs checks one statement of the repository and finds a
counterexample; `PROJECT.json` quotes the statement.

| Run | Statement | Counterexample in short |
|---|---|---|
| `v_departed_bidder` | complete_shopping distributes when all quantities match | a bidder left during the shopping: purchase and list match, the bids do not |
| `v_rooms` | broadcast sends to all clients in a room | somebody opens the page during the first send: the iteration fails, the rest is told nothing |
| `v_sweep` | expired sessions are cleaned up periodically | a request's thread deletes one while the sweep iterates: the RuntimeError ends the sweeps for good |

Disagreements met while modelling that have no run of their own; most are single
steps of a model.

Runs:

* a run can be cancelled from `distributing` (`docs/database_schema.md` line
  174); the first bid of someone who was made a helper before leaves the run in
  `planning` (line 181); `force_confirm` confirms without anybody being ready
  (line 190);
* purchases of a completed run can be changed, since `mark_purchased` does not
  look at the state ("serves as historical record", line 205);
* an heir who has left the group can still accept the leadership (line 377);
* in a shortage an interest-only bid becomes a counting one
  (`docs/development_notes.md` line 358), and several bidders may each give up
  the whole of it (`bid_service.py` line 396);
* shares rounded to the nearest 0.01 may exceed the purchase before the last one
  takes the rest, which is then negative (`run_state_service.py` line 600);
* a `start_shopping` that was cut short lists products twice at the next try
  (line 235: "Wrap shopping list generation and state change in transaction");
* `add_product_to_shopping_list` truncates the quantity of the bid but not of
  the row (`shopping_service.py` line 321).

Groups and administration:

* a departure or a founding that is cut short stays half done
  (`group_service.py` line 640);
* `create_group` does not look at `MAX_GROUPS_PER_USER`
  (`src/backend/ERROR_CODES.md` line 163), so founding goes beyond what joining keeps;
* `merge_users` says that groups are moved, but the memberships of the source
  are deleted with her: a group may be left without an administrator;
* merging two products that a participant has both bid on leaves two bids on one
  product; the flag that `toggle_..._verification` sets is never committed;
* an administrator's new username for somebody is stored as typed, not in
  lowercase, so that two names may differ in case only; nor is it looked up before
  it is written: a taken one is refused by the unique column only, as an error of
  the server; and `UserLogin` does not turn what is typed into lowercase, so that
  somebody who types her name in capitals is let in only if it was stored so
  (`src/MIGRATION_USERNAME.md` lines 31 and 122);
* two administrators whose requests are in flight together can take the right
  from each other (`AdminLeft` excludes just this).

Notifications, the page and its socket:

* a message without text ends a WebSocket endpoint by a `KeyError`
  (`app/api/routes/websocket.py` lines 127, 229, 310), and its connection stays
  in the room until a broadcast fails to reach it;
* `reassignment_service.py` lines 203, 379 and 530 hand an object to `broadcast`
  that `json.dumps` refuses; the error is logged, so the notifications are
  stored and never announced, against `src/backend/ERROR_CODES.md` lines 464-476;
* whoever leaves by herself is announced as removed, too: `MemberLeftEvent` is
  never emitted, `group_service.py` line 814 emits `MemberRemovedEvent` for both
  and names the departed as the one who removed (its comment: "Should be
  admin_id"), beside the `member_left` that line 826 broadcasts;
* `events/handlers/notification_handler.py` line 39 calls a method the repository
  does not have, and `RunNotificationService.notify_run_state_change` is never
  called: only the shopping and the distribution notify of changes of state;
* a click on a group of notifications marks its newest only, while the badge
  counts one less (`NotificationContext.tsx` lines 30-32, "single source of
  truth");
* `useWebSocket.ts` line 99 says that a normal closure is not retried, but the
  sockets the page itself closes end with 1005: a page that was left connects
  again after three seconds, and a page that has moved has its socket closed by
  the timer of the earlier visit and pays with an attempt. So the hook gives up
  after six failures in a row on a page that never moved, but possibly after two
  when it moved once and after one when it moved twice. Somebody who logs out and
  in within three seconds may have two sockets in her room and see each
  notification counted twice (`Notices` has one socket).

## Proofs

TLAPS checks the following for all values of the constants under the
assumptions stated in the modules (finite sets of users, products and
connections; `None` outside of the types it stands beside; inputs as the
request schemas admit them). TLC evaluates the same assumptions in every run.

| Theorem | Says | Argument |
|---|---|---|
| `TypeCorrect` | `Spec => []TypeOK` | inductive invariant `IInv` |
| `HandlersReadTrue` | `Spec => []ReadsStayTrue` | a conjunct of `IInv` |
| `Leadership` | `Spec => [](OneLeader /\ OfferIsLeaders)` | inductive together, with `TypeOK` |
| `OffersAreTrue` | `Spec => []OfferIsLeaders` | from `Leadership` |
| `BidsAreMembers` | `Spec => []MembersBids` if `MaxCrashes = 0` | inductive invariant `MInv`, with `StageHeld`: where a handler may be while the run is in which state |
| `RunProperties_proofs!ServicesKeepPromise` | `Spec => KeepsPromise` (refinement) if `MaxCrashes = 0` | `NInv`, `IInv`, step by step |
| `RunProperties_proofs!ListIsTrue` | `Spec => []ListMatchesBids` if `Undisturbed` | inductive invariant `DInv` |
| `RunProperties_proofs!NothingIsLost` | `Spec => BoughtIsAllotted` if `Undisturbed` | inductive invariant `QInv`, with `DInv` and `StageHeld` |
| `RoomsTyped` | `Spec => []TypeOK` | inductive invariant `RInv` |
| `BroadcastsStayInTheRoom` | `Spec => []IteratesTheRoom` | `RInv` and `SameSizeIsTheRoom` |
| `NobodyIsLost` | `Spec => []NobodyIsDropped` | inductive with `RInv` |
| `GhostsAreTakenOut` | `Spec => GhostsGo` | inductive invariant `GhInv`, with `RInv` |
| `Groups_proofs!TypesHold`, `LimitsAreHeld`, `AdministratorRemains` | `CrashSpec => []TypeOK`, `[]LimitsHeld`, `[]AdminRemains` | inductive invariant `GInv` |
| `Groups_proofs!TheDepartedAreOut` | `Spec => []DepartedAreOut` | inductive invariant `DInv` |
| `Groups_proofs!HandlersLookAtomic` | `Spec => HandlersAreAtomic` (refinement) | `GInv`, `DInv`, step by step |
| `Administration_proofs!TypesHold`, `ParticipationsAreOne`, `AnAdministratorIsLeft` | `CrashSpec => []TypeOK`, `[]OneParticipation`, `[]AdminLeft` | inductive invariant `AInv` |
| `Administration_proofs!MergesLookAtomic` | `Spec => MergesAreAtomic` (refinement) | `AInv`, `MInv`, step by step |
| `Accounts_proofs!TypesHold`, `VoidCookiesStayOut`, `SessionsAreTrue`, `NamesAreUnique` | `Spec => []TypeOK`, `[]VoidStaysOut`, `[]DictionaryIsTrue`, `[]NamesUnique` | inductive invariant `AInv` |
| `PageSocket_proofs!TypesHold`, `TheSocketIsHeld`, `AttemptsAreUsed` | `Spec => []TypeOK`, `[]HoldsItsSocket`, `[]GivesUpLate` | inductive invariant `PInv` |
| `PageSocket_proofs!SomethingFailed` | `Spec => []NeverWithoutFailure` if `MaxAttempts >= 5` | inductive invariant `CInv` |
| `Notices_proofs!TypesHold`, `ListsAreComplete` | `Spec => []TypeOK`, `[]ListingIsComplete` | inductive invariant `TInv`; the ranks of entries |
| `Notices_proofs!BadgeStaysTrue` | `Spec => []BadgeIsTrue` | inductive invariant `BInv` |

`IInv` is `TypeOK` and `ReadsStayTrue`. Neither is inductive alone: that an
allocation is an integer and that a request never becomes negative rests on the
row a handler is at being still bought and the bids it has yet to write being
still there; and that these survive rests on the types. The heart is
`AdjustingIInv`, with one step per commit of `finish_adjusting`; its lemmas say
that writing an allocation changes neither which bids there are nor what they
ask for (`AllocationKeepsBids`), that a set of bids asks for a natural number
(`TotalIsNat`), and that changing what a row asks for keeps the list
(`RequestKeepsItems`).

`OneLeader` needs `OfferIsLeaders`: accepting moves the leadership from the
maker of the offer, and only if she still has it is there one leader after it.
`MInv` strengthens `MembersBids` to the states inside a departure, where the
bids not yet erased are exactly what the handler still remembers; with a crash
in between the theorem is false, hence its assumption.

`RInv` adds to the types that a room's set was created by a connection of that
room (`OwnSets`), that a set which is no longer a room is empty and stays empty
(`OldSetsEmpty`: a room is deleted only when it is empty, and whoever enters
enters the new set), and that a broadcast began with somebody in the room
(`BegunWithSomebody`). So a set of the size it had at first is not empty, hence
is the room. This is why the lookup `self.active_connections[room_id]` after
the awaits cannot raise a `KeyError`, although nothing guards it. `GhInv` adds
that a set has connections to one room only (`OwnMembers`), and that a broadcast
has tried each ghost it met and found it dead, is trying it, or had it in the
room at first (`GhostsAreKnown`); so when its iteration ends undisturbed, the
ghosts are among the dead it discards, or have been taken out before.

`GInv` adds to the types, limits and administrators what they rest on: that a
founding is in a group nobody is a member of, that an invitation is known only
where there are members (so that nobody joins a group whose founding was cut
short), that a departure flags rows that are there and runs with participants
were created. It holds with crashes. `DInv` speaks of a departure under way: of
the runs it has been through, the departed is flagged there, in memory or in the
database, and has no bid in those that are open. From it follows the refinement:
each commit of a departure after the first is a stutter of `GroupPromise`, since
the mapping has shown its effect before.

`AInv` of the administration says of a merge under way that its source does not
administer, that both are there and of one kind, and that no cell of the columns
before the one it is at refers to the source any more; so at the end nothing
does, the deletion is not refused, and the merge has become the single step of
`AdminPromise`. `OneParticipation` needs that the check for overlapping
participations is still true when the column of the participations is moved,
which is so because it is the first one and nobody joins meanwhile.

`AInv` of the accounts has the places where a request with a void cookie can be
(`VoidStops`): each reason for being void stops the thread at one of its steps, a
logged-out or lost token at the dictionary, an expired one at its time, a deleted
account at the row; and no reason ever goes away. `FoundExpired` says that the
sweep and the threads hold expired tokens only, which is why they take away
nobody's session. `NamesKept` says that no two rows have one name and that
whoever chose her name has it in lowercase: of two such names that agree up to
case both are the same, which the unique column excludes.

`PInv` says of a page that never moved that its line is never `closing` and that
there have been at least as many failures since a socket last opened as attempts
were used, so that giving up takes more than `MaxAttempts` of them in a row.

`ListMatchesBids` and `BoughtIsAllotted` are about sums over the bids. What a
fold returns for every set cannot be proved here, since the library's theorems
about folds and its induction over finite sets take operators as parameters;
`RunProperties` therefore counts units: `Units(f)` is the cardinality of the set
of pairs of a key and a number from 1 to its value, `SumOf(f)` those of the
values above zero less those of the values below, and the library's theorems
about cardinalities give the sum after a bid was written or erased.

`Undisturbed` names the three things that part the list from the bids, each of
which the code allows: somebody departs (`v_departed_bidder`), a quantity is cut
off by `int()` when it is added to the list, or an add is cut short between its
two commits. `lists` and `quantities` satisfy it, so the theorems speak of the
behaviours they check. `DInv` relates what the rows ask for to what the bids ask
for at every stage: there are no rows before the run is confirmed; while the list
is written, each row agrees and what is bid for has a row or is about to have one;
in the shopping all products agree but the one that is being added. `QInv` does
the same for the handlers that allocate: if the purchase matched the list, whoever
was served got what she asked for (`MatchedShares`); a row that was dealt with is
allotted to the last unit, and all the bids on a row still to come are known to
the handler (`OtherRows`); and of the row at hand what the handler has given is
what the bids it served were allotted, and all that was bought when none is left
(`RowAtHand`). A crash forgets the handler but not its allocations, and the retry
starts from the bids again, so `QInv` needs no assumption on crashes beyond the
list's.

The refinement of `RunPromise` needs two facts beyond the types (`NInv`): no bid
has an allocation before the handler that shares out has begun, so that a run on
which nothing was bought may be completed at once without showing more; and a
departure from a completed run has no bid to erase. The rest is one lemma per
handler, which shows that its commit is a step of the promise or changes nothing in it.
A handler that is cut short leaves what the promise only knows whole, hence
`MaxCrashes = 0`, under which the runs check it as well.

`CInv` bounds what the lines of several visits can cost one another. Of two lines
that meet at the refs of the hook one may close the other's socket, at the cost of
one attempt; `Tally` adds to the attempts used all such meetings still to come
(`Meetings`, of the sockets that close, the timers that wait and the line that is
held), and `FewAttempts` bounds it by the failures so far, for the first three
visits. A page that gives up has used all its attempts. `SomethingFailed` assumes
at least the five attempts that the hook has; with fewer, other numbers hold.

`TInv` has, besides the types, that the rows are in the order of their times.
That the listing loses nothing is a fact about ranks: the number of entries that
are newer than an entry is different for each, hence takes every value below
their number (`Places`, from the library's theorem about injections between sets
of one size), so that each place of the list has one entry and each entry a
place. `BInv` says what a page that is `clean` waits for: either nothing, and
the badge is short by the messages on their way, or exactly one answer, and for
each kind of answer by how much the badge is off until it comes.

Only model-checked: `SweptWhileAlive` and `ComesToRest`, since liveness under
fairness is out of the prover's reach. Every invariant, action property and
refinement that a passing run checks is proved as well.

## Not modelled

* Prices, availability, `add_more_purchased` (it adds a float to a Decimal and
  always fails before it writes); the catalogue's search; comments; paged lists
  and other read-only views.
* A bid of another run marked as picked up: `RunLifecycle` has one run, and
  `Groups`, which has several, knows no products. Their composition is beyond
  what TLC can enumerate.
* `events/handlers/notification_handler.py` (it fails at every call) and the
  savepoint helpers of `transaction.py` (never called).
* The pages of the frontend, its HTTP client and its router; of the hook, the
  heartbeat. The React strict mode's second mount is an ordinary visit.
* Memory repositories (a test double of the database ones, without commits),
  scripts and seed data, migrations, deployment, error and success codes (texts).

## Plan

Done, in this order: `RunStateMachine`; `RunLifecycle` with `RunPromise` and
`RunProperties`, and its proofs; `Rooms` and its proofs; `Groups` with
`GroupPromise`, `Administration` with `AdminPromise`, `Accounts`, each with its
proofs; `Notices` and `PageSocket`, each with its proofs; the proofs of
`RunProperties`.

Worth doing next: for `Rooms`, the sets that are rebuilt while they are iterated;
the products on several rows of a list, which `BoughtIsAllotted` leaves out, and
purchases that are changed after the shopping; the refinement of `RunPromise` with
crashes, over a promise that knows of departures cut short; the state of the run
page (`RunPage.tsx`), which merges events with answers as `Notices` does, to say
what events out of order do to it.

## Running

    tlc -config roles.cfg MCRunLifecycle      # and quantities, lists, v_departed_bidder
    tlc -config rooms.cfg MCRooms             # and v_rooms
    tlc -config groups.cfg MCGroups
    tlc -config administration.cfg MCAdministration
    tlc -config accounts.cfg MCAccounts       # and v_sweep
    tlc -config notices.cfg MCNotices
    tlc -config page_socket.cfg MCPageSocket
    tlapm RunLifecycle_proofs.tla             # and RunProperties_proofs, Rooms_proofs,
                                              # Groups_proofs, Administration_proofs,
                                              # Accounts_proofs, PageSocket_proofs,
                                              # Notices_proofs
