# evennia-shards in TLA+

evennia-shards runs one game as several Evennia servers.  Every *shard* is a
Portal and a Server process of its own; a *router* is one more pair, which
players log in to.  All of them share one database and one browser session
store.  They share no memory: each Server keeps an idmapper (one cached Python
instance per row) and cached Attributes, and no process is told when another
one changes a row.  Most of what can go wrong in this library follows from
that sentence, and most of the properties below are about it.

Paths are relative to the repository; `S/` stands for `src/evennia_shards/`
(`src/src/evennia_shards/` as seen from this directory's parent).

## 1. Inventory

| part | state | operations | talks to | what makes it hard |
|---|---|---|---|---|
| Tenancy `S/tenancy.py` | `shard_id` of every row; of each thread the tenant and the permission for NULL inserts; the mark `_try_update_tenant` on instances | scoped SELECT, UPDATE, DELETE; stamp on insert and its guard; refusal to save a changed column; `shard_context`, `allow_unstamped_insert`, `preserve_tenant_context` | every query of every process | a thread without a tenant; nested blocks; jobs that run later than they were dispatched; writes that bypass `save` |
| Cross-shard move `S/handoff.py` 36-386 | the row, the rows inside it, the idmapper, the puppets, the messages it leaves | validate, collect, transaction with evictions, detach, redirect, flush | tenancy, bus, sessions, client | two processes that move related rows at once; failure between any two of its eight stages |
| Redirects `S/handoff.py` 389-500, `S/commands.py` 39-173 | `_last_puppet`, tickets, browser session | `redirect_to_shard`, `redirect_to_router`, IC, OOC | tickets, client | the account's Attributes are cached in every process |
| Tickets `S/tickets.py`, `S/models.py` | table `Ticket` | create, get, delete | redirects, WebSocket | single use; never expires |
| WebSocket `S/protocols.py` | browser session: uid, nonce, `shards_ws_session_token`; the Portal session | `onOpen`, `disconnect` | tickets, sessions of the Server | two sockets of one browser on two processes during every transfer |
| Post-login hooks `S/hooks.py` | `_last_puppet`, `_shards_at_ooc_menu` | router: menu, or redirect to the puppet's shard; shard: puppet, or send back | WebSocket, redirects | the loop menu -> shard -> menu; stale Attribute caches |
| Browser plugin `S/static/.../shard_redirect.js`, `S/middleware.py` | socket, `localStorage`, `_shardTransferring` | swap sockets, remember the target | WebSocket | a reload at any moment |
| Message bus `S/messagebus.py` | table `Message`; one `LoopingCall` per process | send, poll, handle, defer, time out, reply, delete | all processes | crash or exception between two statements of a cycle; repeated delivery |
| Targeted messages `S/messaging.py` | none of its own | look a row up unscoped, deliver here or by the bus | bus, tenancy | the target moves while the message travels |
| Script confinement `S/script_confinement.py` | the `_paused_time` marker on the row of a script, which all processes share | guards around `_unpause_task` and `_start_task` | tenancy | every process walks the scripts of all shards at boot, and the one that resumes a script clears its marker |
| Character creation `S/chargen.py` | a row without shard between its insert and its second save | insert unstamped, read the start location's shard, assign it and save | tenancy | a crash in between; other threads and processes that find the row |
| Teleport `S/teleport.py`, `S/search.py` | none of its own | choose a local move or `cross_shard_move` | move, tenancy | global search returns rows of other shards |
| Shard commands `S/commands.py` 176-302 | none | print, dig | - | - |
| Configuration and start-up `S/config.py`, `S/apps.py`, `S/portal_services.py`, `S/__init__.py` | settings and monkey patches, before the reactor runs | - | - | - |
| Logging, errors | none | - | - | - |

What has to be true of them:

- *Tenancy.* A process changes only rows that it owns or that are global; the
  shard of a row changes only in `cross_shard_move`; a thread's tenant is the one
  its innermost block names, whatever has been nested, raised or handed to
  another thread before; a row without a shard comes only from the block that
  allows it.
- *Character creation.* A character that was given a shard has that of its start
  location.
- *Move.* A row and everything inside it change shard at once, no row is left
  inside a row of another shard, no process keeps an instance or a puppet of a
  row that it gave away, a call that lost a race changes nothing, every call
  ends, and arrivals become visible at the destination.
- *Bus.* No message with a return address disappears without having been acted
  on or reported; it is repeated only where a fault explains it; the bus does
  not answer itself.
- *Sessions.* A ticket is consumed at most once, a connection puppets only on
  the shard that owns the character, a player who asked for the menu stays
  there, and a redirect ends somewhere.
- *Scripts.* A script ticks only in the processes that its declaration names;
  a process that it does not name consumes nothing of it; a paused script
  resumes where it belongs, in whatever order the processes boot.
- *Messages and teleport.* A message is dropped only if its target has moved or
  gone since it was addressed; what is announced to have arrived is there; a
  command acts on rows of its own shard only.

`PROJECT.json` lists every hazard at its line, and which property would catch it.

## 2. Modules

| module | models | states of the system |
|---|---|---|
| `Handoff` | `handoff.py` 36-386, with the tenant filter, the idmapper and the puppets it depends on | database rows; the memory of each process; the stage of each call |
| `Ownership` | what `cross_shard_move` promises of the database: whole trees change shard in one piece | rows only |
| `HandoffView` | `Handoff` with each room's `contents_cache` and the flush that invalidates it | adds the caches |
| `StaleInstance` | `Handoff` with the Python instances that survive eviction, and their `save()` | adds the instances |
| `Session` | `protocols.py`, `tickets.py`, `hooks.py`, the ic and ooc commands, the redirects of `handoff.py`, `shard_redirect.js` | one player: sockets, browser session, tickets, the account's Attributes and each process's cache of them |
| `MessageBus` | `messagebus.py`: send, the cycle of `process_inbox`, `LoopingCall` | the table, one cycle per process |
| `Tenancy` | `tenancy.py` 77-162, 290-505, 521-647 and `chargen.py` | rows; the threads of each process with their open blocks; jobs that wait for a worker; the instances in each idmapper |
| `Messaging` | `messaging.py`, and the handlers of `obj_msg`, `room_msg` and `flush_from_cache`; extends `MessageBus` | adds rows that move, instances, cached contents, and the command each process is in |
| `Teleport` | `teleport.py`, `search.py`; extends `Messaging` | adds the commands |
| `Scripts` | `script_confinement.py`, with Evennia's boots, shutdowns and pause marker | one script's row; each process's loop for it |
| `HandoffProofs`, `HandoffViewProofs`, `SessionProofs`, `TenancyProofs`, `MessageBusProofs`, `TeleportProofs`, `ScriptsProofs` | theorems about the module of that name; `TeleportProofs` also about `Messaging`, and on the lemmas of `MessageBusProofs` | |
| `MCHandoff`, `MCHandoffView`, `MCStaleInstance`, `MCMessageBus`, `MCSession`, `MCTenancy`, `MCScripts`, `MCTeleport` | the instances that TLC checks | |

`HandoffView` and `StaleInstance` extend `Handoff` and conjoin an effect on
their own variables to each of its actions, so what they say is said about the
very same moves.  In the same way `Messaging` and `Teleport` stand on the bus
of `MessageBus`: each of their steps that touches the table is one of its steps.
`Handoff` is stated to implement `Ownership` by an `INSTANCE ... WITH` under the
identity mapping on rows, the property `ImplementsOwnership`.

### Handoff and the code

One Server process has one reactor thread, and `cross_shard_move` never yields:
within a process nothing else runs until it returns (`pc[s] = "idle"` guards
everything else).  Other processes do run, between any two database statements.
So each statement that touches the database is an action, and the transaction
is one, because nobody outside sees half of it.

| action | `handoff.py` | |
|---|---|---|
| `Validate` | 183-220 | reads the target row unscoped, checks its shard, snapshots the sessions |
| `CollectLevel` | 223, 36-57 | one query of the breadth-first walk, with the tenant filter |
| `Commit` | 242-276 | both UPDATEs, assignments, evictions |
| `RollBack` | 252-259, 304-338 | the first UPDATE matches no row, or another statement fails: rollback, defensive evictions, exception |
| `Detach` | 293-303 | `session.puppet = None` |
| `Redirect`, `EndRedirects` | 340-355 | one session; it may fail and the loop goes on |
| `SendFlush` | 357-380 | unless the destination is this process; may fail |
| `HandleFlush` | `messagebus.py` 233-274 | at the destination |
| `Crash` | - | a process dies at any point of a call and starts with empty memory |
| `Load`, `LocalMove`, `Puppet`, `Unpuppet`, `Reconnect` | Evennia, as used through `tenancy.py` | what game code does between calls |

Abstractions.  Rows are model values.  `idmap` holds movable rows only; rooms
are never moved, and the part of a room's instance that matters is its
`contents_cache`, in `HandoffView`.  `flushes` is a set: two equal flushes do
what one does, because each only drops a cache, and the order of flushes does
not matter for the same reason.  A `Redirect` that succeeds is a record of the
character and the shard that the client was given; what the client does with it
is in `Session`.  An UPDATE that fails to
match a *content* row is silent in the code, and so it is here (`Moved`).

### MessageBus and the code

`Poll` is the query of 375-380 with the clock read before it; `Turn` takes the
rows oldest first; `Handle`, `Defer` and `ActAndRaise` are the three ways that
`handler.handle` ends (true, false or an exception, an exception after an
effect); `Reply` and `Delete` are the statements of 393-412, each a step of its
own because they are not one transaction.  `Raise` is an exception outside the
guard of 382-391: the `LoopingCall` stops and the process does not.  `sent` is a
history of all rows, `table` the rows that exist.  `Handle` joins the insert of a
ping's answer to the handling of the ping; nothing between the two is visible.
Which handlers may refuse a row is the constant `Deferrable`: the code defers
whatever raises or returns a false value, of any kind (382-391), and that the
replies are consumed is a matter of the base class (85-90), which a deployment may
override.  The runs have the base class.
The order of `created_at` is taken to be the order of insertion: clocks of
several hosts may disagree, and no property here relies on the order of rows of
different senders.

### Messaging, Teleport and the code

| action | code | |
|---|---|---|
| `Tell`, `TellLocal`, `TellRemote` | `messaging.py` 85-129 | the unscoped read of the target's shard, then its `msg()` or a row for that shard |
| `TellRoom` | `messaging.py` 182-229 | the same for a room |
| `HandleObj`, `HandleRoom`, `HandleFlush` | `messagebus.py` 167-202, 233-348 | a row that is not found is logged and the message consumed |
| `Got`, `Found` | `tenancy.py` 447-457 and Evennia's idmapper | `objects.get`: the cached instance, even if its row is gone; otherwise a query with the tenant filter |
| `Search`, `SearchSelf`, `FoundHere`, `FoundElsewhere` | `search.py` 142-226, `teleport.py` 84-156, 190-201 | values of any shard, then the instance if it is of this one |
| `Vanilla`, `Refuse`, `Leave`, `LeaveQuietly` | `teleport.py` 178-290 | the branches of `func` up to the move |
| `Move`, `MoveRefused`, `MoveRaises`, `SendFlush`, `FlushFails` | `handoff.py` 183-380, `teleport.py` 292-312 | the transaction is one step here; it refuses a row that is gone or global |
| `Announce`, `AnnounceRaises` | `teleport.py` 314-327 | the arrival text |
| `Look`, `DeleteRow`, `RouterDelete`, `TeleportCrash` | Evennia, `tenancy.py` 77-85 | a room is looked at, a row deleted, a process dies |

A process runs one command or one cycle of the bus at a time (`Idle`, and the
first line of `InboxStep`), other processes run between any two of its
statements.  `cmd[s]` holds what the command has read; a crash forgets it.

A row is deleted by any process that sees it: by its own shard between two
commands, a global one by every shard, and by the router, which runs unscoped, at
any moment.  So a row can vanish between the read of its shard and the load of its
instance, which `search.py` 205-209 provides for and `messaging.py` 119 does not.
Instances that other processes hold of it stay.  A global row (`GlobalRow`) is local
to everybody: every shard finds, tells and deletes it, and none gives it away.  Its
instances may be out of date anywhere, so `Vanilla` and `Leave` choose among what
such an instance may say.  Texts
are not modelled, only whom they are about; the hints of a `room_msg` are its one
excluded row.  The typeclass filter, a search that finds nothing or several
rows, locks and switches end a command without an effect.  `/tonone` of a local
object and `account_msg` are left out: the first is the original command's, the
second goes to a row without a shard.

`messagebus.py` 185-186 says that a misrouted `obj_msg` "should not arise in
normal operation".  It does when the target moves while the message travels;
`docs/cross-shard-message-bus.md` 141-143 accepts the silent drop, and
`DroppedOnlyIfMoved` says that this is the only way to it.

### Scripts and the code

What Evennia does with a persistent script is taken from
`docs/script-confinement.md`: a shutdown leaves a pause marker if a loop was
running, a boot walks over all active scripts and resumes those with a marker,
and removes the marker after it has attached the loop.

| action | code | |
|---|---|---|
| `Read`, `View`, `Foreign` | `script_confinement.py` 59-149 | what the guard goes by: the two Attributes as this process has them |
| `StartTask` | 152-157 | the guard of `_start_task` |
| `StartLoop` | 152-169 | its body, which asks the other guard |
| `Walk` | 159-169 | a booting process reaches the script |
| `Clear`, `Boot`, `Shutdown`, `Crash`, `DeclareOwner`, `DeclareRoles` | Evennia and the consumer | |

Owner, roles and marker are Attributes, and each process reads an Attribute from
its own cache once it has read or written it (`cached`, `seen`, `unmarked`).  A
declaration that another process makes is therefore not seen until the cache is
gone, that is until the next boot; and a read that fails counts as no declaration
(64-74), which is a fault here.  `Entitled` says who may run the script in spite of
its declaration: a process that passed the guard before the change or on a failed
read (`excused`), and one whose cache still has an older declaration.  A boot ends
all of these.  A crash leaves no marker, so nothing resumes after it.  For a script that is declared by roles, several processes may be
entitled and only the one that finds the marker resumes: `PausedResumes` promises
one of them.

### Session and the code

One player, one browser with one or several tabs, one account.  Router and shards
share the rows
(`owner`, `tickets`, `lastdb`) and the browser session (`cookie`); every process
has its own `last`, the `_last_puppet` of its Attribute cache, which nobody
invalidates (`hooks.py` 209-212).  A WebSocket has two ends in a process,
`portal` and `server`, that hear of each other in order.

| action | code | |
|---|---|---|
| `Navigate`, `Refresh`, `Bookmark` | `middleware.py` 52-72, 102-112 | a page is loaded: the router, the remembered target, an address with a ticket |
| `Follow` | `shard_redirect.js` 118-240 | close the old socket, open the new one, remember the target |
| `OpenWithSession`, `OpenWithTicket`, `RefuseTicket`, `OpenLoginScreen`, `OpenOrphan` | `protocols.py` 94-206 | the branches of `onOpen` |
| `Disconnect`, `Clear` | `protocols.py` 208-242 | what the browser session says, and the save that logs it out |
| `ShowMenuToArrival`, `ShowMenu`, `SendOn` | `hooks.py` 54-148 | the router after a login |
| `EnterGame`, `StayOut` | `hooks.py` 229-260 | a shard after a login |
| `LoggedIn`, `Dismissed` | Evennia's `disconnect_duplicate_sessions` | in MULTISESSION_MODE 0 a login ends the account's other sessions in that process |
| `IC`, `OOC` | `commands.py` 39-84, `handoff.py` 441-500 | |
| `Move` | `handoff.py` 97-386 | in one step: `Handoff` says what happens inside, and that it ends so |
| `Drop`, `Hangup`, `Login`, `Restart` | Evennia | a connection breaks; the Server hears of a disconnect; the login form; a process is restarted |

`_validate_ticket` reads and deletes the ticket in one step, since a ticket has
one addressee and a Portal has one thread.  `onOpen` reads and saves the browser
session in one step, `disconnect` in two: the disconnect of the old connection
and the `onOpen` of the new one run in different processes during every
transfer.  The login that the Server reports to the Portal (`at_login`) is part
of the action of the hook.  The player types no command while a redirect is on
its way, and one broken connection at a time waits for its reconnect.  A change
of the client's address is a fault that makes `RefuseTicket` possible for a good
ticket.  `letin` and `wants` are history.

`page` is the set of connections that tabs use; the tabs share cookie and
`localStorage`.  A shard's hook blanks the character's list of sessions before it
puppets (239-260), so Evennia finds nobody to take over: another session of the
account in that process keeps its puppet and is only taken off the list
(`attached`).  In MULTISESSION_MODE 0 (`single`) there is no other session by then.
`Move` detaches and redirects those on the list, as `handoff.py` 219 does.

### Tenancy and the code

django-multitenant keeps the tenant in a thread-local, and tenancy.py its
permission in another.  So the actors are threads: the reactor thread of each
process and the workers of its pool, which run one job after another and keep
their thread-locals between jobs.  `blocks[t]` is the stack of the with blocks
(and the job) that thread `t` is inside, each with what its entry saved in the
local variable `previous`.

| action | code | |
|---|---|---|
| `Enter`, `Allow` | `tenancy.py` 583-589, 157-160 | save `previous`, set the thread-local |
| `Leave` | 590-594, 161-162, 641-645 | the innermost block ends, normally or by an exception, and restores what *it* saved and nothing else |
| `Dispatch`, `Take` | 630-640 | the tenant is read when the function is wrapped; the worker applies it later; an unwrapped job runs with what the worker has |
| `Insert`, `BulkInsert` | 290-362, 461-501 | stamp or refuse |
| `Load` | 447-457 | a filtered query fills the idmapper |
| `Assign` | 394-423 | the column is set on an instance; the mark is raised or not |
| `Save` | 290-305, 362, 371-379 | a marked instance raises; otherwise the stamp is put on the instance and the UPDATE is filtered |
| `CreateCharacter`, `InsertCharacter` | `chargen.py` 61-64 | the block and the one insert it is for; other inserts of the hooks are `Insert` |
| `SettleCharacter`, `SaveCharacter` | `chargen.py` 66-99 | read the start location, assign; save |
| `Restart` | - | a process dies at any point |

`cross_shard_dig` (`commands.py` 291-295) is `Enter`, `Insert`, `Leave`.  Between
two statements of `create_character` other threads and processes run, but no game
code on the same thread; hence the two actions.

Each block also carries `names`, whom its text says it acts for.  It is a ghost:
no guard reads it, and `Scoped` compares it with the thread-local.  `born`,
`cleared` and `settled` are history.

Abstractions.  An UPDATE that matches no row leaves the row alone, whether Django
then raises or goes on.  An idmapper never forgets an instance by itself, so old
instances live as long as they can do harm.  The rows of the start locations
are not in `row`: their shard is an argument of `CreateCharacter`, and the query
sees it or not by the thread's tenant.  A row of `Tenancy` is neither moved nor
deleted; moves and what they do to instances are in `Handoff` and
`StaleInstance`.  Evennia hands some saves of a worker to the reactor;
that is outside this repository and `Save` is taken to run on the thread that
calls it.  `set_current_shard` is called at start-up only (`tenancy.py` 92-94): a job
that called it itself would leave its tenant to the worker's later jobs.

`OwnedRowsStay` has two exceptions.  A row that was inserted NULL is meant to be
given a shard, and the first thread with a tenant that saves an old instance of it
decides which.  And `__setattr__` compares only values that are set
(415-420): assigning NULL and then another shard is not refused, although 386
calls the column immutable after insert.  No code of the library does that.

## 3. What TLC checks

| run | question | properties |
|---|---|---|
| `handoff_tree` | do moves of nested containers by both shards, one of them failing, look like whole trees that change shard at once, and do connections follow their characters? | `TypeOK` `Coherent` `CollectionSound` `PuppetLocal` `ImplementsOwnership` |
| `handoff_faults` | with a failure or a crash at any step, and callers that name rows which have left or their own shard: are caches and ownership right, and what do the rooms show? | `NoPhantom` `MissingOnlyUntilFlush` `OnlyOwnerGivesAway` |
| `handoff_live` | does every move end, is every arrival seen? | `ArrivalsAppear` `MoveFinishes` |
| `bus` | handled, deferred, timed out, with a crash or exception anywhere: is anything lost, or repeated without a fault, does the sender learn? | `NothingLost` `OneOutcome` `SoleConsumer` `NoReplyToReply` `SenderLearns` |
| `session` | ic, ooc, reloads, bookmarks, second tabs, lost connections, moves and restarts in any order: who controls what, where do tickets work, where does the player end up? | `PuppetOnOwner` `TicketOnce` `NoBounce` `Lands` |
| `tenancy` | nested and aborted blocks, jobs, inserts, old instances, a character in the making, restarts: is each thread's scope its own, and does a row get the right shard and keep it? | `TypeOK` `Scoped` `NoStrayRow` `OwnedRowsStay` `StartShard` |
| `scripts` | boots, shutdowns and crashes of a router and two shards in any order, while the declaration changes and caches of it are old: where does the script tick, who takes its marker, does it resume? | `TypeOK` `Confined` `MarkerOnlyClaimed` `PausedResumes` |
| `teleport` | tells, searches and teleports by both shards of a row that moves, or of a global one, either of which may vanish at any moment, with one failure anywhere: what is dropped, what has a search found, and is an announced arrival visible? | `MessagingTypeOK` `LocalStaysLocal` `DroppedOnlyIfMoved` `ArrivalSeen` |

Runs that show a disagreement of code and documentation (section 5):
`carried_character`, `location_loop`, `stale_save`, `wrong_character`.

**Bounds.**  Two shards: a move has a source and a destination, and a third
shard could only play the part of either in a further call.  One room each, so
that crossing moves exist.  Two or three movable rows: three are needed for a tree of depth
two, where collection has a second level (`handoff_tree`, which takes the two
carried rows as symmetric: no action, invariant or part of `Ownership` tells them
apart); two suffice elsewhere.  Connections
are in `handoff_tree` only: they change no cache, and `PuppetsStayLocal` holds
for callers with stale instances as well.  No
passing run has a global *container* (`GlobalRow = {}`): the theorems of section 4
hold with any, but for the two that say otherwise.  `MaxFaults` counts injected failures and crashes: one, at any
step, in every passing run except `handoff_live`, whose liveness assumes none, and
`tenancy`, where a process may restart at any time.
`MaxSent = 2` stops game code from sending once two rows exist; answers and
reports are not limited by it.  Two rows are enough for a cycle with a
remainder and for messages that cross.
In `Session`, `MaxConn = 3`: a page's socket, and two others, of a second tab or
older ones that have not ended yet; when all are taken, the page waits for one of
them to end.
`MaxAsks = 3` bounds what the player and game code undertake:
three are enough for ic, ooc and a reload, or for ic and a move during the
login, or for a second tab that enters the same character and a move of it.
`Settings` are two: one tab in MULTISESSION_MODE 0 with the router's
`AUTO_PUPPET_ON_LOGIN`, and two tabs outside that mode without it, as the demo game
has it, where the second tab reaches the shard by the remembered target.  All four
combinations with two tabs are too many for one run; the theorems have any.
In half of the initial states the account's character has no shard.
`wrong_character` has two characters and one tab.
In `Teleport`: one row to tell and to teleport, which belongs to its room's shard in
some initial states and is global in the others (`Starts`), two shards, and a second
room on one of them from which it may start, so that the original command moves it
too;
a command begins only while two more rows, the most that one sends, fit within
`MaxSent = 3`, which allows an announced teleport after a tell or beside it, and
a tell or another teleport after a quiet one of the same row.  Reports of undelivered rows
are not limited.
In `Scripts`: three processes of two roles; a script that has no declaration at
first, or an owner, and one change, which makes, replaces, removes or contradicts
it; one fault, a crash or a read that fails; boots and shutdowns are not limited.
In `Tenancy`: a router with one worker, where everything unscoped happens, and a
shard with its reactor only; a worker of a shard would differ in nothing but its
dispatcher's tenant, which `Enter` gives the router's reactor too.  One row, since
no action relates two rows; `MaxBlocks = 2` blocks open at a time, for one inside
another or one on each of two threads; `MaxQueue = 1` job that waits, so that its
dispatcher can leave its scope before it is taken.  `Entered`, `Given` and
`Assigned` have a foreign shard or the global value, and NULL.  The theorems
below have none of these bounds.

The largest runs have 1,471,690 distinct states (`teleport`), 1,355,371
(`handoff_faults`) and 1,167,219 (`session`); `scripts` has 148,524.

**Constants that say what callers do.**

- `StaleRefs`: callers pass instances of rows that have left the shard.  TRUE
  in `handoff_faults`, where everything checked has to hold anyway.
- `SameShard`: the shards whose callers name their own shard as the target,
  which the code allows.  `{s2}` in `handoff_faults`.  Such a move sends no flush
  and updates no cache, so the arrival stays unseen in a room whose contents are
  cached until the room is read afresh: `lost` records it, beside the flushes
  that were not sent.
- `Dest`: what callers pass as `target_location_pk`.  Rooms in the passing
  runs.  The code also accepts rows that can move themselves (vehicles and
  containers, `handoff.py` 167-169), whose shard it reads before the transaction
  and not again; `location_loop` shows what then happens.  `Coherent` is false
  there too: the destination leaves between its validation and the UPDATE, and
  the moved row ends inside a row of another shard.
- `Carriable`, `Puppetable`: what may be inside a movable row and what players
  control.  Disjoint in the passing runs; `carried_character` shows why.

- `Deferrable`: the kinds whose handlers may refuse a row.  Those that call into
  the game in the run; any set that contains them in the theorems.
- `GlobalRow`: the rows with `shard_id` "*".

**Fairness.**  `WF(MoveStep(s))`: a call that a reactor has begun runs to its
end; nothing in it waits for another process.  `SF(HandleFlush(m))`: the
`LoopingCall` of the bus gets its turn between two calls, however many other
calls come in between, and one turn handles every row that is there; strong
fairness because calls disable it again and again.  In `MessageBus`,
`WF(BusStep(s))`: a loop that runs goes on; `WF(Expire(p))`: time passes.
Nothing says that a process that went down is started again or that a loop that
stopped comes back: `SenderLearns` therefore has the condition that all loops
run from some time on.
In `Scripts`, `WF(ScriptStep(p))`: a process goes on with what it has begun;
`PausedResumes` has the condition that every process is up again and again.
In `Session`, `WF(\E i : Step(i))`: the programs at both ends of a connection go
on with what has begun, in no particular order between connections.  Nothing is
assumed of the player; `MaxAsks` says that the player stops asking, which
`Lands` needs: one who reloads for ever lands nowhere.

## 4. What is proved

Every safety property of the passing runs is a theorem, for every value of the
constants that the stated hypotheses admit.  Each inductive invariant was first
checked by TLC on the constants of a run; the numbers of states are given below.

### HandoffProofs

`HandoffProofs`, for every set of shards, rows, sessions and any number of faults:

| theorem | hypotheses beside `HandoffAssumption` | property |
|---|---|---|
| `TypeCorrect` | none | `TypeOK`, and a call has arguments exactly while it runs |
| `CachesHoldOwnRows` | none | `NoPhantom` |
| `OwnerGivesAway` | none | `OnlyOwnerGivesAway` |
| `RowsStayTogether` | `Dest` are rooms, `~StaleRefs` | `Coherent` |
| `CollectedRowsStayValid` | the same | `CollectionSound` |
| `HandoffImplementsOwnership` | the same, and global rows are rooms | `ImplementsOwnership` |
| `PuppetsStayLocal` | `Dest` are rooms, no row is `Puppetable` and `Carriable` | `PuppetLocal` |

The argument.  `Coherent` alone is not inductive: whether a commit leaves
something behind depends on what the call collected some steps earlier.  `TreeInv`
adds what makes it so.  `Fixed`: rooms have no location and keep their owner.
`LevelCollected`: the level that is being read belongs to the tree.
`CollectionSound`: what has been collected is still the caller's or global and
still in the tree, and everything the caller owns in the levels already read has
been collected.  The last part holds
because only the process itself could put a row of its own into a row of its
own, and it is busy; and because no commit of another process can deliver into a
movable row, which is where `Dest` enters.  `PuppetInv` adds to
`PuppetLocal` that the root of a move is not carriable when somebody controls
it, and that the snapshot holds all its sessions.

The hypotheses are not convenience: with a destination that is not a room
`Coherent` is violated (the constants of `location_loop`), and
`carried_character` violates `PuppetLocal` with a character that can be carried.

### HandoffViewProofs

For every set of shards, rooms, rows and sessions, any callers and any number of
faults, under `HandoffAssumption`:

| theorem | further hypothesis | property |
|---|---|---|
| `CachesLackOnlyFlushed` | global rows are rooms | `MissingOnlyUntilFlush` |
| `ViewsHoldOwnRows` | none | `NoPhantom`, with rows loaded by reading a room too |

The argument.  Between the commit of a move and its flush a room already lacks
its arrivals although no flush is on its way: that the call which owes it is still
at it is part of `FlushComing`.  Inductive is `ViewInv`: `Shown` says for each
room which of the three explanations holds, `OneOwner` that every row which is not
a room belongs to one shard, and `Carried` that what a call is about to commit is
its own and in no room.  `OneOwner` is what makes a local move harmless: the process
that makes it is the only one that sees the row, and its save updates the caches of
that process.  TLC finds `ViewInv` in all
1,355,371 states of the constants of `handoff_faults`.

The hypothesis is needed.  With a global row that moves and a global room, TLC
violates `MissingOnlyUntilFlush` in three states: one process reads the room,
another one moves the row into it, and nothing tells the first.

### SessionProofs

For every set of shards and characters, every number of connections, and any
number of wishes and restarts, under `SessionAssumption`:

| theorem | property |
|---|---|
| `SessionTypeCorrect` | `TypeOK` |
| `PlayedByOwner` | `PuppetOnOwner` |
| `TokensOnce` | `TicketOnce` |
| `MenuStays` | `NoBounce` |

`PuppetOnOwner` is about every session: one that the character lists is on the
character's shard, and one that it does not list exists outside MULTISESSION_MODE 0
only.  So in mode 0 a character is played on its own shard, without exception.

The argument.  `SessionInv` ties the two ends of a connection: only a Server that
is in the game holds a character, and a Portal that is still opening has told its
Server nothing (`ConnOK`), so that no late login finds a character in the
connection it is to fill.  `Tickets` says that a ticket which is still in the table has let
nobody in, and one that is not at most one connection, at its addressee.
`MenuKept`: as long as a player has asked for the menu and not for anything since,
the mark on the account is set.  `NoBounce` is about the step that sends a player on,
which that mark forbids.  `Kept` is the one lemma for all steps that neither
puppet nor send on.

### TenancyProofs

For every set of processes, pool workers, rows and arguments, and any depth of
nesting, under `TenancyAssumption` alone (names are distinct, the router is no
shard):

| theorem | property |
|---|---|
| `Typed` | `TypeOK` |
| `AlwaysScoped` | `Scoped` |
| `NoStrayRows` | `NoStrayRow` |
| `OwnedRowsNeverMove` | `OwnedRowsStay` |
| `CharactersStartOnShards` | `StartShard` |

The argument.  `Scoped` is about the innermost block and says nothing of what
remains when that block ends.  `ScopeInv` adds `BlocksOK`: every block on every
stack has saved what the blocks below it name and allow, which is what its end
restores; and `JobsOK`: a waiting job carries the tenant that its text names.
`OwnedRowsStay` is about one step, but whether a save moves a row depends on an
instance loaded long before.  `InstancesOK` says of every row that was never
without a shard that each of its instances, in any process, either agrees with the
row or is marked; `MakingOK` says that the instance `create_character` works on
exists.  `RowInv` is the conjunction of all these.

`StartShard` is about the save of `create_character`, and whether that save writes
what the statement before it assigned depends on everything that other threads of
the router do with the same instance in between.  `AssignedOK` says that the
instance still holds the start location's shard, or is marked so that the save
raises, or game code has cleared the column; TLC finds it in all 371,096 states of
the run's constants.  Every step of any thread but a restart keeps this
(`StepHolds`): an assignment of another value marks the instance, a save of a value
that is set does not change it, and a load or an insert never meets an instance
that is there.

### MessageBusProofs

For every set of shards, every `MaxSent` and any number of faults, under
`BusAssumption`:

| theorem | property |
|---|---|
| `NoRowLost` | `NothingLost` |
| `OneConsumer` | `SoleConsumer` |
| `OutcomesBounded` | `OneOutcome` |
| `AnswersEnd` | `NoReplyToReply` |

The argument.  None of the four is inductive.  A delete is harmless only if the
row whose turn it is has had its outcome, which is what `StageOK` says of the stage
`"delete"`.  A handler adds an outcome, so a row that can still be taken up must be
one below the bound: `Counts` says so of every row in the table that is not
`Settling`, about to be deleted, and a fault that interrupts a delete pays for the
outcome that its row keeps.  Other processes do not disturb this since a row in
hand is addressed to the process that has it, which `SoleConsumer` says; and the
reply of a timeout always has an address other than the shard itself because a
row is never addressed to its sender (`RowOK`).  `AnswersEnd` says that only a row of
a kind in `Deferrable` is answered; when the replies are not in it, every chain ends
after one answer.  `More` abstracts both inserts, and
a handler that inserts nothing, to what the invariant needs of them.

### TeleportProofs

For every set of shards, rooms and rows, and any number of commands, crashes and
exceptions, whichever rows are global or deleted at the start, under
`BusAssumption`, `MessagingAssumption` and `TeleportAssumption`: names are distinct
(`None` is neither a payload nor a command, "*" is no shard), every room has a
shard, and destinations are rooms.

| theorem | property |
|---|---|
| `NoForeignInstances` | `MessagingTypeOK` |
| `FoundStaysFound` | `LocalStaysLocal` |
| `BusKeepsPromises` | `NothingLost`, `SoleConsumer`, `OneOutcome`, `NoReplyToReply`, in the composition |
| `DropsAreExplained` | `DroppedOnlyIfMoved` |
| `ArrivalsAreSeen` | `ArrivalSeen` |

The argument.  `TeleportInv` is `BusInv`, the invariant of the bus alone, and
`GameInv`, what is known of rows, commands and payloads.  `Commands`: what a
command has read is still so unless the row's history `moves` has gone on.  What it
has found on its own shard is not another shard's, since only that process could
give it away, and if it is still there it has not moved; but it may be gone, deleted
at any moment, and then the load and the move refuse it.  That is all
`LocalStaysLocal` says, and all the code may rely on.
`Bodies` says the same of a message that travels, which gives
`DroppedOnlyIfMoved`.

`ArrivalSeen` needs most.  `Views`: each row that is not global (those do not
change shard, and no text announces them) either would be seen in its room
(`InView`), or it is known why not (`Explained`): its room's flush is known not to
have been sent, or a command that is about to send it owes it (`Owes`), or the
flush exists, has not been handled and precedes every text that announces the row
(`FlushFirst`).  `Announcers`: one command announces a move, after its flush, so when a
text is handled nobody still owes the flush, and one that exists and has not been
handled is an older row than the text.  That is the property's `Overtaken`, which only an exception in the
flush's handler brings about.

### ScriptsProofs

For every set of processes, roles and declarations, under `ScriptsAssumption`:

| theorem | property |
|---|---|
| `ScriptsTyped` | `TypeOK` |
| `ScriptsConfined` | `Confined` |
| `MarkersAreClaimed` | `MarkerOnlyClaimed` |

The argument.  `Confined` is about loops that exist, and the guard was asked
earlier.  The inductive invariant adds what is known of a process between the two:
one that has passed the guard is entitled, and so is one that is about to clear
the marker, which has a loop.  A declaration keeps this because it excuses those
that have passed the guard, and because every other process's view of it either is
the new declaration or differs from it.

### Only model-checked

Everything temporal under fairness (`ArrivalsAppear`, `MoveFinishes`,
`SenderLearns`, `Lands`, `PausedResumes`), which needs ENABLED and is out of the
prover's reach.  `StaleInstance` has no property that holds: its run shows what
goes wrong.

## 5. Where the code and its documentation disagree

- `carried_character`: sessions of a character inside the moved row are neither
  detached nor redirected.
- `location_loop`: "Evennia prevents location loops" does not hold for
  `QuerySet.update`; two crossing moves make a loop, and the walk of a later
  move never ends.
- `stale_save`: the instance is changed before the commit and not changed back
  by the rollback; its next `save()` moves the row.
- `wrong_character`: the shard's auto-puppet believes the cached `_last_puppet`,
  not the ticket.  A player who enters c1, leaves and enters c2 on the same shard
  gets c1.

Also seen, and no runs of their own:

- *A message is handled twice.*  `docs/cross-shard-message-bus.md` 77 says of a
  handled row: "delete the row in the same transaction as the handler's
  side-effects".  `process_inbox` runs the handler (`messagebus.py` 382-391) and
  deletes the row afterwards (394), with no transaction around the two.  A crash in
  between (`Handle`, `Crash`, `Restart`, `Poll`, `Handle` of `MessageBus`) leaves
  the row, and the handler runs again after the restart: a ping is answered by two
  rows, a text is shown twice.  `OneOutcome` is what is left of the promise, one
  repetition for each fault, and none without.
- *A second session outlives a move.*  `handoff.py` 4-7 promises to "redirect any
  puppeting sessions", and `hooks.py` 251-252 gives as the reason for blanking the
  character's list of sessions that "no session on *this* shard is genuinely
  puppeting the character yet".  Outside MULTISESSION_MODE 0 one may be.  A player
  opens a second tab, which logs in on the shard (`EnterGame`); the first session
  keeps its puppet and is listed no more; the next move (219) redirects the second
  one and leaves the first playing an evicted instance on the old shard.
  `PuppetOnOwner` excepts such sessions.
- *A start that bypasses confinement.*  `docs/script-confinement.md` 131-132 says
  that `_start_task` is guarded because "a future command or a direct `start()`
  would otherwise bypass confinement silently".  One in a process that has cached an
  older declaration, or fails to read it, does so (`StartTask`, `StartLoop` of
  `Scripts`): nothing is logged and the script may tick twice.  `Confined` excepts such
  processes.
- *A target that vanishes.*  `messaging.py` 66-70 promises False for a target that
  does not exist and lets only errors of the bus out.  A local or global target that
  is deleted between 93-97 and 119 makes `objects.get` raise `DoesNotExist`, which
  nothing catches (`TellLocal` of a row in `gone`).
- *A loop that stops.*  `docs/cross-shard-message-bus.md` 61 says of the
  polling loop that "if the loop is dead, Evennia is dead".  A `LoopingCall` stops
  for good when its function raises, `process_inbox` guards only the handler
  (`messagebus.py` 382-391), and `start_message_bus` drops the Deferred that would
  report it: `Raise` of `MessageBus` is that step, and the game goes on without
  its bus.

## 6. Not modelled

Portal and Server of one shard are one process: the AMP link between them is
Evennia's and ordered.  Of `tenancy.py`, the decorated `delete` and `update` of
querysets, `bulk_update` and `refresh_from_db` have no action of their own
(`Handoff` has the bypass by `QuerySet.update`), so that rows whose shard is changed
by `bulk_update` are outside `OwnedRowsStay`.  Global *rooms* are not in `Teleport`: a
contents cache of theirs would exist in every process.  The router deletes rows but
does not move them in place.  What a deployment's own handlers do is in `Deferrable`
only.  Two rows with the same pk, HTTP
pages and the admin, log text, and settings that are wrong are not modelled.
Settings, monkey patches at start-up and logging keep no state that changes
later; the command that prints shards changes nothing.

## 7. Plan

Done: every component that keeps state and runs concurrently; a theorem for every
safety property and action property of the passing runs.  Left:

1. What `StaleInstance` does satisfy: an instance whose move was committed does no
   harm until its row comes back to the shard.  To be stated, checked and proved.
2. `Teleport`'s single step `Move` against the stages of `Handoff`, as a refinement.
