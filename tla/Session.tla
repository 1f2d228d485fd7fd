------------------------------ MODULE Session ------------------------------
(***************************************************************************)
(* How one player's browser gets to the process that hosts the character,  *)
(* and back to the menu of the router.                                     *)
(*                                                                         *)
(* Router and shards share the database (the Ticket table and the account's*)
(* Attributes) and the store of browser sessions (the "cookie").  Each     *)
(* process caches the account's Attributes from its first read on and is   *)
(* never told that another process has written them.  In every process the *)
(* Portal (onOpen, disconnect) and the Server (post-login, commands) are   *)
(* two programs that exchange messages in order.  The player may have      *)
(* several tabs open, which share the cookie and localStorage.             *)
(***************************************************************************)
EXTENDS Naturals, Sequences, FiniteSets

CONSTANTS
  Shard, Router,  \* the processes
  Char,           \* the account's characters
  Starts,         \* where the characters may begin: Starts[c] is a shard, or
                  \* None for one whose creation was cut short
  Settings,       \* how the game may be set up: AUTO_PUPPET_ON_LOGIN of the
                  \* router (a shard has TRUE), whether MULTISESSION_MODE is
                  \* 0, and a bound on the tabs that are connected at a time
  None,           \* no character, no connection, no ticket, no process
  Unread,         \* this process has not read the Attribute yet
  MaxConn,        \* bound: WebSockets that exist at the same time
  MaxAsks,        \* bound: what the player and game code undertake
  MaxFaults       \* bound: restarts and changes of the client's address

Process  == Shard \cup {Router}
ConnSlot == 1..MaxConn

ASSUME SessionAssumption ==
  /\ Router \notin Shard
  /\ Starts \subseteq [Char -> Shard \cup {None}]
  /\ Settings \subseteq [auto : BOOLEAN, single : BOOLEAN, tabs : Nat]
  /\ None \notin Process \cup Char \cup Nat
  /\ Unread \notin Char \cup {None}
  /\ MaxConn \in Nat \ {0} /\ MaxAsks \in Nat /\ MaxFaults \in Nat

VARIABLES
  auto,     \* AUTO_PUPPET_ON_LOGIN of the router
  single,   \* is MULTISESSION_MODE 0?
  tabs,     \* how many tabs the player uses
  \* shared
  owner,    \* owner[c]: shard_id of the character's row
  issued,   \* every ticket ever created; its index is the token
  tickets,  \* the tokens in the Ticket table
  lastdb,   \* account.db._last_puppet, the row
  cookie,   \* webclient_authenticated_uid and shards_ws_session_token
  \* per process
  last,     \* last[p]: _last_puppet in p's Attribute cache
  menu,     \* account.db._shards_at_ooc_menu, which only the router touches
  \* connections and the browser
  conn,     \* the WebSockets
  page,     \* those that the tabs use
  target,   \* localStorage: where a refresh goes
  \* bounds and history
  asks, faults,
  letin,    \* letin[t]: the processes that took ticket t for a login
  wants     \* "menu" once an ooc has brought the player to the router,
            \* "play" from the next ic on

shared  == <<owner, issued, tickets, lastdb, last, menu>>
browser == <<page, target>>
setup   == <<auto, single, tabs>>
bounds  == <<asks, faults, setup>>
history == <<letin, wants>>
vars    == <<shared, cookie, conn, browser, bounds, history>>

Ticket == [char : Char \cup {None}, to : Process]
Target == [to : Process, ticket : Nat \cup {None}]
Conn   == [at : Process, ticket : Nat \cup {None}, open : BOOLEAN,
           portal : {"opening", "open", "lost", "clearing", "gone"},
           server : {"none", "synced", "login", "menu", "ic", "leaving", "gone"},
           by_ticket : BOOLEAN,       \* the ticket identified the player
           ticket_authed : BOOLEAN,   \* SHARDS_TICKET_AUTHED
           puppet : Char \cup {None}, \* session.puppet
           attached : BOOLEAN,        \* is it in the puppet's sessions?
           redirect : Target \cup {None}]   \* shard_redirect, not yet read

TypeOK ==
  /\ owner \in [Char -> Shard \cup {None}] /\ auto \in BOOLEAN /\ single \in BOOLEAN
  /\ issued \in Seq(Ticket)
  /\ tickets \subseteq 1..Len(issued)
  /\ lastdb \in Char \cup {None}
  /\ cookie \in [uid : BOOLEAN, token : ConnSlot \cup {None}]
  /\ last \in [Process -> Char \cup {None, Unread}]
  /\ menu \in BOOLEAN
  /\ conn \in [ConnSlot -> Conn]
  /\ page \subseteq ConnSlot
  /\ target \in Process \cup {None}
  /\ asks \in 0..MaxAsks /\ faults \in 0..MaxFaults
  /\ letin \in Seq(Seq(Process)) /\ Len(letin) = Len(issued)
  /\ wants \in {"play", "menu"}

Fresh(p, t) ==
  [at |-> p, ticket |-> t, open |-> TRUE, portal |-> "opening",
   server |-> "none", by_ticket |-> FALSE, ticket_authed |-> FALSE,
   puppet |-> None, attached |-> FALSE, redirect |-> None]

(* A connection that neither side knows of any more.                       *)
Closed ==
  [Fresh(Router, None) EXCEPT !.open = FALSE, !.portal = "gone", !.server = "gone"]

Settled(c) ==
  IF ~c.open /\ c.portal = "gone" /\ c.server \in {"none", "gone"} THEN Closed ELSE c

(* The player loads the webclient, which opens a WebSocket to the router.  *)
Init ==
  /\ owner \in Starts
  /\ \E m \in Settings : auto = m.auto /\ single = m.single /\ tabs = m.tabs
  /\ issued = <<>> /\ tickets = {}
  /\ lastdb \in {None} \cup {c \in Char : owner[c] = None}
  /\ last = [p \in Process |-> Unread] /\ menu = FALSE
  /\ cookie = [uid |-> FALSE, token |-> None]
  /\ conn = [i \in ConnSlot |-> IF i = 1 THEN Fresh(Router, None) ELSE Closed]
  /\ page = {1} /\ target = None
  /\ asks = 0 /\ faults = 0
  /\ letin = <<>> /\ wants = "play"

Ask   == asks < MaxAsks /\ asks' = asks + 1 /\ UNCHANGED <<faults, setup>>
Fault == faults < MaxFaults /\ faults' = faults + 1 /\ UNCHANGED <<asks, setup>>

-----------------------------------------------------------------------------
(* The browser.                                                            *)

(* The page closes its socket; what was sent to it is not read.            *)
Left(c) == Settled([c EXCEPT !.open = FALSE, !.redirect = None])

(* The sockets K of a tab (none or one) are closed in good order and a new *)
(* one is opened.                                                          *)
Swap(K, p, t) ==
  \E n \in ConnSlot :
    /\ conn[n] = Closed /\ \A m \in 1..(n - 1) : conn[m] # Closed
    /\ conn' = [i \in ConnSlot |->
                  IF i = n THEN Fresh(p, t)
                  ELSE IF i \in K THEN Left(conn[i]) ELSE conn[i]]
    /\ page' = (page \ K) \cup {n}
    /\ Cardinality(page') <= tabs

(* A tab that has a connection, or one that has none.                      *)
Tabs == {{i} : i \in page} \cup {{}}

(* A typed address or a link: the router.                                  *)
Navigate ==
  /\ Ask /\ \E K \in Tabs : Swap(K, Router, None)
  /\ UNCHANGED <<shared, cookie, target, history>>

(* A reload: the saved target, without a ticket.                           *)
Refresh ==
  /\ Ask
  /\ \E i \in page : Swap({i}, IF target = None THEN Router ELSE target, None)
  /\ UNCHANGED <<shared, cookie, target, history>>

(* A page address with ?ticket=, pasted or bookmarked, loaded or reloaded. *)
Bookmark(t) ==
  /\ Ask
  /\ \E K \in Tabs, p \in {Router, target} \ {None} : Swap(K, p, t)
  /\ UNCHANGED <<shared, cookie, target, history>>

(* The connection breaks; the Portal keeps the session for a reconnect.    *)
Drop ==
  /\ Ask
  /\ \A i \in ConnSlot : conn[i].portal # "lost"
  /\ \E i \in page :
       /\ conn[i].portal = "open"
       /\ conn' = [conn EXCEPT ![i].open = FALSE, ![i].portal = "lost",
                               ![i].redirect = None]
       /\ page' = page \ {i}
  /\ UNCHANGED <<shared, cookie, target, history>>

(* The shard_redirect handler.                                             *)
Follow(i) ==
  /\ i \in page /\ conn[i].redirect # None
  /\ Swap({i}, conn[i].redirect.to, conn[i].redirect.ticket)
  /\ target' = conn[i].redirect.to
  /\ UNCHANGED <<shared, cookie, bounds, history>>

-----------------------------------------------------------------------------
(* The Portal: onOpen.  Reading and saving the cookie are one step: the    *)
(* save would overwrite what a disconnect elsewhere wrote in between, as   *)
(* if that disconnect had come before the token changed.                   *)

Opened(c, by_ticket, marked) ==
  [c EXCEPT !.portal = "open", !.server = "synced", !.by_ticket = by_ticket,
            !.ticket = IF by_ticket \/ marked THEN @ ELSE None,
            !.ticket_authed = marked]

(* _mark_ooc_arrival_if_router, on either way in.                          *)
Marked(i) == conn[i].ticket # None /\ conn[i].at = Router

(* 1. The browser is logged in.  Broken connections of the same browser    *)
(* are disconnected; a ticket is not looked at.                            *)
OpenWithSession(i) ==
  /\ conn[i].portal = "opening" /\ cookie.uid
  /\ conn' = [j \in ConnSlot |->
                IF j = i THEN Opened(conn[i], FALSE, Marked(i))
                ELSE IF conn[j].at = conn[i].at /\ conn[j].portal = "lost"
                  THEN Settled([conn[j] EXCEPT !.portal = "gone"])
                  ELSE conn[j]]
  /\ cookie' = [cookie EXCEPT !.token = i]
  /\ UNCHANGED <<shared, browser, bounds, history>>

(* The connection is closed with a last message, if somebody listens.      *)
Reject(i, msg) ==
  conn' = [conn EXCEPT ![i] =
             IF @.open THEN [@ EXCEPT !.portal = "gone", !.redirect = msg]
             ELSE Closed]

(* Mutant: the token alone identifies the ticket.                          *)
GetTicketAnywhere(t, p) == t \in tickets

(* get_ticket: found, and addressed to this process.                       *)
GetTicket(t, p) == t \in tickets /\ issued[t].to = p

(* 2. A valid ticket, which is consumed.                                   *)
OpenWithTicket(i) ==
  /\ conn[i].portal = "opening" /\ ~cookie.uid
  /\ conn[i].ticket # None /\ GetTicket(conn[i].ticket, conn[i].at)
  /\ tickets' = tickets \ {conn[i].ticket}
  /\ conn' = [conn EXCEPT ![i] = Opened(@, TRUE, Marked(i))]
  /\ cookie' = [cookie EXCEPT !.token = i]
  /\ letin' = [letin EXCEPT ![conn[i].ticket] = Append(@, conn[i].at)]
  /\ UNCHANGED <<owner, issued, lastdb, last, menu, browser, bounds, wants>>

(* A ticket that is unknown, for another process, or for another address.  *)
RefuseTicket(i) ==
  /\ conn[i].portal = "opening" /\ ~cookie.uid
  /\ conn[i].ticket # None
  /\ \/ ~GetTicket(conn[i].ticket, conn[i].at) /\ UNCHANGED bounds
     \/ Fault
  /\ Reject(i, None)
  /\ UNCHANGED <<shared, cookie, browser, history>>

(* 3. Neither: the router shows its login screen.                          *)
OpenLoginScreen(i) ==
  /\ conn[i].portal = "opening" /\ ~cookie.uid /\ conn[i].ticket = None
  /\ conn[i].at = Router
  /\ conn' = [conn EXCEPT ![i].portal = "open", ![i].server = "login"]
  /\ cookie' = [cookie EXCEPT !.token = i]
  /\ UNCHANGED <<shared, browser, bounds, history>>

(* Mutant: an orphan is sent back to where it came from.                   *)
OpenOrphanHere(i) ==
  /\ conn[i].portal = "opening" /\ ~cookie.uid /\ conn[i].ticket = None
  /\ conn[i].at \in Shard
  /\ Reject(i, [to |-> conn[i].at, ticket |-> None])
  /\ UNCHANGED <<shared, cookie, browser, bounds, history>>

(* A shard sends the orphan to the router and hangs up.                    *)
OpenOrphan(i) ==
  /\ conn[i].portal = "opening" /\ ~cookie.uid /\ conn[i].ticket = None
  /\ conn[i].at \in Shard
  /\ Reject(i, [to |-> Router, ticket |-> None])
  /\ UNCHANGED <<shared, cookie, browser, bounds, history>>

OnOpen(i) ==
  \/ OpenWithSession(i) \/ OpenWithTicket(i) \/ RefuseTicket(i)
  \/ OpenLoginScreen(i) \/ OpenOrphan(i)

-----------------------------------------------------------------------------
(* The Portal: disconnect, when the browser has closed the socket or the   *)
(* Server has dismissed the session.  It logs the browser out if the       *)
(* browser session still bears the token of this connection.               *)

Disconnect(i) ==
  /\ \/ /\ ~conn[i].open /\ conn[i].portal = "opening"
        /\ conn' = [conn EXCEPT ![i] = Closed]
     \/ /\ \/ ~conn[i].open /\ conn[i].portal = "open"
           \/ conn[i].server = "gone" /\ conn[i].portal \in {"open", "lost"}
        /\ conn' = [conn EXCEPT ![i] =
             Settled([@ EXCEPT !.portal = IF cookie.token = i THEN "clearing" ELSE "gone"])]
  /\ UNCHANGED <<shared, cookie, browser, bounds, history>>

(* Save what was read, less the login, whatever was saved meanwhile.       *)
Clear(i) ==
  /\ conn[i].portal = "clearing"
  /\ conn' = [conn EXCEPT ![i] = Settled([@ EXCEPT !.portal = "gone"])]
  /\ cookie' = [uid |-> FALSE, token |-> None]
  /\ UNCHANGED <<shared, browser, bounds, history>>

(* The Server hears of it, after what it was told before, and unpuppets.   *)
Hangup(i) ==
  /\ conn[i].portal = "gone"
  /\ conn[i].server \in {"login", "menu", "ic", "leaving"}
  /\ conn' = [conn EXCEPT ![i] = Closed]
  /\ UNCHANGED <<shared, cookie, browser, bounds, history>>

-----------------------------------------------------------------------------
(* The Server.                                                             *)

(* account.db._last_puppet as process p reads it.                          *)
LastPuppet(p) == IF last[p] = Unread THEN lastdb ELSE last[p]

Remember(p, c) == last' = [last EXCEPT ![p] = c]

(* An assignment to account.db._last_puppet: the row and p's cache.        *)
SetLastPuppet(p, c) == lastdb' = c /\ Remember(p, c)

(* ObjectDB.objects on p: what the tenant filter admits.                   *)
Visible(p) == {c \in Char : owner[c] = p}

(* create_ticket and the URL of the shard_redirect that carries the token. *)
NewTicket(c, p) ==
  /\ issued' = Append(issued, [char |-> c, to |-> p])
  /\ tickets' = tickets \cup {Len(issued) + 1}
  /\ letin' = Append(letin, <<>>)

Carrying(p) == [to |-> p, ticket |-> Len(issued) + 1]

(* The Portal's at_login, if the connection is still there.                *)
AtLogin(i) ==
  cookie' = IF conn[i].portal \in {"open", "lost"}
              THEN [cookie EXCEPT !.uid = TRUE] ELSE cookie

(* In MULTISESSION_MODE 0 a login dismisses the account's other sessions   *)
(* in this process, which lose their puppets, before at_post_login.        *)
Dismissed(c) == [c EXCEPT !.server = "gone", !.puppet = None, !.attached = FALSE]

LoggedIn(i) ==
  [j \in ConnSlot |->
     IF /\ single /\ j # i /\ conn[j].at = conn[i].at
        /\ conn[j].server \in {"menu", "ic", "leaving"}
       THEN Settled(Dismissed(conn[j])) ELSE conn[j]]

(* Mutant: the menu is shown, and not remembered.                         *)
ShowMenuToArrivalOnce(i) ==
  /\ conn[i].server = "synced" /\ conn[i].at = Router
  /\ auto /\ conn[i].ticket_authed
  /\ conn' = [LoggedIn(i) EXCEPT ![i].server = "menu"]
  /\ AtLogin(i)
  /\ wants' = IF issued[conn[i].ticket].to = Router THEN "menu" ELSE wants
  /\ UNCHANGED <<owner, issued, tickets, letin, lastdb, last, menu, browser, bounds>>

(* The router's at_post_login: the menu and nothing else, where nobody is  *)
(* to be sent on, ...                                                      *)
ShowMenuOnly(i) ==
  /\ conn[i].server = "synced" /\ conn[i].at = Router
  /\ ~auto
  /\ conn' = [LoggedIn(i) EXCEPT ![i].server = "menu"]
  /\ AtLogin(i)
  /\ wants' = IF conn[i].ticket_authed /\ issued[conn[i].ticket].to = Router
                THEN "menu" ELSE wants
  /\ UNCHANGED <<owner, issued, tickets, letin, lastdb, last, menu, browser, bounds>>

(* ... the menu, for a player who comes with a ticket, ...                 *)
ShowMenuToArrival(i) ==
  /\ conn[i].server = "synced" /\ conn[i].at = Router
  /\ auto /\ conn[i].ticket_authed
  /\ menu' = TRUE
  /\ conn' = [LoggedIn(i) EXCEPT ![i].server = "menu"]
  /\ AtLogin(i)
  /\ wants' = IF issued[conn[i].ticket].to = Router THEN "menu" ELSE wants
  /\ UNCHANGED <<owner, issued, tickets, letin, lastdb, last, browser, bounds>>

(* The character is set and has a shard; its row is read afresh.           *)
Redirectable(c) == c # None /\ owner[c] \in Shard

(* ... for one who left for it earlier, has not played yet, or whose       *)
(* character belongs to no shard, ...                                      *)
ShowMenu(i) ==
  /\ conn[i].server = "synced" /\ conn[i].at = Router
  /\ auto /\ ~conn[i].ticket_authed
  /\ menu \/ ~Redirectable(LastPuppet(Router))
  /\ IF menu THEN UNCHANGED last ELSE Remember(Router, LastPuppet(Router))
  /\ conn' = [LoggedIn(i) EXCEPT ![i].server = "menu"]
  /\ AtLogin(i)
  /\ UNCHANGED <<owner, issued, tickets, lastdb, menu, browser, bounds, history>>

(* ... or a redirect to the character's shard.                             *)
SendOn(i) ==
  LET c == LastPuppet(Router)
  IN /\ conn[i].server = "synced" /\ conn[i].at = Router
     /\ auto /\ ~conn[i].ticket_authed /\ ~menu /\ Redirectable(c)
     /\ SetLastPuppet(Router, c)
     /\ NewTicket(c, owner[c])
     /\ conn' = [LoggedIn(i) EXCEPT ![i].server = "leaving",
                             ![i].redirect = Carrying(owner[c])]
     /\ AtLogin(i)
     /\ UNCHANGED <<owner, menu, browser, bounds, wants>>

(* Mutant: the row's visibility is not checked.                            *)
EnterGameAnywhere(i) ==
  LET c == LastPuppet(conn[i].at)
  IN /\ conn[i].server = "synced" /\ conn[i].at \in Shard
     /\ c # None
     /\ Remember(conn[i].at, c)
     /\ conn' = [LoggedIn(i) EXCEPT ![i].server = "ic", ![i].puppet = c,
                                    ![i].attached = TRUE]
     /\ AtLogin(i)
     /\ UNCHANGED <<owner, issued, tickets, lastdb, menu, browser, bounds, history>>

(* A shard's at_post_login: _last_puppet is puppeted.  Its list of sessions *)
(* has been blanked, so that nobody is taken over: another session that    *)
(* plays it goes on, without being listed, ...                             *)
EnterGame(i) ==
  LET c == LastPuppet(conn[i].at)
  IN /\ conn[i].server = "synced" /\ conn[i].at \in Shard
     /\ c \in Visible(conn[i].at)
     /\ Remember(conn[i].at, c)
     /\ conn' = [j \in ConnSlot |->
                   IF j = i
                     THEN [conn[i] EXCEPT !.server = "ic", !.puppet = c, !.attached = TRUE]
                   ELSE IF LoggedIn(i)[j].puppet = c
                     THEN [LoggedIn(i)[j] EXCEPT !.attached = FALSE]
                     ELSE LoggedIn(i)[j]]
     /\ AtLogin(i)
     /\ UNCHANGED <<owner, issued, tickets, lastdb, menu, browser, bounds, history>>

(* ... or is gone from this shard, and forgotten.                          *)
StayOut(i) ==
  LET p == conn[i].at
      c == LastPuppet(p)
  IN /\ conn[i].server = "synced" /\ p \in Shard
     /\ c \notin Visible(p)
     /\ IF c = None THEN Remember(p, None) /\ UNCHANGED lastdb
                    ELSE SetLastPuppet(p, None)
     /\ conn' = [LoggedIn(i) EXCEPT ![i].server = "menu"]
     /\ AtLogin(i)
     /\ UNCHANGED <<owner, issued, tickets, menu, browser, bounds, history>>

PostLogin(i) ==
  \/ ShowMenuOnly(i) \/ ShowMenuToArrival(i) \/ ShowMenu(i) \/ SendOn(i)
  \/ EnterGame(i) \/ StayOut(i)

(* The login form of the router.                                           *)
Login(i) ==
  /\ i \in page /\ conn[i].portal = "open" /\ conn[i].server = "login"
  /\ conn' = [conn EXCEPT ![i].server = "synced"]
  /\ UNCHANGED <<shared, cookie, browser, bounds, history>>

(* ShardAwareCmdIC on the router; without a shard it only says so.         *)
IC(i, c) ==
  /\ Ask
  /\ Redirectable(c)
  /\ i \in page /\ conn[i].redirect = None /\ conn[i].portal = "open"
  /\ conn[i].at = Router /\ conn[i].server = "menu"
  /\ menu' = FALSE
  /\ SetLastPuppet(Router, c)
  /\ NewTicket(c, owner[c])
  /\ conn' = [conn EXCEPT ![i].server = "leaving",
                          ![i].redirect = Carrying(owner[c])]
  /\ wants' = "play"
  /\ UNCHANGED <<owner, cookie, browser>>

(* ShardAwareCmdOOC, or any other caller of redirect_to_router, on a shard.*)
OOC(i) ==
  /\ Ask
  /\ i \in page /\ conn[i].redirect = None /\ conn[i].portal = "open"
  /\ conn[i].at \in Shard /\ conn[i].server \in {"ic", "menu"}
  /\ NewTicket(IF conn[i].puppet # None THEN conn[i].puppet
               ELSE LastPuppet(conn[i].at), Router)
  /\ conn' = [conn EXCEPT ![i].redirect = Carrying(Router)]
  /\ UNCHANGED <<owner, lastdb, last, menu, cookie, browser, wants>>

(* cross_shard_move of c to shard s, as module Handoff says it ends, with  *)
(* the sessions that the character lists.                                  *)
Move(c, s) ==
  LET K == {i \in ConnSlot : conn[i].puppet = c /\ conn[i].attached}
  IN /\ Ask
     /\ owner[c] \in Shard \ {s}
     /\ owner' = [owner EXCEPT ![c] = s]
     /\ IF K = {}
          THEN UNCHANGED <<issued, tickets, letin, lastdb, last, conn>>
          ELSE /\ SetLastPuppet(owner[c], c)
               /\ NewTicket(c, s)
               /\ conn' = [i \in ConnSlot |->
                     IF i \in K
                       THEN [conn[i] EXCEPT !.server = "leaving", !.puppet = None,
                               !.attached = FALSE,
                               !.redirect = IF conn[i].open /\ @ = None
                                              THEN Carrying(s) ELSE @]
                       ELSE conn[i]]
     /\ UNCHANGED <<menu, cookie, browser, wants>>

(* A process that is in use is restarted: connections and caches are gone. *)
Restart(p) ==
  /\ Fault
  /\ last[p] # Unread
  /\ last' = [last EXCEPT ![p] = Unread]
  /\ conn' = [i \in ConnSlot |->
                IF conn[i].at # p THEN conn[i]
                ELSE IF i \in page
                  THEN [Closed EXCEPT !.at = p, !.open = TRUE]
                  ELSE Closed]
  /\ UNCHANGED <<owner, issued, tickets, lastdb, menu, cookie, browser, history>>

-----------------------------------------------------------------------------
(* What programs do on their own, and what people make them do.            *)
Step(i) ==
  \/ OnOpen(i) \/ PostLogin(i) \/ Follow(i)
  \/ Disconnect(i) \/ Clear(i) \/ Hangup(i)

Wish ==
  \/ Navigate \/ Refresh \/ Drop
  \/ \E t \in 1..Len(issued) : Bookmark(t)
  \/ \E i \in ConnSlot : Login(i) \/ OOC(i) \/ \E c \in Char : IC(i, c)
  \/ \E c \in Char, s \in Shard : Move(c, s)

Next ==
  \/ \E i \in ConnSlot : Step(i)
  \/ Wish
  \/ \E p \in Process : Restart(p)

Spec == Init /\ [][Next]_vars

(* Portals, Servers and the page's script go on with what has begun.       *)
Fairness == WF_vars(\E i \in ConnSlot : Step(i))

FairSpec == Spec /\ Fairness

-----------------------------------------------------------------------------
(* PROPERTIES *)

(* A connection controls a character only on the shard that owns it, even  *)
(* when the character moved while the player was on the way, and however   *)
(* old what this process remembers of the account is; except, outside      *)
(* MULTISESSION_MODE 0, one that a later login of the account in the same  *)
(* process has pushed off the character's list of sessions.                *)
PuppetOnOwner ==
  \A i \in ConnSlot :
    conn[i].puppet # None =>
      IF conn[i].attached THEN owner[conn[i].puppet] = conn[i].at ELSE ~single

(* A ticket lets one connection in, at the process it was issued for, also *)
(* when its address is bookmarked, reloaded or sent to another process.    *)
TicketOnce ==
  \A t \in 1..Len(issued) : letin[t] \in {<<>>, <<issued[t].to>>}

(* A player whom an ooc has brought to the menu stays there, through       *)
(* reloads, new logins and restarts, until the next ic: the router sends   *)
(* nobody on who has not asked for it.                                     *)
NoBounce ==
  [][\A i \in ConnSlot :
       conn[i].server = "synced" /\ conn'[i].server = "leaving"
         => wants = "play"]_vars

(* Redirects come to an end: a tab ends up in the game, at the menu, at    *)
(* the login form, or with a connection that was refused or cut.           *)
Landed ==
  \A i \in page :
    /\ conn[i].redirect = None
    /\ conn[i].server \in {"login", "menu", "ic"} \/ conn[i].portal = "gone"

Lands == []<>Landed

(* The character that a ticket names is the one that its bearer controls,  *)
(* as long as the account's row still names it too.                        *)
ArrivesAsTicketed ==
  \A i \in ConnSlot :
    LET c == issued[conn[i].ticket].char
    IN conn[i].by_ticket /\ conn[i].puppet # None /\ lastdb = c
         => conn[i].puppet = c

=============================================================================
