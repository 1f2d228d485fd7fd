---------------------------- MODULE SessionProofs ----------------------------
(***************************************************************************)
(* Theorems about Session for every set of shards and characters, every    *)
(* number of connections, and any number of wishes and restarts.           *)
(***************************************************************************)
EXTENDS Session, SequenceTheorems, TLAPS

(* Only a Server that is in the game holds a character, which its process  *)
(* owns if the character lists the session, as it does in MULTISESSION_MODE*)
(* 0; and a Portal that is still opening has told its Server nothing.      *)
ConnOK(c) ==
  /\ c \in Conn
  /\ c.puppet # None =>
       /\ c.server = "ic"
       /\ c.attached => owner[c.puppet] = c.at
       /\ single => c.attached
  /\ c.portal = "opening" => c.server = "none"

Connections == conn \in [ConnSlot -> Conn] /\ \A i \in ConnSlot : ConnOK(conn[i])

(* A ticket that is in the table has let nobody in yet.                    *)
Tickets ==
  /\ issued \in Seq(Ticket) /\ tickets \subseteq 1..Len(issued)
  /\ letin \in Seq(Seq(Process)) /\ Len(letin) = Len(issued)
  /\ \A t \in 1..Len(issued) :
       letin[t] \in IF t \in tickets THEN {<<>>} ELSE {<<>>, <<issued[t].to>>}

(* A player who was brought to the menu has the mark of it on the account. *)
MenuKept == auto /\ wants = "menu" => menu

(* The rest of the type invariant.                                         *)
Account ==
  /\ owner \in [Char -> Shard \cup {None}] /\ auto \in BOOLEAN /\ single \in BOOLEAN
  /\ lastdb \in Char \cup {None} /\ last \in [Process -> Char \cup {None, Unread}]
  /\ menu \in BOOLEAN /\ wants \in {"play", "menu"}

Browser ==
  /\ cookie \in [uid : BOOLEAN, token : ConnSlot \cup {None}]
  /\ page \subseteq ConnSlot /\ target \in Process \cup {None}

Bounds == asks \in 0..MaxAsks /\ faults \in 0..MaxFaults

SessionInv ==
  Connections /\ Tickets /\ MenuKept /\ Account /\ Browser /\ Bounds

-----------------------------------------------------------------------------
(* What becomes of a connection in a step that neither puppets a character *)
(* nor sends a player on: if it still holds a character, it is the same    *)
(* one, in the same process, and as it was listed there.                   *)
Kept(c, d) ==
  /\ d \in Conn
  /\ d.puppet # None =>
       /\ c.puppet = d.puppet /\ c.at = d.at /\ d.server = "ic"
       /\ c.attached = d.attached
  /\ d.portal = "opening" => d.server = "none"
  /\ c.server = "synced" => d.server # "leaving"

AllKept ==
  conn' \in [ConnSlot -> Conn] /\ \A i \in ConnSlot : Kept(conn[i], conn'[i])

LEMMA SameKept == ASSUME NEW c, ConnOK(c) PROVE Kept(c, c)
BY DEF Kept, ConnOK

LEMMA FreshConn ==
  ASSUME NEW p \in Process, NEW t \in Nat \cup {None}, NEW c
  PROVE  Fresh(p, t) \in Conn /\ Kept(c, Fresh(p, t))
BY DEF Fresh, Conn, Kept

LEMMA ClosedConn == ASSUME NEW c PROVE Closed \in Conn /\ Kept(c, Closed)
BY FreshConn DEF Closed, Fresh, Conn, Process, Kept

LEMMA SettledKept ==
  ASSUME NEW c, NEW d, Kept(c, d)
  PROVE  Kept(c, Settled(d))
<1>1. Settled(d) = Closed \/ Settled(d) = d BY DEF Settled
<1>2. QED BY <1>1, ClosedConn

LEMMA LeftConn ==
  ASSUME NEW c, ConnOK(c)
  PROVE  Kept(c, Left(c))
<1>1. Kept(c, [c EXCEPT !.open = FALSE, !.redirect = None])
  BY DEF Kept, Conn, ConnOK
<1>2. QED BY <1>1, SettledKept DEF Left

LEMMA OpenedConn ==
  ASSUME NEW c, ConnOK(c), c.portal = "opening",
         NEW b \in BOOLEAN, NEW m \in BOOLEAN
  PROVE  Kept(c, Opened(c, b, m))
BY DEF Kept, Opened, Conn, ConnOK

(* A change of one connection.                                             *)
LEMMA OneKept ==
  ASSUME Connections, NEW i \in ConnSlot, NEW d, Kept(conn[i], d),
         conn' = [conn EXCEPT ![i] = d]
  PROVE  AllKept
<1>1. conn' \in [ConnSlot -> Conn] BY DEF Connections, Kept
<1>2. ASSUME NEW j \in ConnSlot PROVE Kept(conn[j], conn'[j])
  <2>1. Kept(conn[j], conn[j]) BY SameKept DEF Connections
  <2>2. QED BY <2>1 DEF Connections
<1>3. QED BY <1>1, <1>2 DEF AllKept

(* A tab leaves its connection, if it has one, for a new one.              *)
LEMMA SwapKept ==
  ASSUME Connections, page \subseteq ConnSlot,
         NEW K, NEW p \in Process, NEW t \in Nat \cup {None}, Swap(K, p, t)
  PROVE  AllKept /\ page' \subseteq ConnSlot
<1> PICK n \in ConnSlot :
           /\ conn' = [i \in ConnSlot |->
                         IF i = n THEN Fresh(p, t)
                         ELSE IF i \in K THEN Left(conn[i]) ELSE conn[i]]
           /\ page' = (page \ K) \cup {n}
  BY DEF Swap
<1>1. ASSUME NEW i \in ConnSlot PROVE Kept(conn[i], conn'[i])
  <2>1. ConnOK(conn[i]) BY DEF Connections
  <2>2. /\ Kept(conn[i], Fresh(p, t)) /\ Kept(conn[i], Left(conn[i]))
        /\ Kept(conn[i], conn[i])
    BY <2>1, FreshConn, LeftConn, SameKept
  <2>3. QED BY <2>2
<1>2. conn' \in [ConnSlot -> Conn] BY <1>1 DEF Kept
<1>3. QED BY <1>1, <1>2 DEF AllKept

(* With the owners as they were, such a step keeps what holds of the       *)
(* connections.                                                            *)
LEMMA KeptConnections ==
  ASSUME Connections, AllKept, UNCHANGED <<owner, single>>
  PROVE  Connections'
<1>1. ASSUME NEW i \in ConnSlot PROVE ConnOK(conn[i])'
  BY DEF Connections, AllKept, Kept, ConnOK
<1>2. QED BY <1>1 DEF Connections, AllKept

(* A ticket is created, ...                                                *)
LEMMA NewTicketTickets ==
  ASSUME Tickets, NEW c \in Char \cup {None}, NEW p \in Process, NewTicket(c, p)
  PROVE  Tickets' /\ Carrying(p) \in Target
<1> DEFINE n == Len(issued)
<1>1. /\ n \in Nat /\ Len(letin) = n /\ [char |-> c, to |-> p] \in Ticket
      /\ <<>> \in Seq(Process)
  BY EmptySeq DEF Tickets, Ticket
<1>2. /\ issued' \in Seq(Ticket) /\ Len(issued') = n + 1
      /\ \A t \in 1..n : issued'[t] = issued[t]
  BY <1>1, AppendProperties DEF Tickets, NewTicket
<1>3. /\ letin' \in Seq(Seq(Process)) /\ Len(letin') = n + 1
      /\ \A t \in 1..n : letin'[t] = letin[t]
      /\ letin'[n + 1] = <<>>
  BY <1>1, AppendProperties DEF Tickets, NewTicket
<1>4. tickets' = tickets \cup {n + 1} /\ tickets \subseteq 1..n
  BY DEF Tickets, NewTicket
<1>5. tickets' \subseteq 1..(n + 1)
  <2> HIDE DEF n
  <2>1. ASSUME NEW t \in 1..n PROVE t \in 1..(n + 1) BY <1>1
  <2>2. n + 1 \in 1..(n + 1) BY <1>1
  <2>3. QED BY <1>4, <2>1, <2>2
<1>6. ASSUME NEW t \in 1..(n + 1)
      PROVE  letin'[t] \in IF t \in tickets' THEN {<<>>}
                           ELSE {<<>>, <<issued'[t].to>>}
  <2>1. CASE t = n + 1 BY <1>3, <2>1
  <2>2. CASE t \in 1..n
    <3>1. t \in tickets' <=> t \in tickets BY <1>1, <1>4, <2>2
    <3>2. QED BY <1>2, <1>3, <2>2, <3>1 DEF Tickets
  <2>3. QED BY <1>1, <2>1, <2>2
<1>7. Tickets' BY <1>2, <1>3, <1>5, <1>6 DEF Tickets
<1>8. QED BY <1>1, <1>7 DEF Carrying, Target

(* ... or consumed.                                                        *)
LEMMA ConsumedTickets ==
  ASSUME Tickets, NEW t, NEW p \in Process, GetTicket(t, p),
         tickets' = tickets \ {t}, letin' = [letin EXCEPT ![t] = Append(@, p)],
         UNCHANGED issued
  PROVE  Tickets'
<1>1. /\ t \in 1..Len(issued) /\ letin[t] = <<>> /\ issued[t].to = p
      /\ letin \in Seq(Seq(Process)) /\ Len(letin) = Len(issued)
  BY DEF Tickets, GetTicket
<1>2. letin' = [letin EXCEPT ![t] = <<p>>] /\ <<p>> \in Seq(Process)
  <2>1. Append(letin[t], p) = <<p>> BY <1>1
  <2>2. QED BY <2>1
<1>3. /\ letin' \in Seq(Seq(Process)) /\ Len(letin') = Len(letin)
      /\ letin'[t] = <<p>>
      /\ \A r \in 1..Len(issued) \ {t} : letin'[r] = letin[r]
  BY <1>1, <1>2, ExceptSeq
<1>4. ASSUME NEW r \in 1..Len(issued)
      PROVE  letin'[r] \in IF r \in tickets' THEN {<<>>}
                           ELSE {<<>>, <<issued[r].to>>}
  <2>1. CASE r = t BY <1>1, <1>3, <2>1
  <2>2. CASE r # t BY <1>3, <2>2 DEF Tickets
  <2>3. QED BY <2>1, <2>2
<1>5. QED BY <1>1, <1>3, <1>4 DEF Tickets

LEMMA LastChar ==
  ASSUME Account, NEW p \in Process
  PROVE  LastPuppet(p) \in Char \cup {None}
BY DEF Account, LastPuppet

-----------------------------------------------------------------------------
(* A step that only concerns connections, the cookie and the page.         *)
LEMMA QuietInv ==
  ASSUME SessionInv, AllKept, UNCHANGED <<shared, auto, single, history>>,
         Browser', Bounds'
  PROVE  SessionInv'
<1>1. Connections' BY KeptConnections DEF SessionInv, shared
<1>2. Tickets' BY DEF SessionInv, Tickets, shared, history
<1>3. MenuKept' /\ Account' BY DEF SessionInv, MenuKept, Account, shared, history
<1>4. QED BY <1>1, <1>2, <1>3 DEF SessionInv

LEMMA AskBounds == Bounds /\ Ask => Bounds' /\ UNCHANGED <<auto, single>>
BY SessionAssumption DEF Bounds, Ask, SessionAssumption, setup

LEMMA FaultBounds == Bounds /\ Fault => Bounds' /\ UNCHANGED <<auto, single>>
BY SessionAssumption DEF Bounds, Fault, SessionAssumption, setup

LEMMA SameBounds == Bounds /\ UNCHANGED bounds => Bounds' /\ UNCHANGED <<auto, single>>
BY DEF Bounds, bounds, setup

(* A tab opens another socket.                                          *)
LEMMA SwapInv ==
  ASSUME SessionInv, NEW K, NEW p \in Process, NEW t \in Nat \cup {None},
         Swap(K, p, t),
         target' \in Process \cup {None}, UNCHANGED <<shared, auto, single, cookie, history>>,
         Bounds'
  PROVE  AllKept /\ SessionInv'
<1>1. AllKept /\ page' \subseteq ConnSlot BY SwapKept DEF SessionInv, Browser
<1>2. Browser' BY <1>1 DEF SessionInv, Browser
<1>3. QED BY <1>1, <1>2, QuietInv

LEMMA PageInv ==
  ASSUME SessionInv,
         \/ Navigate \/ Refresh
         \/ \E t \in 1..Len(issued) : Bookmark(t)
         \/ \E i \in ConnSlot : Follow(i)
  PROVE  AllKept /\ SessionInv'
<1>1. /\ Router \in Process /\ target \in Process \cup {None} /\ Bounds
      /\ 1..Len(issued) \subseteq Nat
  BY DEF SessionInv, Browser, Process, Tickets
<1>2. CASE Navigate BY <1>1, <1>2, AskBounds, SwapInv DEF Navigate
<1>3. CASE Refresh
  <2> PICK i \in page : Swap({i}, IF target = None THEN Router ELSE target, None)
    BY <1>3 DEF Refresh
  <2>1. (IF target = None THEN Router ELSE target) \in Process BY <1>1
  <2>2. QED BY <1>1, <1>3, <2>1, AskBounds, SwapInv DEF Refresh
<1>4. ASSUME NEW t \in 1..Len(issued), Bookmark(t) PROVE AllKept /\ SessionInv'
  <2> PICK K \in Tabs, p \in {Router, target} \ {None} : Swap(K, p, t)
    BY <1>4 DEF Bookmark
  <2>1. p \in Process /\ t \in Nat BY <1>1
  <2>2. QED BY <1>1, <1>4, <2>1, AskBounds, SwapInv DEF Bookmark
<1>5. ASSUME NEW i \in ConnSlot, Follow(i) PROVE AllKept /\ SessionInv'
  <2>1. conn[i].redirect \in Target
    BY <1>5 DEF Follow, SessionInv, Connections, ConnOK, Conn
  <2>2. /\ conn[i].redirect.to \in Process
        /\ conn[i].redirect.ticket \in Nat \cup {None}
    BY <2>1 DEF Target
  <2>3. UNCHANGED <<auto, single>> /\ Bounds' BY <1>1, <1>5, SameBounds DEF Follow
  <2>4. QED BY <1>5, <2>2, <2>3, SwapInv DEF Follow
<1>6. QED BY <1>2, <1>3, <1>4, <1>5

LEMMA DropInv ==
  ASSUME SessionInv, Drop
  PROVE  AllKept /\ SessionInv'
<1> PICK i \in page :
      /\ conn[i].portal = "open"
      /\ conn' = [conn EXCEPT ![i].open = FALSE, ![i].portal = "lost",
                              ![i].redirect = None]
      /\ page' = page \ {i}
  BY DEF Drop
<1> DEFINE d == [conn[i] EXCEPT !.open = FALSE, !.portal = "lost", !.redirect = None]
<1>1. i \in ConnSlot /\ ConnOK(conn[i]) /\ conn[i].portal = "open"
  BY DEF SessionInv, Browser, Connections
<1>2. Kept(conn[i], d) BY <1>1 DEF ConnOK, Kept, Conn
<1>3. conn' = [conn EXCEPT ![i] = d] BY <1>1 DEF SessionInv, Connections
<1> HIDE DEF d
<1>4. AllKept BY <1>1, <1>2, <1>3, OneKept DEF SessionInv
<1>5. Browser' BY DEF SessionInv, Browser, Drop
<1>6. QED BY <1>4, <1>5, QuietInv, AskBounds DEF Drop, SessionInv

-----------------------------------------------------------------------------
(* The Portal.                                                             *)
LEMMA OpenWithSessionInv ==
  ASSUME SessionInv, NEW i \in ConnSlot, OpenWithSession(i)
  PROVE  AllKept /\ SessionInv'
<1>1. ASSUME NEW j \in ConnSlot PROVE Kept(conn[j], conn'[j])
  <2>1. ConnOK(conn[j]) BY DEF SessionInv, Connections
  <2>2. CASE j = i
    <3>1. conn'[j] = Opened(conn[i], FALSE, Marked(i))
      BY <2>2 DEF OpenWithSession
    <3>2. Marked(i) \in BOOLEAN BY DEF Marked
    <3>3. QED BY <2>1, <2>2, <3>1, <3>2, OpenedConn DEF OpenWithSession
  <2>3. CASE j # i /\ conn'[j] = conn[j] BY <2>1, <2>3, SameKept
  <2>4. CASE j # i /\ conn'[j] = Settled([conn[j] EXCEPT !.portal = "gone"])
    <3>1. Kept(conn[j], [conn[j] EXCEPT !.portal = "gone"])
      BY <2>1 DEF ConnOK, Kept, Conn
    <3>2. QED BY <2>4, <3>1, SettledKept
  <2>5. QED BY <2>2, <2>3, <2>4 DEF OpenWithSession
<1>2. conn' \in [ConnSlot -> Conn] BY <1>1 DEF OpenWithSession, Kept
<1>3. AllKept BY <1>1, <1>2 DEF AllKept
<1>4. Browser' BY DEF SessionInv, Browser, OpenWithSession, browser
<1>5. QED BY <1>3, <1>4, QuietInv, SameBounds DEF OpenWithSession, SessionInv

LEMMA RejectKept ==
  ASSUME Connections, NEW i \in ConnSlot, conn[i].portal = "opening",
         NEW msg \in Target \cup {None}, Reject(i, msg)
  PROVE  AllKept
<1>1. ConnOK(conn[i]) BY DEF Connections
<1>2. CASE conn' = [conn EXCEPT ![i] = Closed]
  BY <1>2, ClosedConn, OneKept
<1>3. CASE conn' = [conn EXCEPT ![i] =
                      [conn[i] EXCEPT !.portal = "gone", !.redirect = msg]]
  <2>1. Kept(conn[i], [conn[i] EXCEPT !.portal = "gone", !.redirect = msg])
    BY <1>1 DEF ConnOK, Kept, Conn
  <2>2. QED BY <1>3, <2>1, OneKept
<1>4. QED BY <1>2, <1>3 DEF Reject, Connections

LEMMA RefusedInv ==
  ASSUME SessionInv, NEW i \in ConnSlot, RefuseTicket(i) \/ OpenOrphan(i)
  PROVE  AllKept /\ SessionInv'
<1>1. AllKept
  <2>1. [to |-> Router, ticket |-> None] \in Target BY DEF Target, Process
  <2>2. QED BY <2>1, RejectKept DEF RefuseTicket, OpenOrphan, SessionInv
<1>2. Browser' BY DEF SessionInv, Browser, RefuseTicket, OpenOrphan, browser
<1>3. Bounds' /\ UNCHANGED <<auto, single>>
  BY FaultBounds, SameBounds DEF RefuseTicket, OpenOrphan, SessionInv
<1>4. QED BY <1>1, <1>2, <1>3, QuietInv DEF RefuseTicket, OpenOrphan

LEMMA OpenWithTicketInv ==
  ASSUME SessionInv, NEW i \in ConnSlot, OpenWithTicket(i)
  PROVE  AllKept /\ SessionInv'
<1> DEFINE d == Opened(conn[i], TRUE, Marked(i))
<1>1. ConnOK(conn[i]) /\ conn[i].at \in Process
  BY DEF SessionInv, Connections, ConnOK, Conn
<1>2. Kept(conn[i], d)
  <2>1. Marked(i) \in BOOLEAN BY DEF Marked
  <2>2. QED BY <1>1, <2>1, OpenedConn DEF OpenWithTicket
<1>3. conn' = [conn EXCEPT ![i] = d]
  BY DEF SessionInv, Connections, OpenWithTicket
<1> HIDE DEF d
<1>4. AllKept BY <1>2, <1>3, OneKept DEF SessionInv
<1>5. Connections'
  BY <1>4, KeptConnections DEF SessionInv, OpenWithTicket, bounds, setup
<1>6. Tickets' BY <1>1, ConsumedTickets DEF SessionInv, OpenWithTicket
<1>7. MenuKept' /\ Account' /\ Browser' /\ Bounds'
  BY DEF SessionInv, MenuKept, Account, Browser, Bounds, OpenWithTicket, browser,
         bounds, setup
<1>8. QED BY <1>4, <1>5, <1>6, <1>7 DEF SessionInv

(* Steps of one connection that change neither its at nor its puppet.      *)
LEMMA PortalInv ==
  ASSUME SessionInv, NEW i \in ConnSlot,
         OpenLoginScreen(i) \/ Disconnect(i) \/ Clear(i) \/ Hangup(i) \/ Login(i)
  PROVE  AllKept /\ SessionInv'
<1>1. ConnOK(conn[i]) BY DEF SessionInv, Connections
<1>2. PICK d : conn' = [conn EXCEPT ![i] = d] /\ Kept(conn[i], d)
  <2>1. CASE conn' = [conn EXCEPT ![i] = Closed] BY <2>1, ClosedConn
  <2>2. CASE OpenLoginScreen(i)
    <3>1. conn' = [conn EXCEPT ![i] =
                     [conn[i] EXCEPT !.portal = "open", !.server = "login"]]
      BY <2>2 DEF OpenLoginScreen, SessionInv, Connections
    <3>2. Kept(conn[i], [conn[i] EXCEPT !.portal = "open", !.server = "login"])
      BY <1>1, <2>2 DEF OpenLoginScreen, ConnOK, Kept, Conn
    <3>3. QED BY <3>1, <3>2
  <2>3. CASE \E q \in {"clearing", "gone"} :
               conn' = [conn EXCEPT ![i] = Settled([@ EXCEPT !.portal = q])]
    <3> PICK q \in {"clearing", "gone"} :
          conn' = [conn EXCEPT ![i] = Settled([@ EXCEPT !.portal = q])]
      BY <2>3
    <3>1. conn' = [conn EXCEPT ![i] = Settled([conn[i] EXCEPT !.portal = q])]
      BY DEF SessionInv, Connections
    <3>2. Kept(conn[i], [conn[i] EXCEPT !.portal = q])
      BY <1>1 DEF ConnOK, Kept, Conn
    <3>3. QED BY <3>1, <3>2, SettledKept
  <2>4. CASE Login(i)
    <3>1. conn' = [conn EXCEPT ![i] = [conn[i] EXCEPT !.server = "synced"]]
      BY <2>4 DEF Login, SessionInv, Connections
    <3>2. Kept(conn[i], [conn[i] EXCEPT !.server = "synced"])
      BY <1>1, <2>4 DEF Login, ConnOK, Kept, Conn
    <3>3. QED BY <3>1, <3>2
  <2>5. CASE Disconnect(i) BY <2>1, <2>3, <2>5 DEF Disconnect
  <2>6. QED BY <2>1, <2>2, <2>3, <2>4, <2>5 DEF Clear, Hangup
<1>3. AllKept BY <1>2, OneKept DEF SessionInv
<1>4. Browser'
  <2>1. UNCHANGED browser
    BY DEF OpenLoginScreen, Disconnect, Clear, Hangup, Login
  <2>2. \/ UNCHANGED cookie \/ cookie' = [cookie EXCEPT !.token = i]
        \/ cookie' = [uid |-> FALSE, token |-> None]
    BY DEF OpenLoginScreen, Disconnect, Clear, Hangup, Login
  <2>3. cookie' \in [uid : BOOLEAN, token : ConnSlot \cup {None}]
    <3>1. cookie \in [uid : BOOLEAN, token : ConnSlot \cup {None}]
      BY DEF SessionInv, Browser
    <3>2. CASE UNCHANGED cookie BY <3>1, <3>2
    <3>3. CASE cookie' = [cookie EXCEPT !.token = i] BY <3>1, <3>3
    <3>4. CASE cookie' = [uid |-> FALSE, token |-> None] BY <3>4
    <3>5. QED BY <2>2, <3>2, <3>3, <3>4
  <2>4. QED BY <2>1, <2>3 DEF SessionInv, Browser, browser
<1>5. UNCHANGED <<shared, history, bounds>>
  BY DEF OpenLoginScreen, Disconnect, Clear, Hangup, Login
<1>6. QED BY <1>3, <1>4, <1>5, QuietInv, SameBounds DEF SessionInv

-----------------------------------------------------------------------------
(* The Server.                                                             *)
LEMMA AtLoginBrowser ==
  ASSUME Browser, NEW i, AtLogin(i), UNCHANGED browser
  PROVE  Browser'
BY DEF Browser, AtLogin, browser

(* Whoever a login dismisses holds nothing any more, and in                *)
(* MULTISESSION_MODE 0 nobody is left in the process who plays.            *)
LEMMA LoggedInKept ==
  ASSUME Connections, NEW i \in ConnSlot
  PROVE  /\ LoggedIn(i) \in [ConnSlot -> Conn]
         /\ LoggedIn(i)[i] = conn[i]
         /\ \A j \in ConnSlot :
              /\ Kept(conn[j], LoggedIn(i)[j])
              /\ single /\ j # i /\ conn[j].at = conn[i].at
                   => LoggedIn(i)[j].puppet = None
<1>1. ASSUME NEW j \in ConnSlot
      PROVE  /\ Kept(conn[j], LoggedIn(i)[j])
             /\ single /\ j # i /\ conn[j].at = conn[i].at
                  => LoggedIn(i)[j].puppet = None
  <2>1. ConnOK(conn[j]) BY DEF Connections
  <2>2. CASE /\ single /\ j # i /\ conn[j].at = conn[i].at
             /\ conn[j].server \in {"menu", "ic", "leaving"}
    <3>1. LoggedIn(i)[j] = Settled(Dismissed(conn[j])) BY <2>2 DEF LoggedIn
    <3>2. Kept(conn[j], Dismissed(conn[j])) /\ Dismissed(conn[j]).puppet = None
      BY <2>1, <2>2 DEF Dismissed, Kept, Conn, ConnOK
    <3>3. Closed.puppet = None BY DEF Closed, Fresh
    <3> QED BY <3>1, <3>2, <3>3, SettledKept DEF Settled
  <2>3. CASE ~(/\ single /\ j # i /\ conn[j].at = conn[i].at
               /\ conn[j].server \in {"menu", "ic", "leaving"})
    <3>1. LoggedIn(i)[j] = conn[j] BY <2>3 DEF LoggedIn
    <3> QED BY <2>1, <2>3, <3>1, SameKept DEF ConnOK
  <2> QED BY <2>2, <2>3
<1>2. LoggedIn(i) \in [ConnSlot -> Conn] BY <1>1 DEF Kept, LoggedIn
<1> QED BY <1>1, <1>2 DEF LoggedIn

LEMMA LoginKept ==
  ASSUME Connections, NEW i \in ConnSlot, NEW d, Kept(conn[i], d),
         conn' = [LoggedIn(i) EXCEPT ![i] = d]
  PROVE  AllKept
<1>1. /\ LoggedIn(i) \in [ConnSlot -> Conn]
      /\ \A j \in ConnSlot : Kept(conn[j], LoggedIn(i)[j])
  BY LoggedInKept
<1>2. conn' \in [ConnSlot -> Conn] BY <1>1 DEF Kept
<1>3. ASSUME NEW j \in ConnSlot PROVE Kept(conn[j], conn'[j]) BY <1>1
<1> QED BY <1>2, <1>3 DEF AllKept

(* A post-login that ends at a menu.                                       *)
LEMMA MenuShownInv ==
  ASSUME SessionInv, NEW i \in ConnSlot,
         ShowMenuOnly(i) \/ ShowMenuToArrival(i) \/ ShowMenu(i) \/ StayOut(i)
  PROVE  AllKept /\ SessionInv'
<1> DEFINE d == [conn[i] EXCEPT !.server = "menu"]
<1>1. ConnOK(conn[i]) /\ conn[i].server = "synced" /\ conn[i].at \in Process
  BY DEF SessionInv, Connections, ConnOK, Conn, ShowMenuOnly, ShowMenuToArrival,
         ShowMenu, StayOut
<1>2. Kept(conn[i], d) BY <1>1 DEF ConnOK, Kept, Conn
<1>3. conn' = [LoggedIn(i) EXCEPT ![i] = d]
  <2>1. LoggedIn(i)[i] = conn[i] BY LoggedInKept DEF SessionInv
  <2>2. conn' = [LoggedIn(i) EXCEPT ![i].server = "menu"]
    BY DEF ShowMenuOnly, ShowMenuToArrival, ShowMenu, StayOut
  <2> QED BY <2>1, <2>2
<1> HIDE DEF d
<1>4. AllKept BY <1>2, <1>3, LoginKept DEF SessionInv
<1>5. /\ UNCHANGED <<owner, issued, tickets, letin, browser, bounds>> /\ AtLogin(i)
  BY DEF ShowMenuOnly, ShowMenuToArrival, ShowMenu, StayOut, history
<1>6. Connections' BY <1>4, <1>5, KeptConnections DEF SessionInv, bounds, setup
<1>7. Tickets' BY <1>5 DEF SessionInv, Tickets
<1>8. Browser' /\ Bounds' /\ UNCHANGED <<auto, single>>
  BY <1>5, AtLoginBrowser, SameBounds DEF SessionInv
<1>9. MenuKept' /\ menu' \in BOOLEAN /\ wants' \in {"play", "menu"}
  BY <1>8 DEF SessionInv, MenuKept, Account, ShowMenuOnly, ShowMenuToArrival,
              ShowMenu, StayOut, history
<1>10. Account'
  <2>1. LastPuppet(Router) \in Char \cup {None}
    BY LastChar DEF SessionInv, Process
  <2>2. /\ last' \in [Process -> Char \cup {None, Unread}]
        /\ lastdb' \in Char \cup {None}
    <3>1. CASE UNCHANGED <<lastdb, last>> BY <3>1 DEF SessionInv, Account
    <3>2. CASE \E p \in Process, c \in Char \cup {None} :
                 Remember(p, c) /\ lastdb' \in {lastdb, None}
      BY <3>2 DEF SessionInv, Account, Remember
    <3>3. CASE ShowMenuOnly(i) \/ ShowMenuToArrival(i)
      BY <3>1, <3>3 DEF ShowMenuOnly, ShowMenuToArrival
    <3>4. CASE ShowMenu(i)
      <4>1. UNCHANGED lastdb /\ (UNCHANGED last \/ Remember(Router, LastPuppet(Router)))
        BY <3>4 DEF ShowMenu
      <4>2. QED BY <2>1, <3>1, <3>2, <4>1 DEF Process
    <3>5. CASE StayOut(i)
      <4>1. Remember(conn[i].at, None) /\ lastdb' \in {lastdb, None}
        BY <3>5 DEF StayOut, SetLastPuppet
      <4>2. QED BY <1>1, <3>2, <4>1
    <3>6. QED BY <3>3, <3>4, <3>5
  <2>3. QED BY <1>5, <1>8, <1>9, <2>2 DEF SessionInv, Account
<1>11. QED BY <1>4, <1>6, <1>7, <1>8, <1>9, <1>10 DEF SessionInv

LEMMA LastSet ==
  ASSUME Account, NEW p \in Process, NEW c \in Char \cup {None}, Remember(p, c)
  PROVE  last' \in [Process -> Char \cup {None, Unread}]
BY DEF Account, Remember

(* A character is puppeted: it is on this shard.  Another connection that  *)
(* plays it is listed no more, which MULTISESSION_MODE 0 excludes.         *)
LEMMA EnterGameInv ==
  ASSUME SessionInv, NEW i \in ConnSlot, EnterGame(i)
  PROVE  /\ SessionInv'
         /\ \A j \in ConnSlot :
              ~(conn[j].server = "synced" /\ conn'[j].server = "leaving")
<1> DEFINE c == LastPuppet(conn[i].at)
<1>1. /\ ConnOK(conn[i]) /\ conn[i].server = "synced"
      /\ conn[i].at \in Process /\ c \in Char /\ owner[c] = conn[i].at
      /\ conn' = [j \in ConnSlot |->
                    IF j = i
                      THEN [conn[i] EXCEPT !.server = "ic", !.puppet = c, !.attached = TRUE]
                    ELSE IF LoggedIn(i)[j].puppet = c
                      THEN [LoggedIn(i)[j] EXCEPT !.attached = FALSE]
                      ELSE LoggedIn(i)[j]]
  BY DEF SessionInv, Connections, ConnOK, Conn, EnterGame, Visible
<1>2. UNCHANGED <<owner, single>> BY DEF EnterGame, bounds, setup
<1>3. Remember(conn[i].at, c) BY DEF EnterGame
<1> HIDE DEF c
<1>4. ASSUME NEW j \in ConnSlot
      PROVE  /\ ConnOK(conn[j])'
             /\ ~(conn[j].server = "synced" /\ conn'[j].server = "leaving")
  <2>1. ConnOK(conn[j]) BY DEF SessionInv, Connections
  <2>2. CASE j = i BY <1>1, <1>2, <2>1, <2>2 DEF ConnOK, Conn
  <2>3. CASE j # i
    <3> PICK e : e = LoggedIn(i)[j] OBVIOUS
    <3>1. /\ Kept(conn[j], e)
          /\ single /\ conn[j].at = conn[i].at => e.puppet = None
      BY <2>3, LoggedInKept DEF SessionInv
    <3>2. CASE conn'[j] = e BY <1>2, <2>1, <3>1, <3>2 DEF Kept, ConnOK
    <3>3. CASE conn'[j] = [e EXCEPT !.attached = FALSE] /\ e.puppet = c
      <4>1. c # None BY <1>1, SessionAssumption DEF SessionAssumption
      <4>2. conn[j].puppet = c /\ (single => conn[j].attached /\ owner[c] = conn[j].at)
        BY <2>1, <3>1, <3>3, <4>1 DEF Kept, ConnOK
      <4>3. ~single BY <1>1, <3>1, <3>3, <4>1, <4>2
      <4> QED BY <1>2, <3>1, <3>3, <4>3 DEF Kept, ConnOK, Conn
    <3> QED BY <1>1, <2>3, <3>2, <3>3
  <2>5. QED BY <2>2, <2>3
<1>5. Connections' BY <1>1, <1>4 DEF Connections, ConnOK
<1>6. Tickets' /\ MenuKept' /\ Bounds'
  BY DEF SessionInv, Tickets, MenuKept, Bounds, EnterGame, history, bounds, setup
<1>7. Browser' BY AtLoginBrowser DEF SessionInv, EnterGame
<1>8. Account'
  <2>1. last' \in [Process -> Char \cup {None, Unread}]
    BY <1>1, <1>3, LastSet DEF SessionInv
  <2>2. QED BY <2>1 DEF SessionInv, Account, EnterGame, bounds, setup, history
<1>9. QED BY <1>4, <1>5, <1>6, <1>7, <1>8 DEF SessionInv

(* The router sends a player on, who has not come for the menu.            *)
LEMMA SendOnInv ==
  ASSUME SessionInv, NEW i \in ConnSlot, SendOn(i)
  PROVE  SessionInv' /\ wants = "play"
<1> DEFINE c == LastPuppet(Router)
           d == [conn[i] EXCEPT !.server = "leaving", !.redirect = Carrying(owner[c])]
<1>1. ConnOK(conn[i]) /\ conn[i].server = "synced"
  BY DEF SessionInv, Connections, SendOn
<1>2. /\ c \in Char /\ owner[c] \in Shard /\ owner[c] \in Process
      /\ Router \in Process
  BY LastChar DEF SendOn, Redirectable, SessionInv, Process
<1>3. NewTicket(c, owner[c]) /\ Remember(Router, c) /\ lastdb' = c /\ AtLogin(i)
  BY DEF SendOn, SetLastPuppet
<1>4. conn' = [LoggedIn(i) EXCEPT ![i] = d]
  <2>1. LoggedIn(i)[i] = conn[i] BY LoggedInKept DEF SessionInv
  <2> QED BY <2>1 DEF SendOn
<1>5. UNCHANGED <<owner, menu, browser, bounds, wants>> BY DEF SendOn
<1> HIDE DEF c
<1>6. Tickets' /\ Carrying(owner[c]) \in Target
  BY <1>2, <1>3, NewTicketTickets DEF SessionInv
<1>7. conn[i].puppet = None BY <1>1 DEF ConnOK
<1>8. d \in Conn /\ d.puppet = None /\ d.portal = conn[i].portal /\ d.portal # "opening"
  BY <1>1, <1>6, <1>7 DEF ConnOK, Conn
<1> HIDE DEF d
<1>9. Connections'
  <2>1. ASSUME NEW j \in ConnSlot PROVE ConnOK(conn[j])'
    <3>1. CASE j = i
      <4>1. conn'[j] = d BY <1>4, <3>1, LoggedInKept DEF SessionInv
      <4> QED BY <1>8, <4>1 DEF ConnOK
    <3>2. CASE j # i
      <4>1. conn'[j] = LoggedIn(i)[j] BY <1>4, <3>2, LoggedInKept DEF SessionInv
      <4>2. Kept(conn[j], conn'[j]) /\ ConnOK(conn[j])
        BY <4>1, LoggedInKept DEF SessionInv, Connections
      <4>3. UNCHANGED <<owner, single>> BY <1>5 DEF bounds, setup
      <4> QED BY <4>2, <4>3 DEF Kept, ConnOK
    <3>3. QED BY <3>1, <3>2
  <2>2. conn' \in [ConnSlot -> Conn] BY <1>4, <1>8, LoggedInKept DEF SessionInv
  <2> QED BY <2>1, <2>2 DEF Connections
<1>10. Browser' BY <1>3, <1>5, AtLoginBrowser DEF SessionInv
<1>11. Bounds' /\ UNCHANGED <<auto, single>> BY <1>5, SameBounds DEF SessionInv
<1>12. last' \in [Process -> Char \cup {None, Unread}]
  BY <1>2, <1>3, LastSet DEF SessionInv
<1>13. Account' /\ MenuKept'
  BY <1>2, <1>3, <1>5, <1>11, <1>12 DEF SessionInv, Account, MenuKept
<1>14. wants = "play" BY DEF SessionInv, MenuKept, Account, SendOn
<1>15. QED BY <1>6, <1>9, <1>10, <1>11, <1>13, <1>14 DEF SessionInv

-----------------------------------------------------------------------------
(* Commands and moves.                                                     *)
LEMMA ICInv ==
  ASSUME SessionInv, NEW i \in ConnSlot, NEW c \in Char, IC(i, c)
  PROVE  AllKept /\ SessionInv'
<1> DEFINE d == [conn[i] EXCEPT !.server = "leaving", !.redirect = Carrying(owner[c])]
<1>1. ConnOK(conn[i]) /\ conn[i].server = "menu"
  BY DEF SessionInv, Connections, IC
<1>2. owner[c] \in Process /\ Router \in Process
  BY DEF IC, Redirectable, Process
<1>3. NewTicket(c, owner[c]) /\ Remember(Router, c) /\ lastdb' = c
  BY DEF IC, SetLastPuppet
<1>4. Tickets' /\ Carrying(owner[c]) \in Target
  BY <1>2, <1>3, NewTicketTickets DEF SessionInv
<1>5. Kept(conn[i], d) BY <1>1, <1>4 DEF ConnOK, Kept, Conn
<1>6. conn' = [conn EXCEPT ![i] = d] BY DEF SessionInv, Connections, IC
<1> HIDE DEF d
<1>7. AllKept BY <1>5, <1>6, OneKept DEF SessionInv
<1>8. Connections' BY <1>7, AskBounds, KeptConnections DEF SessionInv, IC
<1>9. Bounds' /\ UNCHANGED <<auto, single>> BY AskBounds DEF SessionInv, IC
<1>10. Browser' BY DEF SessionInv, Browser, IC, browser
<1>11. last' \in [Process -> Char \cup {None, Unread}]
  BY <1>2, <1>3, LastSet DEF SessionInv
<1>12. Account' /\ MenuKept'
  BY <1>3, <1>9, <1>11 DEF SessionInv, Account, MenuKept, IC
<1>13. QED BY <1>4, <1>7, <1>8, <1>9, <1>10, <1>12 DEF SessionInv

LEMMA OOCInv ==
  ASSUME SessionInv, NEW i \in ConnSlot, OOC(i)
  PROVE  AllKept /\ SessionInv'
<1> DEFINE d == [conn[i] EXCEPT !.redirect = Carrying(Router)]
<1>1. ConnOK(conn[i]) /\ conn[i].at \in Process /\ Router \in Process
  BY DEF SessionInv, Connections, ConnOK, Conn, Process
<1>2. Tickets' /\ Carrying(Router) \in Target
  <2>1. conn[i].puppet \in Char \cup {None} /\ LastPuppet(conn[i].at) \in Char \cup {None}
    BY <1>1, LastChar DEF SessionInv, ConnOK, Conn
  <2>2. QED BY <1>1, <2>1, NewTicketTickets DEF SessionInv, OOC
<1>3. Kept(conn[i], d) BY <1>1, <1>2 DEF ConnOK, Kept, Conn
<1>4. conn' = [conn EXCEPT ![i] = d] BY DEF SessionInv, Connections, OOC
<1> HIDE DEF d
<1>5. AllKept BY <1>3, <1>4, OneKept DEF SessionInv
<1>6. Connections' BY <1>5, AskBounds, KeptConnections DEF SessionInv, OOC
<1>7. Bounds' /\ UNCHANGED <<auto, single>> BY AskBounds DEF SessionInv, OOC
<1>8. Browser' /\ Account' /\ MenuKept'
  BY <1>7 DEF SessionInv, Browser, Account, MenuKept, OOC, browser
<1>9. QED BY <1>2, <1>5, <1>6, <1>7, <1>8 DEF SessionInv

(* Whoever plays a character that moves loses it before anything else is   *)
(* done for the connection.                                                *)
LEMMA MoveInv ==
  ASSUME SessionInv, NEW c \in Char, NEW s \in Shard, Move(c, s)
  PROVE  AllKept /\ SessionInv'
<1> DEFINE K == {i \in ConnSlot : conn[i].puppet = c /\ conn[i].attached}
<1>1. /\ s \in Process /\ owner[c] \in Process /\ c # None
      /\ owner \in [Char -> Shard \cup {None}]
      /\ owner' = [owner EXCEPT ![c] = s]
      /\ Connections
  BY SessionAssumption DEF Move, Process, SessionAssumption, SessionInv, Account
<1>2. Bounds' /\ UNCHANGED <<auto, single>> BY AskBounds DEF SessionInv, Move
<1>3. Browser' BY DEF SessionInv, Browser, Move, browser
<1>4. CASE K = {}
  <2>1. UNCHANGED <<issued, tickets, letin, lastdb, last, conn>>
    BY <1>4 DEF Move
  <2>2. ASSUME NEW j \in ConnSlot PROVE ConnOK(conn[j])' /\ Kept(conn[j], conn[j])
    <3>1. ConnOK(conn[j]) /\ (conn[j].puppet # c \/ ~conn[j].attached)
      BY <1>1, <1>4 DEF Connections
    <3>2. conn[j].puppet \in Char \ {c} => owner'[conn[j].puppet] = owner[conn[j].puppet]
      BY <1>1, <3>1
    <3>3. conn[j].puppet \in Char \cup {None} BY <3>1 DEF ConnOK, Conn
    <3>4. QED BY <1>2, <2>1, <3>1, <3>2, <3>3, SameKept DEF ConnOK
  <2>3. AllKept /\ Connections' BY <1>1, <2>1, <2>2 DEF AllKept, Connections
  <2>4. Account' /\ MenuKept' /\ Tickets'
    BY <1>1, <1>2, <2>1 DEF SessionInv, Account, MenuKept, Tickets, Move
  <2>5. QED BY <1>2, <1>3, <2>3, <2>4 DEF SessionInv
<1>5. CASE K # {}
  <2>1. /\ Remember(owner[c], c) /\ lastdb' = c /\ NewTicket(c, s)
        /\ conn' = [i \in ConnSlot |->
              IF i \in K
                THEN [conn[i] EXCEPT !.server = "leaving", !.puppet = None,
                        !.attached = FALSE,
                        !.redirect = IF conn[i].open /\ @ = None
                                       THEN Carrying(s) ELSE @]
                ELSE conn[i]]
    BY <1>5 DEF Move, SetLastPuppet
  <2>2. Tickets' /\ Carrying(s) \in Target
    BY <1>1, <2>1, NewTicketTickets DEF SessionInv
  <2>3. ASSUME NEW j \in ConnSlot PROVE ConnOK(conn[j])' /\ Kept(conn[j], conn'[j])
    <3>1. ConnOK(conn[j]) BY <1>1 DEF Connections
    <3>2. CASE j \in K
      <4>1. conn[j].server = "ic" /\ conn[j].portal # "opening"
        BY <1>1, <3>1, <3>2 DEF ConnOK
      <4>2. PICK r \in Target \cup {None} :
              conn'[j] = [conn[j] EXCEPT !.server = "leaving", !.puppet = None,
                                         !.attached = FALSE, !.redirect = r]
        <5>1. CASE conn[j].open /\ conn[j].redirect = None
          BY <2>1, <2>2, <3>2, <5>1
        <5>2. CASE ~(conn[j].open /\ conn[j].redirect = None)
          BY <2>1, <3>1, <3>2, <5>2 DEF ConnOK, Conn
        <5>3. QED BY <5>1, <5>2
      <4>3. QED BY <3>1, <4>1, <4>2 DEF ConnOK, Kept, Conn
    <3>3. CASE j \notin K
      <4>1. conn'[j] = conn[j] /\ (conn[j].puppet # c \/ ~conn[j].attached)
        BY <2>1, <3>3
      <4>2. conn[j].puppet \in Char \ {c} => owner'[conn[j].puppet] = owner[conn[j].puppet]
        BY <1>1, <4>1
      <4>3. conn[j].puppet \in Char \cup {None} BY <3>1 DEF ConnOK, Conn
      <4>4. QED BY <1>2, <3>1, <4>1, <4>2, <4>3, SameKept DEF ConnOK
    <3>4. QED BY <3>2, <3>3
  <2>4. conn' \in [ConnSlot -> Conn] BY <2>1, <2>3 DEF Kept
  <2>5. AllKept /\ Connections' BY <2>3, <2>4 DEF AllKept, Connections
  <2>6. last' \in [Process -> Char \cup {None, Unread}]
    BY <1>1, <2>1, LastSet DEF SessionInv
  <2>7. Account' /\ MenuKept'
    BY <1>1, <1>2, <2>1, <2>6 DEF SessionInv, Account, MenuKept, Move
  <2>8. QED BY <1>2, <1>3, <2>2, <2>5, <2>7 DEF SessionInv
<1>6. QED BY <1>4, <1>5

LEMMA RestartInv ==
  ASSUME SessionInv, NEW p \in Process, Restart(p)
  PROVE  AllKept /\ SessionInv'
<1> DEFINE d == [Closed EXCEPT !.at = p, !.open = TRUE]
<1>1. ASSUME NEW j \in ConnSlot PROVE Kept(conn[j], conn'[j])
  <2>1. Kept(conn[j], conn[j]) BY SameKept DEF SessionInv, Connections
  <2>2. Kept(conn[j], Closed) BY ClosedConn
  <2>3. Kept(conn[j], d)
    BY DEF Closed, Fresh, Conn, Kept
  <2>4. conn'[j] \in {conn[j], Closed, d} BY DEF Restart
  <2>5. QED BY <2>1, <2>2, <2>3, <2>4
<1>2. conn' \in [ConnSlot -> Conn] BY <1>1 DEF Restart, Kept
<1>3. AllKept BY <1>1, <1>2 DEF AllKept
<1>4. Connections' BY <1>3, FaultBounds, KeptConnections DEF SessionInv, Restart
<1>5. Bounds' /\ UNCHANGED <<auto, single>> BY FaultBounds DEF SessionInv, Restart
<1>6. last' \in [Process -> Char \cup {None, Unread}]
  BY DEF Restart, SessionInv, Account
<1>7. Tickets' /\ MenuKept' /\ Account' /\ Browser'
  BY <1>5, <1>6 DEF SessionInv, Tickets, MenuKept, Account, Browser, Restart,
                    browser, history
<1>8. QED BY <1>3, <1>4, <1>5, <1>7 DEF SessionInv

-----------------------------------------------------------------------------
(* Every step keeps the invariant; none but that of SendOn sends on a      *)
(* connection that has just logged in, and SendOn only one that may.       *)
SentOnPlaying ==
  \A i \in ConnSlot :
    conn[i].server = "synced" /\ conn'[i].server = "leaving" => wants = "play"

LEMMA StepInv == SessionInv /\ [Next]_vars => SessionInv' /\ SentOnPlaying
<1> SUFFICES ASSUME SessionInv, [Next]_vars PROVE SessionInv' /\ SentOnPlaying
  OBVIOUS
<1>1. AllKept => SentOnPlaying BY DEF AllKept, Kept, SentOnPlaying
<1>2. CASE UNCHANGED vars
  BY <1>2 DEF vars, shared, browser, bounds, setup, history, SessionInv, Connections, ConnOK,
              Tickets, MenuKept, Account, Browser, Bounds, SentOnPlaying
<1>3. ASSUME NEW i \in ConnSlot, Step(i) PROVE SessionInv' /\ SentOnPlaying
  <2>1. CASE OnOpen(i)
    BY <1>1, <2>1, OpenWithSessionInv, OpenWithTicketInv, RefusedInv, PortalInv
       DEF OnOpen
  <2>2. CASE SendOn(i) BY <2>2, SendOnInv DEF SentOnPlaying
  <2>3. CASE EnterGame(i) BY <2>3, EnterGameInv DEF SentOnPlaying
  <2>4. CASE PostLogin(i) /\ ~SendOn(i) /\ ~EnterGame(i)
    BY <1>1, <2>4, MenuShownInv DEF PostLogin
  <2>5. CASE Follow(i) BY <1>1, <2>5, PageInv
  <2>6. CASE Disconnect(i) \/ Clear(i) \/ Hangup(i) BY <1>1, <2>6, PortalInv
  <2>7. QED BY <1>3, <2>1, <2>2, <2>3, <2>4, <2>5, <2>6 DEF Step
<1>4. CASE Wish
  <2>1. CASE Navigate \/ Refresh \/ \E t \in 1..Len(issued) : Bookmark(t)
    BY <1>1, <2>1, PageInv
  <2>2. CASE Drop BY <1>1, <2>2, DropInv
  <2>3. CASE \E i \in ConnSlot : Login(i) \/ OOC(i) \/ \E c \in Char : IC(i, c)
    BY <1>1, <2>3, PortalInv, OOCInv, ICInv
  <2>4. CASE \E c \in Char, s \in Shard : Move(c, s) BY <1>1, <2>4, MoveInv
  <2>5. QED BY <1>4, <2>1, <2>2, <2>3, <2>4 DEF Wish
<1>5. CASE \E p \in Process : Restart(p) BY <1>1, <1>5, RestartInv
<1>6. QED BY <1>2, <1>3, <1>4, <1>5 DEF Next

LEMMA InitInv == Init => SessionInv
<1> SUFFICES ASSUME Init PROVE SessionInv
  OBVIOUS
<1>1. Account
  <2>1. /\ owner \in [Char -> Shard \cup {None}]
        /\ auto \in BOOLEAN /\ single \in BOOLEAN
    BY SessionAssumption DEF Init, SessionAssumption
  <2>2. QED BY <2>1 DEF Init, Account
<1>2. Connections
  <2>1. Fresh(Router, None) \in Conn BY FreshConn DEF Process
  <2>2. Closed \in Conn BY ClosedConn
  <2>3. /\ ConnOK(Fresh(Router, None)) /\ ConnOK(Closed)
    BY <2>1, <2>2 DEF ConnOK, Fresh, Closed
  <2>4. QED BY <2>3 DEF Init, Connections, ConnOK
<1>3. Tickets
  <2>1. /\ issued \in Seq(Ticket) /\ letin \in Seq(Seq(Process))
        /\ Len(issued) = 0 /\ Len(letin) = 0
    BY EmptySeq DEF Init
  <2>2. QED BY <2>1 DEF Init, Tickets
<1>4. MenuKept /\ Browser /\ Bounds
  BY SessionAssumption
     DEF Init, MenuKept, Browser, Bounds, SessionAssumption, ConnSlot
<1>5. QED BY <1>1, <1>2, <1>3, <1>4 DEF SessionInv

LEMMA AlwaysSessionInv == Spec => []SessionInv
BY InitInv, StepInv, PTL DEF Spec

(* Connections, tickets, the browser session and what processes remember   *)
(* of the account stay well typed, and wishes and faults within bounds.    *)
THEOREM SessionTypeCorrect == Spec => []TypeOK
<1>1. SessionInv => TypeOK
  BY DEF SessionInv, Connections, ConnOK, Tickets, Account, Browser, Bounds, TypeOK
<1>2. QED BY <1>1, AlwaysSessionInv, PTL

(* Whatever a process remembers of the account, and wherever the character *)
(* has moved meanwhile, only the owner of a character lets it be played,   *)
(* except by a session that the character does not list any more, which    *)
(* there is only outside MULTISESSION_MODE 0.                              *)
THEOREM PlayedByOwner == Spec => []PuppetOnOwner
<1>1. SessionInv => PuppetOnOwner BY DEF SessionInv, Connections, ConnOK, PuppetOnOwner
<1>2. QED BY <1>1, AlwaysSessionInv, PTL

(* A token opens one connection, at one process, however often and at      *)
(* however many processes it is presented.                                 *)
THEOREM TokensOnce == Spec => []TicketOnce
<1>1. SessionInv => TicketOnce BY DEF SessionInv, Tickets, TicketOnce
<1>2. QED BY <1>1, AlwaysSessionInv, PTL

(* No restart, reload or login takes a player from the menu that an ooc    *)
(* has brought up; only an ic does.                                        *)
THEOREM MenuStays == Spec => NoBounce
<1>1. SessionInv /\ [Next]_vars =>
        [\A i \in ConnSlot :
           conn[i].server = "synced" /\ conn'[i].server = "leaving"
             => wants = "play"]_vars
  BY StepInv DEF SentOnPlaying
<1>2. QED BY <1>1, AlwaysSessionInv, PTL DEF Spec, NoBounce
=============================================================================
