----------------------------- MODULE ChatDelivery -----------------------------
(***************************************************************************)
(* What becomes of a chat message: sendMessageToUser stores it and sends   *)
(* it to the receiver's session if there is one, sendGroupMessage sends it *)
(* to everybody else's session, and pushMessage sends a page, right after  *)
(* its login, the rows of the last day.  The page keeps what it sent and   *)
(* what it received in its caches (front/script.js).                       *)
(*                                                                         *)
(* A connection is used once and carries messages in order both ways (see  *)
(* FifoChannel); the page may leave it (LOGOUT), or it may break.  A frame *)
(* may arrive torn, and JSON.parse then drops it.  A text is known by its  *)
(* number; what it says, the messageId and the time are abstracted.        *)
(***************************************************************************)
EXTENDS Naturals, Sequences, FiniteSets, Functions

CONSTANTS
  Users, Conns,
  Everyone,    \* the receiver of a GROUP_CHAT
  None,        \* no connection
  MaxTexts     \* bound on the texts ever sent

ASSUME NoneAssumption == None \notin Conns
ASSUME EveryoneAssumption == Everyone \notin Users
ASSUME MaxTextsAssumption == MaxTexts \in Nat

VARIABLES
  userSessions, \* userSessions_: per user, a connection or None
  rows,         \* the table messages: texts stored within the last day
  toServer, toClient,
  used,         \* the connections that were ever made
  orphans,      \* the pages' connections a restart left open, with no server
  sock,         \* per user, the connection of the page, or None
  view,         \* per user, "login" or "chat"
  cache,        \* per user, the copies in messageCache and publicCache
  missed,       \* history: per user, texts torn or not pulled on this page
  pulls,        \* history: per user, the pulls this page has asked for
  texts         \* history: for each number, sender, receiver and connection

page == <<sock, view, cache, missed, pulls>>
connections == <<used, orphans>>
vars == <<userSessions, rows, toServer, toClient, connections, page, texts>>

Numbers == 1..MaxTexts
Request == [type : {"LOGIN", "TEXT", "PULL_MESSAGE", "LOGOUT"}, user : Users, n : {0} \cup Numbers]
Copy == [kind : {"own", "live", "pulled"}, n : Numbers]
Welcome == [kind |-> "welcome", n |-> 0]
Push == Copy \cup {Welcome}

TypeOK ==
  /\ userSessions \in [Users -> Conns \cup {None}]
  /\ rows \in Seq(Numbers)
  /\ toServer \in [Conns -> Seq(Request)]
  /\ toClient \in [Conns -> Seq(Push)]
  /\ used \in SUBSET Conns /\ orphans \in SUBSET used
  /\ sock \in [Users -> Conns \cup {None}]
  /\ view \in [Users -> {"login", "chat"}]
  /\ cache \in [Users -> Seq(Copy)]
  /\ missed \in [Users -> SUBSET Numbers]
  /\ pulls \in [Users -> Nat]
  /\ texts \in Seq([from : Users, to : Users \cup {Everyone}, conn : Conns \cup {None}])

Init ==
  /\ userSessions = [u \in Users |-> None]
  /\ rows = <<>>
  /\ toServer = [c \in Conns |-> <<>>]
  /\ toClient = [c \in Conns |-> <<>>]
  /\ used = {} /\ orphans = {}
  /\ sock = [u \in Users |-> None]
  /\ view = [u \in Users |-> "login"]
  /\ cache = [u \in Users |-> <<>>]
  /\ missed = [u \in Users |-> {}]
  /\ pulls = [u \in Users |-> 0]
  /\ texts = <<>>

-----------------------------------------------------------------------------
(* The pages. *)

Connect(u, c) ==
  /\ sock[u] = None /\ c \notin used
  /\ sock' = [sock EXCEPT ![u] = c]
  /\ used' = used \cup {c}
  /\ UNCHANGED <<userSessions, orphans, rows, toServer, toClient, view, cache, missed, pulls,
                 texts>>

\* What u's page sends: dropped by the browser if the socket is closed, and
\* read by nobody on an orphan.
Send(u, type, n) ==
  toServer' = IF sock[u] \in orphans \cup {None} THEN toServer
              ELSE [toServer EXCEPT ![sock[u]] = Append(@, [type |-> type, user |-> u, n |-> n])]

\* loginForm.  Bounds: the page has one LOGIN under way, and one in the chat does
\* not log in again (which it can, see LoginService).
SubmitLogin(u) ==
  /\ sock[u] # None /\ view[u] = "login"
  /\ \A i \in 1..Len(toServer[sock[u]]) : toServer[sock[u]][i].type # "LOGIN"
  /\ Send(u, "LOGIN", 0)
  /\ UNCHANGED <<userSessions, rows, toClient, connections, page, texts>>

\* chatForm: the text is cached whether or not the socket can send it.  Only while
\* it is connecting, send() throws before the text is cached: nothing happens then.
SendText(u, to) ==
  /\ view[u] = "chat" /\ Len(texts) < MaxTexts
  /\ LET n == Len(texts) + 1
     IN  /\ texts' = Append(texts, [from |-> u, to |-> to, conn |-> sock[u]])
         /\ cache' = [cache EXCEPT ![u] = Append(@, [kind |-> "own", n |-> n])]
         /\ Send(u, "TEXT", n)
  /\ UNCHANGED <<userSessions, rows, toClient, connections, sock, view, missed, pulls>>

\* The connection is of no more use to the page; what it sent may be handled.
Disconnect(u) ==
  /\ sock[u] # None
  /\ toClient' = [toClient EXCEPT ![sock[u]] = <<>>]
  /\ sock' = [sock EXCEPT ![u] = None]
  /\ orphans' = orphans \ {sock[u]}

\* beforeunload: LOGOUT if an id was typed, then close().  The user may stay on
\* the page, or come back with a new one.
Leave(u, typed) ==
  /\ Disconnect(u)
  /\ view[u] = "chat" => typed
  /\ IF typed THEN Send(u, "LOGOUT", 0) ELSE UNCHANGED toServer
  /\ \/ UNCHANGED <<view, cache, missed, pulls>>
     \/ /\ view' = [view EXCEPT ![u] = "login"]
        /\ cache' = [cache EXCEPT ![u] = <<>>]
        /\ missed' = [missed EXCEPT ![u] = {}]
        /\ pulls' = [pulls EXCEPT ![u] = 0]
  /\ UNCHANGED <<userSessions, rows, used, texts>>

\* The connection breaks; onclose will connect again, without a login.
Drop(u) ==
  /\ Disconnect(u)
  /\ UNCHANGED <<userSessions, rows, toServer, used, view, cache, missed, pulls, texts>>

\* Mutant: the answer to LOGIN falls through to the case of a text.
IsAnything(m) == TRUE

\* The frames handleMessage puts into a cache.
IsText(m) == m # Welcome

\* onmessage: the answer to LOGIN opens the chat and pulls, a text is cached.
Receive(u, torn) ==
  /\ sock[u] # None /\ toClient[sock[u]] # <<>>
  /\ toClient' = [toClient EXCEPT ![sock[u]] = Tail(@)]
  /\ LET m == Head(toClient[sock[u]])
         welcome == m = Welcome /\ ~torn
     IN  /\ view' = IF welcome THEN [view EXCEPT ![u] = "chat"] ELSE view
         /\ pulls' = IF welcome THEN [pulls EXCEPT ![u] = @ + 1] ELSE pulls
         /\ IF welcome THEN Send(u, "PULL_MESSAGE", 0) ELSE UNCHANGED toServer
         /\ cache' = IF IsText(m) /\ ~torn THEN [cache EXCEPT ![u] = Append(@, m)] ELSE cache
         /\ missed' = IF m # Welcome /\ torn THEN [missed EXCEPT ![u] = @ \cup {m.n}] ELSE missed
  /\ UNCHANGED <<userSessions, rows, connections, sock, texts>>

-----------------------------------------------------------------------------
(* The server. *)

\* Mutant: the buffer is not consumed, so the next read finds the request again.
ReadTwice(c, type) ==
  /\ toServer[c] # <<>> /\ Head(toServer[c]).type = type
  /\ UNCHANGED toServer

\* A request of the given type was read from c.
Read(c, type) ==
  /\ toServer[c] # <<>> /\ Head(toServer[c]).type = type
  /\ toServer' = [toServer EXCEPT ![c] = Tail(@)]

\* Mutant: the last message overtakes those that wait.
Overtake(q, m) == <<m>> \o q

\* A message joins those that wait for a client.
Enqueue(q, m) == Append(q, m)

\* send() on each of these sessions; what goes to a dead one is lost.
SendTo(conns, m) ==
  toClient' = [c \in Conns |->
    IF c \in conns /\ \E u \in Users : sock[u] = c THEN Enqueue(toClient[c], m)
                                                   ELSE toClient[c]]

\* loginUser, the password being right: a user who is not logged in is bound to
\* the session and told so; the refusal of another changes nothing on the page.
HandleLogin(c) ==
  /\ Read(c, "LOGIN")
  /\ LET u == Head(toServer[c]).user
     IN  IF userSessions[u] = None
         THEN userSessions' = [userSessions EXCEPT ![u] = c] /\ SendTo({c}, Welcome)
         ELSE UNCHANGED <<userSessions, toClient>>
  /\ UNCHANGED <<rows, connections, page, texts>>

\* sendMessageToUser: stored if the database can, sent whether stored or not.
HandleText(c, stored) ==
  /\ Read(c, "TEXT")
  /\ LET n == Head(toServer[c]).n
     IN  /\ texts[n].to # Everyone
         /\ rows' = IF stored THEN Append(rows, n) ELSE rows
         /\ SendTo({userSessions[texts[n].to]}, [kind |-> "live", n |-> n])
  /\ UNCHANGED <<userSessions, connections, page, texts>>

\* Mutant: the group hears the sender's own session too.
GroupOfAll(c) == {userSessions[u] : u \in Users}

\* The sessions of userSessions_ but the one the message came from.  A connection
\* is of one user here, so that each of them is one entry.
Group(c) == {userSessions[u] : u \in Users} \ {c}

\* sendGroupMessage: never stored.
HandleGroup(c) ==
  /\ Read(c, "TEXT")
  /\ LET n == Head(toServer[c]).n
     IN  texts[n].to = Everyone /\ SendTo(Group(c), [kind |-> "live", n |-> n])
  /\ UNCHANGED <<userSessions, rows, connections, page, texts>>

\* Mutant: only what the user sent is pulled.
RecentSent(u) == {i \in DOMAIN rows : texts[rows[i]].from = u}

\* getRecentMessages: the rows of the last day from or to the user.
Recent(u) == {i \in DOMAIN rows : u \in {texts[rows[i]].from, texts[rows[i]].to}}

\* pushMessage: one message for each row that the query returned before a step of
\* it failed, if one does.  It has no ORDER BY, so the rows come in any order.
HandlePull(c) ==
  /\ Read(c, "PULL_MESSAGE")
  /\ LET u == Head(toServer[c]).user
     IN  IF sock[u] # c THEN UNCHANGED <<toClient, missed>>
         ELSE \E got \in SUBSET Recent(u) :
           /\ \E order \in Bijection(1..Cardinality(got), got) :
                toClient' = [toClient EXCEPT ![c] =
                  @ \o [i \in DOMAIN order |-> [kind |-> "pulled", n |-> rows[order[i]]]]]
           /\ missed' = [missed EXCEPT ![u] = @ \cup {rows[i] : i \in Recent(u) \ got}]
  /\ UNCHANGED <<userSessions, rows, connections, sock, view, cache, pulls, texts>>

\* logoutUser; the page has left the connection already.
HandleLogout(c) ==
  /\ Read(c, "LOGOUT")
  /\ userSessions' = [userSessions EXCEPT ![Head(toServer[c]).user] = None]
  /\ UNCHANGED <<rows, toClient, connections, page, texts>>

\* What is left on a connection without a page is lost with it.
Lose(c) ==
  /\ \A u \in Users : sock[u] # c
  /\ toServer[c] # <<>>
  /\ toServer' = [toServer EXCEPT ![c] = <<>>]
  /\ UNCHANGED <<userSessions, rows, toClient, connections, page, texts>>

\* A day has passed since the oldest of the rows was stored.
Age ==
  /\ rows # <<>>
  /\ rows' = Tail(rows)
  /\ UNCHANGED <<userSessions, toServer, toClient, connections, page, texts>>

\* main starts a new Server.  The pages will connect again, but for those whose
\* session userSessions_ refers to: that session and the old handler keep each
\* other, and the socket, alive.  Bound: a restart after which nobody could
\* connect is left out.
Restart ==
  /\ used # {} /\ used # Conns
  /\ userSessions' = [u \in Users |-> None]
  /\ toServer' = [c \in Conns |-> <<>>]
  /\ toClient' = [c \in Conns |-> <<>>]
  /\ LET kept == {userSessions[w] : w \in Users}
     IN  /\ sock' = [u \in Users |-> IF sock[u] \in kept \cup orphans THEN sock[u] ELSE None]
         /\ orphans' = {sock'[u] : u \in Users} \ {None}
  /\ UNCHANGED <<rows, used, view, cache, missed, pulls, texts>>

PageStep(u) ==
  \/ \E c \in Conns : Connect(u, c)
  \/ SubmitLogin(u)
  \/ \E to \in (Users \ {u}) \cup {Everyone} : SendText(u, to)
  \/ \E typed \in BOOLEAN : Leave(u, typed)
  \/ Drop(u)
  \/ \E torn \in BOOLEAN : Receive(u, torn)

Handle(c) ==
  \/ HandleLogin(c)
  \/ \E stored \in BOOLEAN : HandleText(c, stored)
  \/ HandleGroup(c)
  \/ HandlePull(c)
  \/ HandleLogout(c)

Next ==
  \/ \E u \in Users : PageStep(u)
  \/ \E c \in Conns : Handle(c) \/ Lose(c)
  \/ Age
  \/ Restart

Spec == Init /\ [][Next]_vars

-----------------------------------------------------------------------------
Arrived(u) == cache[u] \o (IF sock[u] = None THEN <<>> ELSE toClient[sock[u]])

\* From login on nothing that was stored for a user is missing on the page: a
\* text handled before the pull is in its answer, one handled later is sent
\* live, because loginUser binds the session before the page can pull.
NoGap ==
  \A u \in Users :
    LET c == sock[u] IN
    /\ c # None /\ userSessions[u] = c /\ view[u] = "chat"
    /\ \A i \in 1..Len(toServer[c]) : toServer[c][i].type # "PULL_MESSAGE"
    => \A i \in 1..Len(rows) :
         texts[rows[i]].to = u =>
           rows[i] \in missed[u] \cup {Arrived(u)[k].n : k \in 1..Len(Arrived(u))}

\* A page that pulled once shows what its user wrote on it once: neither the
\* pull nor a live copy of the group's brings it back, over any reconnections
\* and restarts.
OwnOnce ==
  \A u \in Users : \A i, k \in 1..Len(Arrived(u)) :
    pulls[u] <= 1 /\ Arrived(u)[i].kind = "own" /\ Arrived(u)[i].n = Arrived(u)[k].n => i = k

\* No text reaches such a page twice in the same way: live or pulled, each once.
OnceEachWay ==
  \A u \in Users : \A i, k \in 1..Len(Arrived(u)) :
    pulls[u] <= 1 /\ Arrived(u)[i] # Welcome /\ Arrived(u)[i] = Arrived(u)[k] => i = k

\* Live texts sent over one connection arrive in the order they were sent.
InOrder ==
  \A u \in Users : \A i, k \in 1..Len(Arrived(u)) :
    /\ i < k /\ Arrived(u)[i].kind = "live" /\ Arrived(u)[k].kind = "live"
    /\ LET a == texts[Arrived(u)[i].n]
           b == texts[Arrived(u)[k].n]
       IN  a.from = b.from /\ a.conn = b.conn
    => Arrived(u)[i].n < Arrived(u)[k].n
=============================================================================
