-------------------------------- MODULE Friends --------------------------------
(***************************************************************************)
(* Making friends: the table friends, the handlers addFriend and           *)
(* ackAddFriend, and the pages that ask and are asked (front/script.js).   *)
(*                                                                         *)
(* A friendship is two rows, (u, v) and (v, u), written by two statements  *)
(* without a transaction; either may fail.  A request is shown as a        *)
(* notification; each one adds a click listener that is never removed, so  *)
(* that one click asks about every request received since the page was     *)
(* loaded.                                                                 *)
(*                                                                         *)
(* The server takes the sender of a message from the message, and the page *)
(* puts there the id typed last, whether or not it is logged in with it.   *)
(* So logins are modelled as far as they decide who speaks for whom and    *)
(* where a request is shown; LoginService has all of them.  A connection   *)
(* is used once and is FIFO; it may be left with LOGOUT, or break.         *)
(***************************************************************************)
EXTENDS Naturals, Sequences

CONSTANTS
  Users, Pages, Conns,
  None,          \* no connection, and no user: userId is 0, toUserId -1
  MaxAsks,       \* bound on the ADD_FRIEND messages sent
  MaxLogins      \* bound on the logins submitted

ASSUME NoneAssumption == None \notin Conns \cup Users
ASSUME BoundsAssumption == MaxAsks \in Nat /\ MaxLogins \in Nat

VARIABLES
  friends,       \* the table: per <<user_id, friend_id>>, "absent" or its status
  userSessions,  \* userSessions_: per user, a connection or None
  closing,       \* connections whose close() is under way
  toServer, toClient,
  used,          \* the connections that were ever made
  sock, userId,  \* per page, its connection and the id typed last, or None
  chat,          \* the pages that display the chat
  listeners,     \* per page, the requests <<v, u>> with a listener on the notification
  visible,       \* the pages whose notification is displayed
  queue,         \* per page, the listeners the current click has still to run
  asks, logins,
  proved,        \* history: per page, the users it logged in since it was loaded
  raced,         \* history: pages on which a login overtook another
  asked,         \* history: <<u, v>> once v was asked in u's name (see MayAsk)
  accepts,       \* history: <<v, u>> once v, logged in, accepted u's request
  disturbed      \* history: the pairs {u, v} hit by a reject or a failed statement

sessions == <<userSessions, closing>>
network == <<toServer, toClient, used>>
login == <<userId, chat, proved, raced>>
notification == <<listeners, visible, queue>>
history == <<asked, accepts, disturbed>>
vars == <<friends, sessions, network, sock, login, notification, asks, logins, history>>

Pairs == Users \X Users
Status == {"absent", "pending", "accepted"}
Request == [type : {"LOGIN", "LOGOUT", "ADD_FRIEND", "accept", "reject"},
            from : Users, to : Users \cup {None}]
Push == [type : {"LOGIN_RESPONSE", "FRIEND_REQUEST"}, from : Users, to : Users \cup {None}]

TypeOK ==
  /\ friends \in [Pairs -> Status]
  /\ userSessions \in [Users -> Conns \cup {None}]
  /\ closing \in SUBSET Conns /\ used \in SUBSET Conns
  /\ toServer \in [Conns -> Seq(Request)] /\ toClient \in [Conns -> Seq(Push)]
  /\ sock \in [Pages -> Conns \cup {None}]
  /\ userId \in [Pages -> Users \cup {None}]
  /\ chat \in SUBSET Pages /\ visible \in SUBSET Pages /\ raced \in SUBSET Pages
  /\ listeners \in [Pages -> Seq(Pairs)] /\ queue \in [Pages -> Seq(Pairs)]
  /\ asks \in Nat /\ logins \in Nat
  /\ proved \in [Pages -> SUBSET Users]
  /\ asked \in SUBSET Pairs /\ accepts \in SUBSET Pairs
  /\ disturbed \in SUBSET SUBSET Users

Init ==
  /\ friends = [p \in Pairs |-> "absent"]
  /\ userSessions = [u \in Users |-> None] /\ closing = {}
  /\ toServer = [c \in Conns |-> <<>>] /\ toClient = [c \in Conns |-> <<>>] /\ used = {}
  /\ sock = [p \in Pages |-> None] /\ userId = [p \in Pages |-> None]
  /\ chat = {} /\ visible = {} /\ raced = {}
  /\ listeners = [p \in Pages |-> <<>>] /\ queue = [p \in Pages |-> <<>>]
  /\ asks = 0 /\ logins = 0
  /\ proved = [p \in Pages |-> {}]
  /\ asked = {} /\ accepts = {} /\ disturbed = {}

-----------------------------------------------------------------------------
(* The pages.  While the dialogs of a click are open, nothing else happens. *)

Free(p) == queue[p] = <<>>

\* connectWebSocket, at first and from onclose; userId and the chat are kept.
Connect(p, c) ==
  /\ Free(p) /\ sock[p] = None /\ c \notin used
  /\ sock' = [sock EXCEPT ![p] = c]
  /\ used' = used \cup {c}
  /\ UNCHANGED <<friends, sessions, toServer, toClient, login, notification, asks, logins,
                 history>>

\* sendMessage: dropped if the socket is closed.
SendMessage(p, type, from, to) ==
  toServer' = IF sock[p] = None THEN toServer
              ELSE [toServer EXCEPT ![sock[p]] =
                      Append(@, [type |-> type, from |-> from, to |-> to])]

\* A login of this page is on its way to the server, or its success to the page.
LoginUnderWay(p) ==
  sock[p] # None /\
    \/ \E i \in DOMAIN toServer[sock[p]] : toServer[sock[p]][i].type = "LOGIN"
    \/ \E i \in DOMAIN toClient[sock[p]] : toClient[sock[p]][i].type = "LOGIN_RESPONSE"

\* loginForm, whose ways to be displayed are in Accounts: userId is set before
\* the server has answered.
SubmitLogin(p, u) ==
  /\ Free(p) /\ logins < MaxLogins
  /\ logins' = logins + 1
  /\ userId' = [userId EXCEPT ![p] = u]
  /\ SendMessage(p, "LOGIN", u, None)
  /\ raced' = IF LoginUnderWay(p) \/ p \in chat THEN raced \cup {p} ELSE raced
  /\ UNCHANGED <<friends, sessions, toClient, used, sock, chat, proved, notification, asks,
                 history>>

\* The page asks for a user it is logged in as; one whose logins raced may be
\* in the chat under any id.
MayAsk(p) == userId[p] \in proved[p] \/ p \in raced

\* addFriendRequest, sent in the name of userId: any id may be typed, the user's
\* own included.
Ask(p, v) ==
  /\ Free(p) /\ p \in chat /\ sock[p] # None /\ asks < MaxAsks
  /\ SendMessage(p, "ADD_FRIEND", userId[p], v)
  /\ asks' = asks + 1
  /\ asked' = IF MayAsk(p) THEN asked \cup {<<userId[p], v>>} ELSE asked
  /\ UNCHANGED <<friends, sessions, toClient, used, sock, login, notification, logins, accepts,
                 disturbed>>

\* handleMessage: a success opens the chat, a request for userId is shown by one
\* more listener on the same element.  JSON.parse drops a frame that arrives torn.
Receive(p, torn) ==
  /\ Free(p) /\ sock[p] # None /\ toClient[sock[p]] # <<>>
  /\ toClient' = [toClient EXCEPT ![sock[p]] = Tail(@)]
  /\ LET m == Head(toClient[sock[p]])
         shown == ~torn /\ m.type = "FRIEND_REQUEST" /\ userId[p] = m.to
     IN  /\ chat' = IF ~torn /\ m.type = "LOGIN_RESPONSE" THEN chat \cup {p} ELSE chat
         /\ listeners' = IF shown THEN [listeners EXCEPT ![p] = Append(@, <<m.from, m.to>>)]
                                  ELSE listeners
         /\ visible' = IF shown THEN visible \cup {p} ELSE visible
  /\ UNCHANGED <<friends, sessions, toServer, used, sock, userId, proved, raced, queue, asks,
                 logins, history>>

\* A click on the visible notification runs all its listeners, oldest first.
Click(p) ==
  /\ Free(p) /\ p \in visible
  /\ queue' = [queue EXCEPT ![p] = listeners[p]]
  /\ visible' = visible \ {p}
  /\ UNCHANGED <<friends, sessions, network, sock, login, listeners, asks, logins, history>>

\* One listener: confirm(), then FRIEND_REQUEST_RESPONSE in the name of the user
\* the request was for.
Confirm(p, choice) ==
  /\ ~Free(p)
  /\ LET v == Head(queue[p])[1]
         u == Head(queue[p])[2]
     IN  /\ SendMessage(p, choice, u, v)
         /\ accepts' = IF choice = "accept" /\ u \in proved[p] THEN accepts \cup {<<u, v>>}
                                                               ELSE accepts
  /\ queue' = [queue EXCEPT ![p] = Tail(@)]
  /\ UNCHANGED <<friends, sessions, toClient, used, sock, login, listeners, visible, asks, logins,
                 asked, disturbed>>

\* The connection is of no more use to the page; what it sent may be handled.
Disconnect(p) ==
  /\ sock' = [sock EXCEPT ![p] = None]
  /\ toClient' = [c \in Conns |-> IF c = sock[p] THEN <<>> ELSE toClient[c]]

\* beforeunload: LOGOUT if an id was typed, then close().  The user may stay on
\* the page, or come back with a new one.
Leave(p, stays) ==
  /\ Free(p)
  /\ IF userId[p] = None THEN UNCHANGED toServer ELSE SendMessage(p, "LOGOUT", userId[p], None)
  /\ Disconnect(p)
  /\ IF stays THEN UNCHANGED <<login, listeners, visible>>
     ELSE /\ userId' = [userId EXCEPT ![p] = None]
          /\ chat' = chat \ {p} /\ visible' = visible \ {p} /\ raced' = raced \ {p}
          /\ listeners' = [listeners EXCEPT ![p] = <<>>]
          /\ proved' = [proved EXCEPT ![p] = {}]
  /\ UNCHANGED <<friends, sessions, used, queue, asks, logins, history>>

\* The connection breaks; onclose will connect again, without a login.
Drop(p) ==
  /\ sock[p] # None
  /\ Disconnect(p)
  /\ UNCHANGED <<friends, sessions, toServer, used, login, notification, asks, logins, history>>

\* What is left on a connection without a page is lost with it.
Lose(c) ==
  /\ \A p \in Pages : sock[p] # c
  /\ toServer[c] # <<>>
  /\ toServer' = [toServer EXCEPT ![c] = <<>>]
  /\ UNCHANGED <<friends, sessions, toClient, used, sock, login, notification, asks, logins,
                 history>>

-----------------------------------------------------------------------------
(* The server. *)

\* A message of the given type was read from c.
Take(c, type) ==
  /\ toServer[c] # <<>> /\ Head(toServer[c]).type = type
  /\ toServer' = [toServer EXCEPT ![c] = Tail(@)]

\* send() on a session, if there is one; what goes to a dead one is lost.
SendTo(c, m) ==
  toClient' = IF c \in {sock[p] : p \in Pages} \ {None}
              THEN [toClient EXCEPT ![c] = Append(@, m)] ELSE toClient

\* Mutant: any password will do.
AcceptsAnybody(u, auth) == userSessions[u] = None

\* Accepted: authenticated, and not found in userSessions_.
Accepts(u, auth) == auth /\ userSessions[u] = None

\* loginUser: auth is what authenticateUser says of the id and password.  The
\* answer to a login that fails changes nothing on the page.
HandleLogin(c, auth) ==
  /\ Take(c, "LOGIN")
  /\ LET u == Head(toServer[c]).from
     IN  IF Accepts(u, auth)
         THEN /\ userSessions' = [userSessions EXCEPT ![u] = c]
              /\ SendTo(c, [type |-> "LOGIN_RESPONSE", from |-> u, to |-> None])
              /\ proved' = [p \in Pages |-> IF auth /\ sock[p] = c THEN proved[p] \cup {u}
                                                                  ELSE proved[p]]
         ELSE UNCHANGED <<userSessions, toClient, proved>>
  /\ UNCHANGED <<friends, closing, used, sock, userId, chat, raced, notification, asks, logins,
                 history>>

\* logoutUser: the user the message names, then close(); the page has left.
HandleLogout(c) ==
  /\ Take(c, "LOGOUT")
  /\ userSessions' = [userSessions EXCEPT ![Head(toServer[c]).from] = None]
  /\ closing' = closing \cup {c}
  /\ UNCHANGED <<friends, toClient, used, sock, login, notification, asks, logins, history>>

\* The close() completes: every user of the session is unbound.
HandleDisconnection(c) ==
  /\ c \in closing
  /\ closing' = closing \ {c}
  /\ userSessions' = [u \in Users |-> IF userSessions[u] = c THEN None ELSE userSessions[u]]
  /\ UNCHANGED <<friends, network, sock, login, notification, asks, logins, history>>

\* Mutant: INSERT OR REPLACE.
InsertOrReplace(rows) == [p \in Pairs |-> IF p \in rows THEN "pending" ELSE friends[p]]

\* The table after an insert of rows that leaves existing ones alone.
Insert(rows) ==
  [p \in Pairs |-> IF p \in rows /\ friends[p] = "absent" THEN "pending" ELSE friends[p]]

\* addFriend: the two rows, each inserted unless it is there already; first and
\* second say which statement succeeded.  If both did, and the user's name is
\* found: FRIEND_REQUEST to the friend's session.  Nothing compares the user with
\* the session the message came from.
HandleAdd(c, first, second, named) ==
  /\ Take(c, "ADD_FRIEND")
  /\ LET u == Head(toServer[c]).from
         v == Head(toServer[c]).to
         written == {p \in {<<u, v>>, <<v, u>>} : IF p = <<u, v>> THEN first ELSE second}
     IN  IF u = v
         THEN UNCHANGED <<friends, toClient, disturbed>>
         ELSE /\ friends' = Insert(written)
              /\ disturbed' = IF first /\ second THEN disturbed
                                                 ELSE disturbed \cup {{u, v}}
              /\ IF first /\ second /\ named
                 THEN SendTo(userSessions[v], [type |-> "FRIEND_REQUEST", from |-> u, to |-> v])
                 ELSE UNCHANGED toClient
  /\ UNCHANGED <<sessions, used, sock, login, notification, asks, logins, asked, accepts>>

\* Mutant: the UPDATE names one direction only.
OneRow(u, v) == {<<v, u>>}

\* The rows that the UPDATE's WHERE clause selects, if they exist.
BothRows(u, v) == {<<u, v>>, <<v, u>>}

\* ackAddFriend, "accept": one UPDATE of whichever of the two rows exist.
HandleAccept(c, fails) ==
  /\ Take(c, "accept")
  /\ LET u == Head(toServer[c]).from
         v == Head(toServer[c]).to
     IN  friends' = IF fails THEN friends
                    ELSE [p \in Pairs |->
                      IF p \in BothRows(u, v) /\ friends[p] # "absent"
                      THEN "accepted" ELSE friends[p]]
  /\ UNCHANGED <<sessions, toClient, used, sock, login, notification, asks, logins, history>>

\* Mutant: the row is marked instead of deleted.
MarkRejected(u, v) == [friends EXCEPT ![<<u, v>>] = "rejected"]

\* removeFriend: the table without one row.
Remove(u, v) == [friends EXCEPT ![<<u, v>>] = "absent"]

\* ackAddFriend, "reject": removeFriend deletes the asker's row only.
HandleReject(c, fails) ==
  /\ Take(c, "reject")
  /\ LET u == Head(toServer[c]).from
         v == Head(toServer[c]).to
     IN  IF fails THEN UNCHANGED <<friends, disturbed>>
         ELSE /\ friends' = Remove(v, u)
              /\ disturbed' = disturbed \cup {{u, v}}
  /\ UNCHANGED <<sessions, toClient, used, sock, login, notification, asks, logins, asked, accepts>>

PageStep(p) ==
  \/ \E c \in Conns : Connect(p, c)
  \/ \E u \in Users : SubmitLogin(p, u) \/ Ask(p, u)
  \/ \E torn \in BOOLEAN : Receive(p, torn)
  \/ Click(p)
  \/ \E choice \in {"accept", "reject"} : Confirm(p, choice)
  \/ \E stays \in BOOLEAN : Leave(p, stays)
  \/ Drop(p)

Handle(c) ==
  \/ \E auth \in BOOLEAN : HandleLogin(c, auth)
  \/ HandleLogout(c)
  \/ HandleDisconnection(c)
  \/ \E first, second, named \in BOOLEAN : HandleAdd(c, first, second, named)
  \/ \E fails \in BOOLEAN : HandleAccept(c, fails) \/ HandleReject(c, fails)

Next ==
  \/ \E p \in Pages : PageStep(p)
  \/ \E c \in Conns : Handle(c) \/ Lose(c)

Spec == Init /\ [][Next]_vars

-----------------------------------------------------------------------------
\* The two rows of a friendship say the same, as long as no request of the
\* pair was rejected and no insert failed: crossing requests, repeated ones
\* and stale confirmations do not tear them apart.
RowsAgree ==
  \A u, v \in Users : {u, v} \notin disturbed => friends[<<u, v>>] = friends[<<v, u>>]

\* Nobody becomes a friend without one of the two having asked and the other one
\* having accepted, each on a page that had logged in as that user, although the
\* server believes the sender a message names: whatever ids are typed and refused,
\* and over stale bindings, old listeners, failures and rejections.  Only a page
\* whose logins raced may have asked in another user's name.
AcceptedByBoth ==
  \A u, v \in Users :
    friends[<<u, v>>] = "accepted" =>
      \/ <<u, v>> \in asked /\ <<v, u>> \in accepts
      \/ <<v, u>> \in asked /\ <<u, v>> \in accepts

\* An accepted row is never made pending again: asking a friend once more
\* ignores the rows that exist.
NeverDemoted ==
  [][\A p \in Pairs : friends[p] = "accepted" => friends'[p] # "pending"]_vars

\* An accepted row means that the two are each other's friends.
Mutual ==
  \A u, v \in Users :
    friends[<<u, v>>] = "accepted" => friends[<<v, u>>] = "accepted"
=============================================================================
