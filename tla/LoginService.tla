----------------------------- MODULE LoginService -----------------------------
(***************************************************************************)
(* Who is logged in: BusinessHandler::userSessions_, the sessions it       *)
(* refers to, and the browser pages (front/script.js) that log users in    *)
(* and out.                                                                *)
(*                                                                         *)
(* A page connects, submits logins, and on beforeunload sends LOGOUT for   *)
(* whatever id was last typed and closes its socket; its user may then     *)
(* leave or stay, and a page that stays reconnects without logging in.     *)
(* Connections may break at any time, and a failed WebSocket handshake     *)
(* restarts the server, where a session and the handler whose              *)
(* userSessions_ refers to it keep each other alive.  Each session is used *)
(* once.                                                                   *)
(*                                                                         *)
(* Sessions are coarser than in module Session: writes are not queued, so  *)
(* whether a close() finds a write in progress is a choice.                *)
(***************************************************************************)
EXTENDS Naturals, Sequences, FiniteSets

CONSTANTS
  Pages, Sessions, Users,
  None,         \* neither a session nor a user
  MaxLogins,    \* bound on the logins and answers in flight on a connection
  MaxDrops,     \* bound on the connections that break
  MaxRestarts   \* bound on the server restarts

ASSUME NoneAssumption == None \notin Sessions \cup Users
ASSUME BoundsAssumption == MaxLogins \in Nat /\ MaxDrops \in Nat /\ MaxRestarts \in Nat

VARIABLES
  \* the server
  status,       \* per session, what is_open() reads
  reading,      \* per session, an async_read is outstanding
  closeOp,      \* per session, the async_close started by close()
  userSessions, \* userSessions_: per user, a session or None
  granted,      \* history: <<u, s>> once u logged in on s, until s logs u out
  foreign,      \* history: users logged out by a session not granted to them
  \* the connections
  toServer, toClient,
  broken,       \* the connections that broke
  restarts,
  \* the pages
  sock,         \* per page, its WebSocket
  open,         \* per page, whether readyState is OPEN
  userId,       \* per page, the variable userId; None is 0
  view          \* per page: "login", "chat", or "gone"

registry == <<userSessions, granted, foreign>>
server == <<status, reading, closeOp, registry>>
network == <<toServer, toClient, broken, restarts>>
pages == <<sock, open, userId, view>>
vars == <<server, network, pages>>

Login(u) == [type |-> "LOGIN", user |-> u]
Logout(u) == [type |-> "LOGOUT", user |-> u]
CloseFrame == [type |-> "CLOSE", user |-> None]
Message == [type : {"LOGIN", "LOGOUT"}, user : Users] \cup {CloseFrame}

TypeOK ==
  /\ status \in [Sessions -> {"none", "open", "closing", "closed", "orphaned"}]
  /\ reading \in [Sessions -> BOOLEAN]
  /\ closeOp \in [Sessions -> {"none", "queued", "running", "done"}]
  /\ userSessions \in [Users -> Sessions \cup {None}]
  /\ granted \in SUBSET (Users \X Sessions)
  /\ foreign \in SUBSET Users
  /\ toServer \in [Sessions -> Seq(Message)]
  /\ toClient \in [Sessions -> Seq({"success", "fail"})]
  /\ broken \in SUBSET Sessions
  /\ restarts \in Nat
  /\ sock \in [Pages -> Sessions \cup {None}]
  /\ open \in [Pages -> BOOLEAN]
  /\ userId \in [Pages -> Users \cup {None}]
  /\ view \in [Pages -> {"login", "chat", "gone"}]

Init ==
  /\ status = [s \in Sessions |-> "none"]
  /\ reading = [s \in Sessions |-> FALSE]
  /\ closeOp = [s \in Sessions |-> "none"]
  /\ userSessions = [u \in Users |-> None]
  /\ granted = {}
  /\ foreign = {}
  /\ toServer = [s \in Sessions |-> <<>>]
  /\ toClient = [s \in Sessions |-> <<>>]
  /\ broken = {}
  /\ restarts = 0
  /\ sock = [p \in Pages |-> None]
  /\ open = [p \in Pages |-> FALSE]
  /\ userId = [p \in Pages |-> None]
  /\ view = [p \in Pages |-> "login"]

-----------------------------------------------------------------------------
(* The pages. *)

\* Over a connection that holds, onclose fires once the server has closed it, or
\* when nobody answers the page's own close frame.
Ended(p) == status[sock[p]] = "closed" \/ (status[sock[p]] = "orphaned" /\ ~open[p])

\* onclose has fired or there was no socket yet: connectWebSocket, and on the
\* server the accept that creates the Session.  userId and view are kept.
Connect(p, s) ==
  /\ view[p] # "gone"
  /\ sock[p] # None => sock[p] \in broken \/ Ended(p)
  /\ status[s] = "none"
  /\ status' = [status EXCEPT ![s] = "open"]
  /\ reading' = [reading EXCEPT ![s] = TRUE]
  /\ sock' = [sock EXCEPT ![p] = s]
  /\ open' = [open EXCEPT ![p] = TRUE]
  /\ UNCHANGED <<closeOp, registry, network, userId, view>>

\* The login form: userId is set before the server has answered, and even
\* if the socket cannot send.  A success hides the form, but not if the page
\* shows the register form just then; the way back to the login form stays.
SubmitLogin(p, u) ==
  /\ view[p] # "gone" /\ sock[p] # None
  /\ Len(toServer[sock[p]]) + Len(toClient[sock[p]]) < MaxLogins
  /\ userId' = [userId EXCEPT ![p] = u]
  /\ toServer' = IF open[p] THEN [toServer EXCEPT ![sock[p]] = Append(@, Login(u))]
                            ELSE toServer
  /\ UNCHANGED <<server, toClient, broken, restarts, sock, open, view>>

\* onmessage, LOGIN_RESPONSE: a failure leaves userId as it is.
Receive(p) ==
  /\ open[p] /\ toClient[sock[p]] # <<>>
  /\ view' = [view EXCEPT ![p] =
                IF Head(toClient[sock[p]]) = "success" THEN "chat" ELSE @]
  /\ toClient' = [toClient EXCEPT ![sock[p]] = Tail(@)]
  /\ UNCHANGED <<server, toServer, broken, restarts, sock, open, userId>>

\* Mutant: LOGOUT is sent even if no id was ever typed.
GoodbyeAlways(p) == <<Logout(userId[p])>>

Goodbye(p) == IF userId[p] = None THEN <<>> ELSE <<Logout(userId[p])>>

\* beforeunload: LOGOUT if userId is set, then socket.close(); the browser
\* asks, and the user may cancel and stay on the page.
Unload(p) ==
  /\ view[p] # "gone"
  /\ toServer' =
       IF ~open[p] THEN toServer
       ELSE [toServer EXCEPT ![sock[p]] = @ \o Goodbye(p) \o <<CloseFrame>>]
  /\ open' = [open EXCEPT ![p] = FALSE]
  /\ \/ view' = [view EXCEPT ![p] = "gone"]
     \/ open[p] /\ UNCHANGED view
  /\ UNCHANGED <<server, toClient, broken, restarts, sock, userId>>

\* The browser or the network dies, before or after the page has closed its
\* end: nothing is sent any more, what is on its way may still arrive.
Drop(p) ==
  /\ sock[p] # None /\ sock[p] \notin broken /\ status[sock[p]] # "closed"
  /\ Cardinality(broken) < MaxDrops
  /\ broken' = broken \cup {sock[p]}
  /\ open' = [open EXCEPT ![p] = FALSE]
  /\ \/ view' = [view EXCEPT ![p] = "gone"]
     \/ UNCHANGED view
  /\ UNCHANGED <<server, toServer, toClient, restarts, sock, userId>>

-----------------------------------------------------------------------------
(* The server. *)

\* A message of the given type was read from s.
Read(s, type) ==
  /\ reading[s]
  /\ status[s] = "open" \/ (status[s] = "closing" /\ closeOp[s] = "running")
  /\ toServer[s] # <<>> /\ Head(toServer[s]).type = type
  /\ toServer' = [toServer EXCEPT ![s] = Tail(@)]

\* After the handler, the next read follows only if the stream is still open.
ReadAgain(s) == reading' = [reading EXCEPT ![s] = status'[s] = "open"]

\* Mutant: authenticated users are let in although they are logged in already.
AcceptsRepeated(u, auth) == auth

\* Accepted: authenticated, and not found in userSessions_.
Accepts(u, auth) == auth /\ userSessions[u] = None

\* loginUser: auth is what authenticateUser says of the id and password.
HandleLogin(s, auth) ==
  /\ Read(s, "LOGIN")
  /\ LET u == Head(toServer[s]).user
         accepted == Accepts(u, auth)
     IN  /\ userSessions' = [userSessions EXCEPT ![u] = IF accepted THEN s ELSE @]
         /\ granted' = IF accepted THEN granted \cup {<<u, s>>} ELSE granted
         /\ toClient' = [toClient EXCEPT ![s] =
                           Append(@, IF accepted THEN "success" ELSE "fail")]
  /\ UNCHANGED <<status, closeOp, foreign, broken, restarts, pages>>
  /\ ReadAgain(s)

\* Mutant: the connection is left to the page.
CloseNever(s, writing) == UNCHANGED <<closeOp, status>>

\* Session::close: async_close, at once or after the write in progress.
Close(s, writing) ==
  /\ closeOp[s] = "none"
  /\ closeOp' = [closeOp EXCEPT ![s] = IF writing THEN "queued" ELSE "running"]
  /\ status' = [status EXCEPT ![s] = IF writing THEN @ ELSE "closing"]

\* logoutUser: unbinds the user the message names, whatever session that user
\* is on, then closes the session the message came from.
HandleLogout(s, writing) ==
  /\ Read(s, "LOGOUT")
  /\ LET u == Head(toServer[s]).user
     IN  /\ userSessions' = [userSessions EXCEPT ![u] = None]
         /\ granted' = granted \ {<<u, s>>}
         /\ foreign' = IF <<u, s>> \in granted THEN foreign ELSE foreign \cup {u}
  /\ Close(s, writing)
  /\ ReadAgain(s)
  /\ UNCHANGED <<toClient, broken, restarts, pages>>

\* stop(): nobody calls handleDisconnection, so userSessions_ is left alone.
Stop(s) ==
  /\ status' = [status EXCEPT ![s] = "closed"]
  /\ reading' = [reading EXCEPT ![s] = FALSE]

\* The page's close frame was read and answered: the read fails.
HandleClose(s) ==
  /\ reading[s] /\ closeOp[s] # "queued"
  /\ toServer[s] # <<>> /\ Head(toServer[s]) = CloseFrame
  /\ toServer' = [toServer EXCEPT ![s] = Tail(@)]
  /\ Stop(s)
  /\ UNCHANGED <<closeOp, registry, toClient, broken, restarts, pages>>

\* The read fails because the connection broke or was closed meanwhile.
ReadFails(s) ==
  /\ reading[s] /\ (s \in broken \/ status[s] = "closed")
  /\ Stop(s)
  /\ UNCHANGED <<closeOp, registry, network, pages>>

\* The write that close() had to wait for ended.
CloseStart(s) ==
  /\ closeOp[s] = "queued"
  /\ closeOp' = [closeOp EXCEPT ![s] = "running"]
  /\ status' = [status EXCEPT ![s] = IF @ = "open" THEN "closing" ELSE @]
  /\ UNCHANGED <<reading, registry, network, pages>>

\* Mutant: a closed session keeps its users.
KeepUsers(s) == UNCHANGED userSessions

\* handleDisconnection erases every entry of this session.
HandleDisconnection(s) ==
  userSessions' = [u \in Users |-> IF userSessions[u] = s THEN None ELSE userSessions[u]]

\* async_close completed: the page's close frame came, or the stream failed.
CloseDone(s) ==
  /\ closeOp[s] = "running"
  /\ \/ status[s] = "closed" \/ s \in broken
     \/ \E i \in 1..Len(toServer[s]) : toServer[s][i] = CloseFrame
  /\ status' = [status EXCEPT ![s] = "closed"]
  /\ closeOp' = [closeOp EXCEPT ![s] = "done"]
  /\ HandleDisconnection(s)
  /\ UNCHANGED <<reading, granted, foreign, network, pages>>

\* userSessions_ refers to the session and the session to the handler that has
\* userSessions_: neither is destroyed with the server, nor is the socket.
Outlives(s) == status[s] \in {"open", "closing"} /\ \E u \in Users : userSessions[u] = s

\* A WebSocket handshake fails: ws->close() throws out of io_context.run(),
\* and main builds a new io_context, Server and BusinessHandler.  The sockets of
\* the sessions that are destroyed are closed; the others are read no more.
Restart ==
  /\ restarts < MaxRestarts
  /\ restarts' = restarts + 1
  /\ status' = [s \in Sessions |->
       IF status[s] \in {"none", "orphaned"} THEN status[s]
       ELSE IF Outlives(s) THEN "orphaned" ELSE "closed"]
  /\ reading' = [s \in Sessions |-> FALSE]
  /\ closeOp' = [s \in Sessions |-> "none"]
  /\ userSessions' = [u \in Users |-> None]
  /\ toServer' = [s \in Sessions |-> <<>>]
  /\ toClient' = [s \in Sessions |-> <<>>]
  /\ UNCHANGED <<granted, foreign, broken, pages>>

PageStep(p) ==
  \/ \E s \in Sessions : Connect(p, s)
  \/ \E u \in Users : SubmitLogin(p, u)
  \/ Receive(p)
  \/ Unload(p)
  \/ Drop(p)

Handle(s) ==
  \/ \E auth \in BOOLEAN : HandleLogin(s, auth)
  \/ \E writing \in BOOLEAN : HandleLogout(s, writing)
  \/ HandleClose(s)

Next ==
  \/ \E p \in Pages : PageStep(p)
  \/ \E s \in Sessions : Handle(s) \/ ReadFails(s) \/ CloseStart(s) \/ CloseDone(s)
  \/ Restart

Spec == Init /\ [][Next]_vars

(***************************************************************************)
(* The event loop handles what arrives on a connection that is not broken, *)
(* and finishes every close it can.  Pages owe nothing, and a broken       *)
(* connection need never be noticed: no timeout is set on the streams.     *)
(***************************************************************************)
Fairness ==
  \A s \in Sessions :
    /\ WF_vars(s \notin broken /\ Handle(s))
    /\ WF_vars(CloseStart(s))
    /\ WF_vars(CloseDone(s))

FairSpec == Spec /\ Fairness

-----------------------------------------------------------------------------
Bound(s) == \E u \in Users : userSessions[u] = s

\* A user told "success" on a live session is the one messages for that user
\* go to, unless somebody else's LOGOUT named that user: logins never steal or
\* share a user, and every other handler leaves the binding alone.
OnlineIsBound ==
  \A u \in Users, s \in Sessions :
    /\ <<u, s>> \in granted /\ u \notin foreign
    /\ status[s] \in {"open", "closing"}
    => userSessions[u] = s

\* Once a session is gone, closed by the server or left by its page over a
\* connection that held, no user is bound to it: whichever of the two closing
\* handshakes wins, LOGOUT or handleDisconnection has unbound it.
Released ==
  \A s \in Sessions :
    /\ status[s] = "closed"
    /\ closeOp[s] = "done" \/ (closeOp[s] = "none" /\ s \notin broken)
    => ~Bound(s)

\* A connection that is open at both ends and holds is read by the server, or
\* is being closed by it.
ConnectedIsServed ==
  \A p \in Pages :
    open[p] /\ sock[p] \notin broken /\ status[sock[p]] # "closed" =>
      reading[sock[p]] \/ closeOp[sock[p]] \in {"queued", "running"}

\* Only one session at a time can have a user logged in, as loginUser's
\* comment demands.
OneLoginPerUser ==
  \A u \in Users, s, t \in Sessions :
    /\ <<u, s>> \in granted /\ <<u, t>> \in granted
    /\ status[s] = "open" /\ status[t] = "open"
    => s = t

\* A session whose operations have all ended is not kept by userSessions_.
DeadSessionsReleased ==
  \A s \in Sessions :
    /\ status[s] = "closed" /\ ~reading[s]
    /\ closeOp[s] \in {"none", "done"}
    => ~Bound(s)

\* A page that logs out over a connection that holds is unbound in the end,
\* even when its LOGOUT named another user than the one logged in on it.
LeavingUnbinds ==
  \A s \in Sessions :
    (\E i \in 1..Len(toServer[s]) : toServer[s][i].type = "LOGOUT")
      ~> (s \in broken \/ ~Bound(s))
=============================================================================
