---------------------------- MODULE FriendsProofs ----------------------------
(***************************************************************************)
(* Theorems about Friends, for any sets of users, pages and connections    *)
(* and any bounds.                                                         *)
(***************************************************************************)
EXTENDS Friends, QueueLemmas

\* A connection belongs to one page at most, and before it is made nothing is
\* on it and nobody is bound to it.
Unused ==
  /\ \A c \in Conns \ used :
       /\ \A m \in Request : ~Holds(toServer[c], m)
       /\ \A m \in Push : ~Holds(toClient[c], m)
       /\ \A u \in Users : userSessions[u] # c
       /\ \A p \in Pages : sock[p] # c
  /\ \A p, q \in Pages : sock[p] = sock[q] /\ sock[p] # None => p = q

\* Whoever is bound to the connection of a page logged in there.
Bound ==
  \A u \in Users, p \in Pages :
    userSessions[u] = sock[p] /\ sock[p] # None => u \in proved[p]

\* A request on its way to the server says what really happened.
Spoken ==
  \A c \in Conns : \A m \in Request : Holds(toServer[c], m) =>
    /\ m.type = "ADD_FRIEND" => m.to \in Users /\ <<m.from, m.to>> \in asked
    /\ m.type = "accept" => /\ m.to \in Users
                            /\ <<m.to, m.from>> \in asked /\ <<m.from, m.to>> \in accepts
    /\ m.type = "reject" => m.to \in Users

\* A FRIEND_REQUEST goes to a page where the one it names logged in.
Pushed ==
  \A c \in Conns : \A m \in Push : Holds(toClient[c], m) /\ m.type = "FRIEND_REQUEST" =>
    /\ m.to \in Users /\ <<m.from, m.to>> \in asked
    /\ \A p \in Pages : sock[p] = c => m.to \in proved[p]

\* So does each listener of a notification.
Notified ==
  \A p \in Pages, a \in Users, b \in Users :
    Holds(listeners[p], <<a, b>>) \/ Holds(queue[p], <<a, b>>) =>
      <<a, b>> \in asked /\ b \in proved[p]

\* A page whose logins did not race has sent at most the login of the id it keeps,
\* and is in the chat only if that one succeeded.
Identified ==
  \A p \in Pages :
    /\ p \in raced => userId[p] \in Users
    /\ p \notin raced /\ p \in chat => userId[p] \in proved[p]
    /\ p \notin raced /\ sock[p] # None =>
         /\ \A m \in Request :
              Holds(toServer[sock[p]], m) /\ m.type = "LOGIN" => m.from = userId[p]
         /\ \A m \in Push :
              Holds(toClient[sock[p]], m) /\ m.type = "LOGIN_RESPONSE" => userId[p] \in proved[p]

\* The inductive invariant.
IInv ==
  /\ TypeOK
  /\ Unused /\ Bound /\ Spoken /\ Pushed /\ Notified /\ Identified
  /\ RowsAgree /\ AcceptedByBoth

-----------------------------------------------------------------------------
(* What the steps do to the queues. *)

\* No accepted row becomes pending again.
Kept == \A p \in Pairs : friends[p] = "accepted" => friends'[p] # "pending"

\* The table and its histories as they were, or with more asked and accepted.
LEMMA SameRows ==
  ASSUME IInv, UNCHANGED <<friends, disturbed>>, asked \subseteq asked', accepts \subseteq accepts'
  PROVE  RowsAgree' /\ AcceptedByBoth' /\ Kept
<1>1. RowsAgree' /\ AcceptedByBoth'
  BY DEF IInv, RowsAgree, AcceptedByBoth
<1> QED
  BY <1>1 DEF Kept

\* sendMessage adds one request to the connection of the page, if it has one.
LEMMA SendEffect ==
  ASSUME TypeOK, NEW p \in Pages, NEW type, NEW from, NEW to,
         [type |-> type, from |-> from, to |-> to] \in Request,
         SendMessage(p, type, from, to)
  PROVE  /\ toServer' \in [Conns -> Seq(Request)]
         /\ \A c \in Conns : \A m \in Request : Holds(toServer'[c], m) =>
              \/ Holds(toServer[c], m)
              \/ c = sock[p] /\ sock[p] # None /\ m = [type |-> type, from |-> from, to |-> to]
<1> DEFINE n == [type |-> type, from |-> from, to |-> to]
<1>1. toServer \in [Conns -> Seq(Request)] /\ sock[p] \in Conns \cup {None}
  BY DEF TypeOK
<1>2. CASE sock[p] = None
  BY <1>1, <1>2 DEF SendMessage
<1>3. CASE sock[p] # None
  <2>1. toServer' = [toServer EXCEPT ![sock[p]] = Append(@, n)] /\ sock[p] \in Conns
    BY <1>1, <1>3 DEF SendMessage
  <2>2. /\ Append(toServer[sock[p]], n) \in Seq(Request)
        /\ \A m : Holds(Append(toServer[sock[p]], n), m) <=> Holds(toServer[sock[p]], m) \/ m = n
    BY <1>1, <2>1, QueueAppend
  <2> HIDE DEF n
  <2>3. /\ toServer' \in [Conns -> Seq(Request)]
        /\ \A c \in Conns : \A m \in Request : Holds(toServer'[c], m) =>
              \/ Holds(toServer[c], m)
              \/ c = sock[p] /\ m = n
    BY <1>1, <2>1, <2>2
  <2> QED
    BY <1>3, <2>3 DEF n
<1> QED
  BY <1>2, <1>3

\* A message that was read is no longer on the connection.
LEMMA TakeEffect ==
  ASSUME TypeOK, NEW c \in Conns, NEW type, Take(c, type)
  PROVE  /\ toServer' \in [Conns -> Seq(Request)]
         /\ \A d \in Conns : \A m \in Request :
              Holds(toServer'[d], m) => Holds(toServer[d], m)
         /\ Head(toServer[c]) \in Request /\ Head(toServer[c]).from \in Users
         /\ Holds(toServer[c], Head(toServer[c])) /\ Head(toServer[c]).type = type
<1>1. /\ toServer \in [Conns -> Seq(Request)] /\ toServer[c] \in Seq(Request)
      /\ toServer[c] # <<>> /\ Head(toServer[c]).type = type
      /\ toServer' = [toServer EXCEPT ![c] = Tail(@)]
  BY DEF TypeOK, Take
<1>2. /\ Tail(toServer[c]) \in Seq(Request) /\ Head(toServer[c]) \in Request
      /\ \A m : Holds(toServer[c], m) <=> m = Head(toServer[c]) \/ Holds(Tail(toServer[c]), m)
  BY <1>1, QueueTail
<1>3. Head(toServer[c]).from \in Users
  BY <1>2 DEF Request
<1> QED
  BY <1>1, <1>2, <1>3

\* A message that is sent reaches the page that has the connection.
LEMMA PushEffect ==
  ASSUME TypeOK, NEW c \in Conns \cup {None}, NEW n \in Push, SendTo(c, n)
  PROVE  /\ toClient' \in [Conns -> Seq(Push)]
         /\ \A d \in Conns : \A m \in Push : Holds(toClient'[d], m) =>
              \/ Holds(toClient[d], m)
              \/ d = c /\ m = n /\ (\E p \in Pages : sock[p] = c) /\ c # None
<1>1. toClient \in [Conns -> Seq(Push)]
  BY DEF TypeOK
<1>2. CASE UNCHANGED toClient
  BY <1>1, <1>2
<1>3. CASE toClient' # toClient
  <2>1. /\ c \in Conns /\ c # None /\ \E p \in Pages : sock[p] = c
        /\ toClient' = [toClient EXCEPT ![c] = Append(@, n)]
    BY <1>3 DEF SendTo
  <2>2. /\ Append(toClient[c], n) \in Seq(Push)
        /\ \A m : Holds(Append(toClient[c], n), m) <=> Holds(toClient[c], m) \/ m = n
    BY <1>1, <2>1, QueueAppend
  <2> QED
    BY <1>1, <2>1, <2>2
<1> QED
  BY <1>2, <1>3

\* A page without its connection receives nothing more.
LEMMA DisconnectEffect ==
  ASSUME TypeOK, NEW p \in Pages, Disconnect(p)
  PROVE  /\ sock' \in [Pages -> Conns \cup {None}]
         /\ \A q \in Pages : sock'[q] = IF q = p THEN None ELSE sock[q]
         /\ toClient' \in [Conns -> Seq(Push)]
         /\ \A d \in Conns : \A m \in Push : Holds(toClient'[d], m) => Holds(toClient[d], m)
<1>1. /\ toClient \in [Conns -> Seq(Push)] /\ sock \in [Pages -> Conns \cup {None}]
      /\ sock' = [sock EXCEPT ![p] = None]
      /\ toClient' = [c \in Conns |-> IF c = sock[p] THEN <<>> ELSE toClient[c]]
  BY DEF TypeOK, Disconnect
<1>2. <<>> \in Seq(Push) /\ \A m : ~Holds(<<>>, m)
  BY EmptySeq, QueueEmpty
<1> QED
  BY <1>1, <1>2

\* The initial states satisfy the inductive invariant.
LEMMA InitIInv == Init => IInv
<1> SUFFICES ASSUME Init PROVE IInv
  OBVIOUS
<1>1. (\A S : <<>> \in Seq(S)) /\ \A m : ~Holds(<<>>, m)
  BY EmptySeq, QueueEmpty
<1>2. TypeOK
  BY <1>1 DEF Init, TypeOK, Status
<1>3. Unused /\ Bound /\ Spoken /\ Pushed
  BY <1>1, NoneAssumption DEF Init, Unused, Bound, Spoken, Pushed
<1>4. Notified /\ Identified
  BY <1>1 DEF Init, Notified, Identified
<1>5. RowsAgree /\ AcceptedByBoth
  BY DEF Init, RowsAgree, AcceptedByBoth, Pairs
<1> QED
  BY <1>2, <1>3, <1>4, <1>5 DEF IInv

-----------------------------------------------------------------------------
(* What the pages do leaves the table alone. *)

LEMMA ConnectIInv ==
  ASSUME IInv, NEW p \in Pages, NEW c \in Conns, Connect(p, c)
  PROVE  IInv' /\ Kept
<1>1. /\ sock[p] = None /\ c \notin used
      /\ sock' = [sock EXCEPT ![p] = c] /\ used' = used \cup {c}
      /\ UNCHANGED <<friends, userSessions, closing, toServer, toClient, userId, chat, proved,
                     raced, listeners, visible, queue, asks, logins, asked, accepts, disturbed>>
  BY DEF Connect, sessions, login, notification, history
<1>2. /\ sock \in [Pages -> Conns \cup {None}]
      /\ \A m \in Request : ~Holds(toServer[c], m)
      /\ \A m \in Push : ~Holds(toClient[c], m)
      /\ \A u \in Users : userSessions[u] # c
      /\ \A q \in Pages : sock[q] # c
  BY <1>1 DEF IInv, TypeOK, Unused
<1>3. TypeOK'
  BY <1>1, <1>2 DEF IInv, TypeOK
<1>4. Unused'
  BY <1>1, <1>2 DEF IInv, Unused
<1>5. Bound'
  BY <1>1, <1>2 DEF IInv, Bound
<1>6. Spoken' /\ Notified'
  BY <1>1 DEF IInv, Spoken, Notified
<1>7. Pushed'
  BY <1>1, <1>2 DEF IInv, Pushed
<1>8. Identified'
  BY <1>1, <1>2 DEF IInv, Identified
<1> QED
  BY <1>1, <1>3, <1>4, <1>5, <1>6, <1>7, <1>8, SameRows DEF IInv

LEMMA SubmitLoginIInv ==
  ASSUME IInv, NEW p \in Pages, NEW u \in Users, SubmitLogin(p, u)
  PROVE  IInv' /\ Kept
<1> DEFINE n == [type |-> "LOGIN", from |-> u, to |-> None]
<1>1. /\ logins' = logins + 1 /\ userId' = [userId EXCEPT ![p] = u]
      /\ SendMessage(p, "LOGIN", u, None)
      /\ raced' = IF LoginUnderWay(p) \/ p \in chat THEN raced \cup {p} ELSE raced
      /\ UNCHANGED <<friends, userSessions, closing, toClient, used, sock, chat, proved,
                     listeners, visible, queue, asks, asked, accepts, disturbed>>
  BY DEF SubmitLogin, sessions, notification, history
<1>2. n \in Request /\ n.type = "LOGIN" /\ n.from = u
  BY DEF Request
<1>3. /\ toServer' \in [Conns -> Seq(Request)]
      /\ \A c \in Conns : \A m \in Request : Holds(toServer'[c], m) =>
           Holds(toServer[c], m) \/ (c = sock[p] /\ sock[p] # None /\ m = n)
  BY <1>1, <1>2, SendEffect DEF IInv
<1> HIDE DEF n
<1>4. TypeOK'
  BY <1>1, <1>3 DEF IInv, TypeOK
<1>5. Unused'
  BY <1>1, <1>3 DEF IInv, Unused
<1>6. Bound' /\ Pushed' /\ Notified'
  BY <1>1 DEF IInv, Bound, Pushed, Notified
<1>7. Spoken'
  BY <1>1, <1>2, <1>3 DEF IInv, Spoken
<1>8. Identified'
  <2>1. ASSUME p \notin raced', sock[p] # None
        PROVE  /\ p \notin raced /\ p \notin chat
               /\ \A m \in Request : Holds(toServer[sock[p]], m) => m.type # "LOGIN"
               /\ \A m \in Push : Holds(toClient[sock[p]], m) => m.type # "LOGIN_RESPONSE"
    <3>1. p \notin raced /\ ~LoginUnderWay(p) /\ p \notin chat
      BY <1>1, <2>1
    <3>2. /\ DOMAIN toServer[sock[p]] = 1..Len(toServer[sock[p]])
          /\ DOMAIN toClient[sock[p]] = 1..Len(toClient[sock[p]])
      BY <2>1, LenProperties DEF IInv, TypeOK
    <3> QED
      BY <2>1, <3>1, <3>2 DEF LoginUnderWay, Holds
  <2>2. userId' \in [Pages -> Users \cup {None}] /\ sock \in [Pages -> Conns \cup {None}]
    BY <1>4 DEF IInv, TypeOK
  <2> SUFFICES ASSUME NEW q \in Pages
               PROVE  /\ q \in raced' => userId'[q] \in Users
                      /\ q \notin raced' /\ q \in chat => userId'[q] \in proved[q]
                      /\ q \notin raced' /\ sock[q] # None =>
                           /\ \A m \in Request :
                                Holds(toServer'[sock[q]], m) /\ m.type = "LOGIN" =>
                                  m.from = userId'[q]
                           /\ \A m \in Push :
                                Holds(toClient[sock[q]], m) /\ m.type = "LOGIN_RESPONSE" =>
                                  userId'[q] \in proved[q]
    BY <1>1 DEF Identified
  <2>3. CASE q = p
    BY <1>1, <1>2, <1>3, <2>1, <2>2, <2>3 DEF IInv, TypeOK
  <2>4. CASE q # p
    <3>1. /\ userId'[q] = userId[q] /\ (q \in raced' <=> q \in raced)
          /\ sock[q] # None => sock[q] # sock[p] /\ sock[q] \in Conns
      BY <1>1, <2>2, <2>4 DEF IInv, TypeOK, Unused
    <3> QED
      BY <1>1, <1>3, <3>1 DEF IInv, Identified
  <2> QED
    BY <2>3, <2>4
<1> QED
  BY <1>1, <1>4, <1>5, <1>6, <1>7, <1>8, SameRows DEF IInv

\* The page asks in the name of a user it has logged in as.
LEMMA AskIInv ==
  ASSUME IInv, NEW p \in Pages, NEW v \in Users, Ask(p, v)
  PROVE  IInv' /\ Kept
<1> DEFINE n == [type |-> "ADD_FRIEND", from |-> userId[p], to |-> v]
<1>1. /\ p \in chat /\ SendMessage(p, "ADD_FRIEND", userId[p], v) /\ asks' = asks + 1
      /\ asked' = IF MayAsk(p) THEN asked \cup {<<userId[p], v>>} ELSE asked
      /\ UNCHANGED <<friends, userSessions, closing, toClient, used, sock, userId, chat, proved,
                     raced, listeners, visible, queue, logins, accepts, disturbed>>
  BY DEF Ask, sessions, login, notification
<1>2. MayAsk(p) /\ userId[p] \in Users
  BY <1>1 DEF IInv, TypeOK, Identified, MayAsk
<1>3. asked' = asked \cup {<<userId[p], v>>} /\ asked \subseteq asked'
  BY <1>1, <1>2
<1>4. /\ n \in Request /\ n.type = "ADD_FRIEND" /\ n.to \in Users
      /\ <<n.from, n.to>> \in asked'
  BY <1>2, <1>3 DEF Request
<1>5. /\ toServer' \in [Conns -> Seq(Request)]
      /\ \A c \in Conns : \A m \in Request : Holds(toServer'[c], m) =>
           Holds(toServer[c], m) \/ (c = sock[p] /\ sock[p] # None /\ m = n)
  BY <1>1, <1>4, SendEffect DEF IInv
<1> HIDE DEF n
<1>6. TypeOK'
  <2>1. asked' \in SUBSET Pairs
    BY <1>2, <1>3 DEF IInv, TypeOK, Pairs
  <2> QED
    BY <1>1, <1>5, <2>1 DEF IInv, TypeOK
<1>7. Unused'
  BY <1>1, <1>5 DEF IInv, Unused
<1>8. Bound' /\ Pushed' /\ Notified'
  BY <1>1, <1>3 DEF IInv, Bound, Pushed, Notified
<1>9. Spoken'
  BY <1>1, <1>3, <1>4, <1>5 DEF IInv, Spoken
<1>10. Identified'
  BY <1>1, <1>4, <1>5 DEF IInv, TypeOK, Identified
<1> QED
  BY <1>1, <1>3, <1>6, <1>7, <1>8, <1>9, <1>10, SameRows DEF IInv

LEMMA ReceiveIInv ==
  ASSUME IInv, NEW p \in Pages, NEW torn \in BOOLEAN, Receive(p, torn)
  PROVE  IInv' /\ Kept
<1> DEFINE c == sock[p]
           h == Head(toClient[c])
           shown == ~torn /\ h.type = "FRIEND_REQUEST" /\ userId[p] = h.to
<1>1. /\ c # None /\ toClient[c] # <<>>
      /\ toClient' = [toClient EXCEPT ![c] = Tail(@)]
      /\ chat' = IF ~torn /\ h.type = "LOGIN_RESPONSE" THEN chat \cup {p} ELSE chat
      /\ listeners' = IF shown THEN [listeners EXCEPT ![p] = Append(@, <<h.from, h.to>>)]
                               ELSE listeners
      /\ visible' = IF shown THEN visible \cup {p} ELSE visible
      /\ UNCHANGED <<friends, userSessions, closing, toServer, used, sock, userId, proved, raced,
                     queue, asks, logins, asked, accepts, disturbed>>
  BY DEF Receive, sessions, history
<1>2. c \in Conns /\ toClient \in [Conns -> Seq(Push)] /\ listeners \in [Pages -> Seq(Pairs)]
  BY <1>1 DEF IInv, TypeOK
<1>3. /\ Tail(toClient[c]) \in Seq(Push) /\ h \in Push
      /\ \A m : Holds(toClient[c], m) <=> m = h \/ Holds(Tail(toClient[c]), m)
  BY <1>1, <1>2, QueueTail
<1>4. /\ toClient' \in [Conns -> Seq(Push)]
      /\ \A d \in Conns : \A m \in Push : Holds(toClient'[d], m) => Holds(toClient[d], m)
      /\ Holds(toClient[c], h)
  BY <1>1, <1>2, <1>3
<1>5. h.type = "FRIEND_REQUEST" =>
        h.to \in Users /\ <<h.from, h.to>> \in asked /\ h.to \in proved[p]
  BY <1>2, <1>3, <1>4 DEF IInv, Pushed
<1>6. shown => <<h.from, h.to>> \in Pairs
  BY <1>5 DEF IInv, TypeOK
<1>7. /\ listeners' \in [Pages -> Seq(Pairs)]
      /\ \A q \in Pages : \A a \in Pairs : Holds(listeners'[q], a) =>
           Holds(listeners[q], a) \/ (q = p /\ shown /\ a = <<h.from, h.to>>)
  <2>1. CASE shown
    <3> DEFINE e == <<h.from, h.to>>
    <3>1. /\ listeners' = [listeners EXCEPT ![p] = Append(@, e)]
          /\ e \in Pairs /\ listeners[p] \in Seq(Pairs)
      BY <1>1, <1>2, <1>6, <2>1
    <3> HIDE DEF e
    <3>2. /\ Append(listeners[p], e) \in Seq(Pairs)
          /\ \A a : Holds(Append(listeners[p], e), a) <=> Holds(listeners[p], a) \/ a = e
      BY <3>1, QueueAppend
    <3>3. /\ listeners' \in [Pages -> Seq(Pairs)]
          /\ \A q \in Pages : \A a \in Pairs : Holds(listeners'[q], a) =>
               Holds(listeners[q], a) \/ (q = p /\ a = e)
      BY <1>2, <3>1, <3>2
    <3> QED
      BY <2>1, <3>3 DEF e
  <2>2. CASE ~shown
    BY <1>1, <1>2, <2>2
  <2> QED
    BY <2>1, <2>2
<1> HIDE DEF h
<1>8. TypeOK'
  BY <1>1, <1>4, <1>7 DEF IInv, TypeOK
<1>9. Unused'
  BY <1>1, <1>4 DEF IInv, Unused
<1>10. Bound' /\ Spoken'
  BY <1>1 DEF IInv, Bound, Spoken
<1>11. Pushed'
  BY <1>1, <1>4 DEF IInv, Pushed
<1>12. Notified'
  <2> SUFFICES ASSUME NEW q \in Pages, NEW a \in Users, NEW b \in Users,
                      Holds(listeners'[q], <<a, b>>) \/ Holds(queue[q], <<a, b>>)
               PROVE  <<a, b>> \in asked /\ b \in proved[q]
    BY <1>1 DEF Notified
  <2>1. \/ Holds(listeners[q], <<a, b>>) \/ Holds(queue[q], <<a, b>>)
        \/ q = p /\ shown /\ a = h.from /\ b = h.to
    BY <1>7 DEF Pairs
  <2> QED
    BY <1>5, <2>1 DEF IInv, Notified
<1>13. Identified'
  <2>1. h.type = "LOGIN_RESPONSE" /\ p \notin raced => userId[p] \in proved[p]
    BY <1>1, <1>3, <1>4 DEF IInv, Identified
  <2>2. \A q \in Pages : sock[q] # None => sock[q] \in Conns
    BY DEF IInv, TypeOK
  <2> QED
    BY <1>1, <1>4, <2>1, <2>2 DEF IInv, Identified
<1> QED
  BY <1>1, <1>8, <1>9, <1>10, <1>11, <1>12, <1>13, SameRows DEF IInv

LEMMA ClickIInv ==
  ASSUME IInv, NEW p \in Pages, Click(p)
  PROVE  IInv' /\ Kept
<1>1. /\ queue' = [queue EXCEPT ![p] = listeners[p]] /\ visible' = visible \ {p}
      /\ UNCHANGED <<friends, userSessions, closing, toServer, toClient, used, sock, userId, chat,
                     proved, raced, listeners, asks, logins, asked, accepts, disturbed>>
  BY DEF Click, sessions, network, login, history
<1>2. TypeOK'
  BY <1>1 DEF IInv, TypeOK
<1>3. Unused' /\ Bound' /\ Spoken' /\ Pushed' /\ Identified'
  BY <1>1 DEF IInv, Unused, Bound, Spoken, Pushed, Identified
<1>4. Notified'
  BY <1>1 DEF IInv, TypeOK, Notified
<1> QED
  BY <1>1, <1>2, <1>3, <1>4, SameRows DEF IInv

\* Whoever is asked by a dialog logged in on the page and was asked for.
LEMMA ConfirmIInv ==
  ASSUME IInv, NEW p \in Pages, NEW choice \in {"accept", "reject"}, Confirm(p, choice)
  PROVE  IInv' /\ Kept
<1> DEFINE v == Head(queue[p])[1]
           u == Head(queue[p])[2]
           n == [type |-> choice, from |-> u, to |-> v]
<1>1. /\ queue[p] # <<>> /\ SendMessage(p, choice, u, v)
      /\ accepts' = IF choice = "accept" /\ u \in proved[p] THEN accepts \cup {<<u, v>>}
                                                            ELSE accepts
      /\ queue' = [queue EXCEPT ![p] = Tail(@)]
      /\ UNCHANGED <<friends, userSessions, closing, toClient, used, sock, userId, chat, proved,
                     raced, listeners, visible, asks, logins, asked, disturbed>>
  BY DEF Confirm, Free, sessions, login
<1>2. /\ Tail(queue[p]) \in Seq(Pairs) /\ Head(queue[p]) \in Pairs
      /\ \A a : Holds(queue[p], a) <=> a = Head(queue[p]) \/ Holds(Tail(queue[p]), a)
      /\ queue \in [Pages -> Seq(Pairs)]
  BY <1>1, QueueTail DEF IInv, TypeOK
<1>3. u \in Users /\ v \in Users /\ Head(queue[p]) = <<v, u>>
  BY <1>2 DEF Pairs
<1>4. <<v, u>> \in asked /\ u \in proved[p]
  BY <1>2, <1>3 DEF IInv, Notified
<1>5. /\ accepts \subseteq accepts' /\ (choice = "accept" => <<u, v>> \in accepts')
      /\ accepts' \in SUBSET Pairs
  BY <1>1, <1>3, <1>4 DEF IInv, TypeOK, Pairs
<1>6. n \in Request /\ n.type = choice /\ n.from = u /\ n.to = v
  BY <1>3 DEF Request
<1>7. /\ toServer' \in [Conns -> Seq(Request)]
      /\ \A c \in Conns : \A m \in Request : Holds(toServer'[c], m) =>
           Holds(toServer[c], m) \/ (c = sock[p] /\ sock[p] # None /\ m = n)
  BY <1>1, <1>6, SendEffect DEF IInv
<1>8. /\ queue' \in [Pages -> Seq(Pairs)]
      /\ \A q \in Pages : \A a \in Pairs : Holds(queue'[q], a) => Holds(queue[q], a)
  BY <1>1, <1>2
<1> HIDE DEF n, u, v
<1>9. TypeOK'
  BY <1>1, <1>5, <1>7, <1>8 DEF IInv, TypeOK
<1>10. Unused'
  BY <1>1, <1>7 DEF IInv, Unused
<1>11. Bound' /\ Pushed'
  BY <1>1 DEF IInv, Bound, Pushed
<1>12. Spoken'
  BY <1>1, <1>3, <1>4, <1>5, <1>6, <1>7 DEF IInv, Spoken
<1>13. Notified'
  BY <1>1, <1>8 DEF IInv, Notified, Pairs
<1>14. Identified'
  BY <1>1, <1>6, <1>7 DEF IInv, TypeOK, Identified
<1> QED
  BY <1>1, <1>5, <1>9, <1>10, <1>11, <1>12, <1>13, <1>14, SameRows DEF IInv

LEMMA LeaveIInv ==
  ASSUME IInv, NEW p \in Pages, NEW stays \in BOOLEAN, Leave(p, stays)
  PROVE  IInv' /\ Kept
<1>1. /\ queue[p] = <<>> /\ Disconnect(p)
      /\ \/ UNCHANGED toServer
         \/ userId[p] # None /\ SendMessage(p, "LOGOUT", userId[p], None)
      /\ \/ UNCHANGED <<userId, chat, proved, raced, listeners, visible>>
         \/ /\ userId' = [userId EXCEPT ![p] = None]
            /\ chat' = chat \ {p} /\ visible' = visible \ {p} /\ raced' = raced \ {p}
            /\ listeners' = [listeners EXCEPT ![p] = <<>>]
            /\ proved' = [proved EXCEPT ![p] = {}]
      /\ UNCHANGED <<friends, userSessions, closing, used, queue, asks, logins, asked, accepts,
                     disturbed>>
  BY DEF Leave, Free, sessions, login, history
<1>2. /\ sock' \in [Pages -> Conns \cup {None}] /\ sock'[p] = None
      /\ \A q \in Pages \ {p} : sock'[q] = sock[q]
      /\ toClient' \in [Conns -> Seq(Push)]
      /\ \A d \in Conns : \A m \in Push : Holds(toClient'[d], m) => Holds(toClient[d], m)
  BY <1>1, DisconnectEffect DEF IInv
<1>3. /\ toServer' \in [Conns -> Seq(Request)]
      /\ \A c \in Conns : \A m \in Request : Holds(toServer'[c], m) =>
           Holds(toServer[c], m) \/ (m.type = "LOGOUT" /\ c = sock[p])
  <2>1. CASE UNCHANGED toServer
    BY <2>1 DEF IInv, TypeOK
  <2>2. CASE userId[p] # None /\ SendMessage(p, "LOGOUT", userId[p], None)
    <3> DEFINE n == [type |-> "LOGOUT", from |-> userId[p], to |-> None]
    <3>1. n \in Request /\ n.type = "LOGOUT"
      BY <2>2 DEF IInv, TypeOK, Request
    <3> QED
      BY <2>2, <3>1, SendEffect DEF IInv
  <2> QED
    BY <1>1, <2>1, <2>2
<1>4. /\ \A q \in Pages \ {p} : /\ userId'[q] = userId[q] /\ proved'[q] = proved[q]
                                /\ listeners'[q] = listeners[q]
                                /\ (q \in chat' <=> q \in chat) /\ (q \in raced' <=> q \in raced)
      /\ \/ /\ userId'[p] = userId[p] /\ proved'[p] = proved[p] /\ listeners'[p] = listeners[p]
            /\ (p \in chat' <=> p \in chat) /\ (p \in raced' <=> p \in raced)
         \/ /\ p \notin chat' /\ p \notin raced' /\ listeners'[p] = <<>>
      /\ userId' \in [Pages -> Users \cup {None}] /\ proved' \in [Pages -> SUBSET Users]
      /\ chat' \subseteq Pages /\ raced' \subseteq Pages /\ visible' \subseteq Pages
  BY <1>1 DEF IInv, TypeOK
<1>5. listeners' \in [Pages -> Seq(Pairs)] /\ \A a : ~Holds(<<>>, a)
  <2>1. <<>> \in Seq(Pairs) /\ \A a : ~Holds(<<>>, a)
    BY EmptySeq, QueueEmpty
  <2> QED
    BY <1>1, <2>1 DEF IInv, TypeOK
<1>6. TypeOK'
  BY <1>1, <1>2, <1>3, <1>4, <1>5 DEF IInv, TypeOK
<1>7. Unused'
  <2>1. \A c \in Conns \ used : sock[p] # c
    BY DEF IInv, Unused
  <2>2. \A c \in Conns \ used : \A q \in Pages : sock'[q] # c
    BY <1>2, NoneAssumption DEF IInv, Unused
  <2>3. \A p1, q \in Pages : sock'[p1] = sock'[q] /\ sock'[p1] # None => p1 = q
    BY <1>2 DEF IInv, Unused
  <2> QED
    BY <1>1, <1>2, <1>3, <2>1, <2>2, <2>3 DEF IInv, Unused
<1>8. Bound'
  BY <1>1, <1>2, <1>4 DEF IInv, Bound
<1>9. Spoken'
  BY <1>1, <1>3 DEF IInv, Spoken
<1>10. Pushed'
  BY <1>1, <1>2, <1>4, NoneAssumption DEF IInv, Pushed
<1>11. Notified'
  BY <1>1, <1>4, <1>5 DEF IInv, Notified
<1>12. Identified'
  <2>1. \A q \in Pages \ {p} : sock[q] # None => sock[q] \in Conns
    BY DEF IInv, TypeOK
  <2>2. p \in raced' => userId'[p] \in Users
    BY <1>4 DEF IInv, Identified
  <2>3. p \notin raced' /\ p \in chat' => userId'[p] \in proved'[p]
    BY <1>4 DEF IInv, Identified
  <2> SUFFICES ASSUME NEW q \in Pages \ {p}
               PROVE  /\ q \in raced' => userId'[q] \in Users
                      /\ q \notin raced' /\ q \in chat' => userId'[q] \in proved'[q]
                      /\ q \notin raced' /\ sock'[q] # None =>
                           /\ \A m \in Request :
                                Holds(toServer'[sock'[q]], m) /\ m.type = "LOGIN" =>
                                  m.from = userId'[q]
                           /\ \A m \in Push :
                                Holds(toClient'[sock'[q]], m) /\ m.type = "LOGIN_RESPONSE" =>
                                  userId'[q] \in proved'[q]
    BY <1>2, <2>2, <2>3 DEF Identified
  <2> QED
    BY <1>2, <1>3, <1>4, <2>1 DEF IInv, Identified
<1> QED
  BY <1>1, <1>6, <1>7, <1>8, <1>9, <1>10, <1>11, <1>12, SameRows DEF IInv

LEMMA DropIInv ==
  ASSUME IInv, NEW p \in Pages, Drop(p)
  PROVE  IInv' /\ Kept
<1>1. /\ Disconnect(p)
      /\ UNCHANGED <<friends, userSessions, closing, toServer, used, userId, chat, proved, raced,
                     listeners, visible, queue, asks, logins, asked, accepts, disturbed>>
  BY DEF Drop, sessions, login, notification, history
<1>2. /\ sock' \in [Pages -> Conns \cup {None}] /\ sock'[p] = None
      /\ \A q \in Pages \ {p} : sock'[q] = sock[q]
      /\ toClient' \in [Conns -> Seq(Push)]
      /\ \A d \in Conns : \A m \in Push : Holds(toClient'[d], m) => Holds(toClient[d], m)
  BY <1>1, DisconnectEffect DEF IInv
<1>3. TypeOK'
  BY <1>1, <1>2 DEF IInv, TypeOK
<1>4. Unused'
  BY <1>1, <1>2, NoneAssumption DEF IInv, Unused
<1>5. Bound' /\ Spoken' /\ Notified'
  BY <1>1, <1>2 DEF IInv, Bound, Spoken, Notified
<1>6. Pushed'
  BY <1>1, <1>2, NoneAssumption DEF IInv, Pushed
<1>7. Identified'
  <2>1. \A q \in Pages : sock[q] # None => sock[q] \in Conns
    BY DEF IInv, TypeOK
  <2> QED
    BY <1>1, <1>2, <2>1 DEF IInv, Identified
<1> QED
  BY <1>1, <1>3, <1>4, <1>5, <1>6, <1>7, SameRows DEF IInv

LEMMA LoseIInv ==
  ASSUME IInv, NEW c \in Conns, Lose(c)
  PROVE  IInv' /\ Kept
<1>1. /\ toServer' = [toServer EXCEPT ![c] = <<>>]
      /\ UNCHANGED <<friends, userSessions, closing, toClient, used, sock, userId, chat, proved,
                     raced, listeners, visible, queue, asks, logins, asked, accepts, disturbed>>
  BY DEF Lose, sessions, login, notification, history
<1>2. <<>> \in Seq(Request) /\ \A m : ~Holds(<<>>, m)
  BY EmptySeq, QueueEmpty
<1>3. /\ toServer' \in [Conns -> Seq(Request)]
      /\ \A d \in Conns : \A m \in Request : Holds(toServer'[d], m) => Holds(toServer[d], m)
  BY <1>1, <1>2 DEF IInv, TypeOK
<1>4. TypeOK'
  BY <1>1, <1>3 DEF IInv, TypeOK
<1>5. Unused' /\ Spoken'
  BY <1>1, <1>3 DEF IInv, Unused, Spoken
<1>6. Bound' /\ Pushed' /\ Notified'
  BY <1>1 DEF IInv, Bound, Pushed, Notified
<1>7. Identified'
  BY <1>1, <1>3 DEF IInv, TypeOK, Identified
<1> QED
  BY <1>1, <1>4, <1>5, <1>6, <1>7, SameRows DEF IInv

-----------------------------------------------------------------------------
(* The handlers. *)

\* Who is bound to a connection logged in on its page, and hears of the success.
LEMMA HandleLoginIInv ==
  ASSUME IInv, NEW c \in Conns, NEW auth \in BOOLEAN, HandleLogin(c, auth)
  PROVE  IInv' /\ Kept
<1> DEFINE h == Head(toServer[c])
           u == Head(toServer[c]).from
           n == [type |-> "LOGIN_RESPONSE", from |-> u, to |-> None]
<1>1. /\ Take(c, "LOGIN")
      /\ \/ /\ userSessions' = [userSessions EXCEPT ![u] = c]
            /\ SendTo(c, n)
            /\ proved' = [p \in Pages |-> IF sock[p] = c THEN proved[p] \cup {u} ELSE proved[p]]
         \/ UNCHANGED <<userSessions, toClient, proved>>
      /\ UNCHANGED <<friends, closing, used, sock, userId, chat, raced, listeners, visible, queue,
                     asks, logins, asked, accepts, disturbed>>
  BY DEF HandleLogin, Accepts, notification, history
<1>2. /\ toServer' \in [Conns -> Seq(Request)]
      /\ \A d \in Conns : \A m \in Request : Holds(toServer'[d], m) => Holds(toServer[d], m)
      /\ h \in Request /\ u \in Users /\ Holds(toServer[c], h) /\ h.type = "LOGIN" /\ h.from = u
  BY <1>1, TakeEffect DEF IInv
<1>3. n \in Push /\ n.type = "LOGIN_RESPONSE"
  BY <1>2 DEF Push
<1>4. c \in used /\ c # None
  BY <1>2, NoneAssumption DEF IInv, Unused
<1>5. /\ toClient' \in [Conns -> Seq(Push)]
      /\ \A d \in Conns : \A m \in Push : Holds(toClient'[d], m) =>
           Holds(toClient[d], m) \/ (d = c /\ m = n)
      /\ UNCHANGED userSessions => UNCHANGED toClient
  <2>1. CASE UNCHANGED <<userSessions, toClient, proved>>
    BY <2>1 DEF IInv, TypeOK
  <2>2. CASE /\ userSessions' = [userSessions EXCEPT ![u] = c]
             /\ SendTo(c, n)
             /\ userSessions' # userSessions
    BY <1>3, <2>2, PushEffect DEF IInv
  <2>3. CASE userSessions' = [userSessions EXCEPT ![u] = c] /\ UNCHANGED userSessions
    BY <1>1, <1>2, <1>4, <2>3 DEF HandleLogin, Accepts, IInv, TypeOK
  <2> QED
    BY <1>1, <2>1, <2>2, <2>3
<1>6. /\ proved' \in [Pages -> SUBSET Users]
      /\ \A p \in Pages : proved[p] \subseteq proved'[p]
      /\ userSessions' \in [Users -> Conns \cup {None}]
      /\ \A w \in Users : \/ userSessions'[w] = userSessions[w]
                          \/ /\ w = u /\ userSessions'[w] = c
                             /\ \A p \in Pages : sock[p] = c => u \in proved'[p]
      /\ \/ UNCHANGED toClient
         \/ \A p \in Pages : sock[p] = c => u \in proved'[p]
  <2>1. userSessions \in [Users -> Conns \cup {None}] /\ proved \in [Pages -> SUBSET Users]
    BY DEF IInv, TypeOK
  <2>2. CASE UNCHANGED <<userSessions, toClient, proved>>
    BY <2>1, <2>2
  <2>3. CASE /\ userSessions' = [userSessions EXCEPT ![u] = c]
             /\ proved' = [p \in Pages |-> IF sock[p] = c THEN proved[p] \cup {u}
                                                           ELSE proved[p]]
    BY <1>2, <2>1, <2>3
  <2> QED
    BY <1>1, <2>2, <2>3
<1> HIDE DEF n, h, u
<1>7. TypeOK'
  BY <1>1, <1>2, <1>5, <1>6 DEF IInv, TypeOK
<1>8. Unused'
  BY <1>1, <1>2, <1>4, <1>5, <1>6 DEF IInv, Unused
<1>9. Bound'
  BY <1>1, <1>6 DEF IInv, Bound
<1>10. Spoken'
  BY <1>1, <1>2 DEF IInv, Spoken
<1>11. Pushed'
  BY <1>1, <1>3, <1>5, <1>6 DEF IInv, Pushed
<1>12. Notified'
  BY <1>1, <1>6 DEF IInv, Notified
<1>13. Identified'
  <2>1. \A p \in Pages : p \notin raced /\ sock[p] = c => userId[p] = u
    BY <1>2, <1>4 DEF IInv, Identified
  <2> SUFFICES ASSUME NEW p \in Pages, p \notin raced
               PROVE  /\ p \in chat => userId[p] \in proved'[p]
                      /\ sock[p] # None =>
                           /\ \A m \in Request :
                                Holds(toServer'[sock[p]], m) /\ m.type = "LOGIN" =>
                                  m.from = userId[p]
                           /\ \A m \in Push :
                                Holds(toClient'[sock[p]], m) /\ m.type = "LOGIN_RESPONSE" =>
                                  userId[p] \in proved'[p]
    BY <1>1 DEF IInv, Identified
  <2>2. sock[p] # None => sock[p] \in Conns
    BY DEF IInv, TypeOK
  <2>3. CASE UNCHANGED toClient
    BY <1>2, <1>6, <2>2, <2>3 DEF IInv, Identified
  <2>4. CASE \A q \in Pages : sock[q] = c => u \in proved'[q]
    BY <1>2, <1>5, <1>6, <2>1, <2>2, <2>4 DEF IInv, Identified
  <2> QED
    BY <1>6, <2>3, <2>4
<1> QED
  BY <1>1, <1>7, <1>8, <1>9, <1>10, <1>11, <1>12, <1>13, SameRows DEF IInv

LEMMA HandleLogoutIInv ==
  ASSUME IInv, NEW c \in Conns, HandleLogout(c)
  PROVE  IInv' /\ Kept
<1>1. /\ Take(c, "LOGOUT")
      /\ userSessions' = [userSessions EXCEPT ![Head(toServer[c]).from] = None]
      /\ closing' = closing \cup {c}
      /\ UNCHANGED <<friends, toClient, used, sock, userId, chat, proved, raced, listeners,
                     visible, queue, asks, logins, asked, accepts, disturbed>>
  BY DEF HandleLogout, login, notification, history
<1>2. /\ toServer' \in [Conns -> Seq(Request)]
      /\ \A d \in Conns : \A m \in Request : Holds(toServer'[d], m) => Holds(toServer[d], m)
  BY <1>1, TakeEffect DEF IInv
<1>3. /\ userSessions' \in [Users -> Conns \cup {None}]
      /\ \A w \in Users : userSessions'[w] \in {userSessions[w], None}
  BY <1>1 DEF IInv, TypeOK
<1>4. TypeOK'
  BY <1>1, <1>2, <1>3 DEF IInv, TypeOK
<1>5. Unused' /\ Bound'
  BY <1>1, <1>2, <1>3, NoneAssumption DEF IInv, Unused, Bound
<1>6. Spoken' /\ Pushed' /\ Notified'
  BY <1>1, <1>2 DEF IInv, Spoken, Pushed, Notified
<1>7. Identified'
  BY <1>1, <1>2 DEF IInv, TypeOK, Identified
<1> QED
  BY <1>1, <1>4, <1>5, <1>6, <1>7, SameRows DEF IInv

LEMMA HandleDisconnectionIInv ==
  ASSUME IInv, NEW c \in Conns, HandleDisconnection(c)
  PROVE  IInv' /\ Kept
<1>1. /\ closing' = closing \ {c}
      /\ userSessions' = [u \in Users |-> IF userSessions[u] = c THEN None ELSE userSessions[u]]
      /\ UNCHANGED <<friends, toServer, toClient, used, sock, userId, chat, proved, raced,
                     listeners, visible, queue, asks, logins, asked, accepts, disturbed>>
  BY DEF HandleDisconnection, network, login, notification, history
<1>2. /\ userSessions' \in [Users -> Conns \cup {None}]
      /\ \A w \in Users : userSessions'[w] \in {userSessions[w], None}
  BY <1>1 DEF IInv, TypeOK
<1>3. TypeOK'
  BY <1>1, <1>2 DEF IInv, TypeOK
<1>4. Unused' /\ Bound'
  BY <1>1, <1>2, NoneAssumption DEF IInv, Unused, Bound
<1>5. Spoken' /\ Pushed' /\ Notified' /\ Identified'
  BY <1>1 DEF IInv, Spoken, Pushed, Notified, Identified
<1> QED
  BY <1>1, <1>3, <1>4, <1>5, SameRows DEF IInv

\* What the friend handlers have in common: they read a request, and the pages
\* and the sessions stay as they are.
LEMMA HandlerRest ==
  ASSUME IInv, NEW c \in Conns, NEW type, Take(c, type), UNCHANGED toClient,
         friends' \in [Pairs -> Status], disturbed' \in SUBSET SUBSET Users,
         UNCHANGED <<userSessions, closing, used, sock, userId, chat, proved, raced, listeners,
                     visible, queue, asks, logins, asked, accepts>>
  PROVE  TypeOK' /\ Unused' /\ Bound' /\ Spoken' /\ Pushed' /\ Notified' /\ Identified'
<1>1. /\ toServer' \in [Conns -> Seq(Request)]
      /\ \A d \in Conns : \A m \in Request : Holds(toServer'[d], m) => Holds(toServer[d], m)
  BY TakeEffect DEF IInv
<1>2. TypeOK'
  BY <1>1 DEF IInv, TypeOK
<1>3. Unused' /\ Bound' /\ Spoken' /\ Pushed' /\ Notified'
  BY <1>1 DEF IInv, Unused, Bound, Spoken, Pushed, Notified
<1>4. Identified'
  BY <1>1 DEF IInv, TypeOK, Identified
<1> QED
  BY <1>2, <1>3, <1>4

\* Both rows are inserted, or the pair counts as disturbed; the friend is asked
\* on a page where he logged in.
LEMMA HandleAddIInv ==
  ASSUME IInv, NEW c \in Conns, NEW first \in BOOLEAN, NEW second \in BOOLEAN,
         NEW named \in BOOLEAN, HandleAdd(c, first, second, named)
  PROVE  IInv' /\ Kept
<1> DEFINE u == Head(toServer[c]).from
           v == Head(toServer[c]).to
           n == [type |-> "FRIEND_REQUEST", from |-> u, to |-> v]
<1>1. /\ Take(c, "ADD_FRIEND")
      /\ UNCHANGED toClient \/ SendTo(userSessions[v], n)
      /\ UNCHANGED <<userSessions, closing, used, sock, userId, chat, proved, raced, listeners,
                     visible, queue, asks, logins, asked, accepts>>
  BY DEF HandleAdd, sessions, login, notification
<1>2. /\ toServer' \in [Conns -> Seq(Request)]
      /\ \A d \in Conns : \A m \in Request : Holds(toServer'[d], m) => Holds(toServer[d], m)
      /\ u \in Users /\ v \in Users /\ <<u, v>> \in asked
  <2>1. /\ toServer' \in [Conns -> Seq(Request)]
        /\ \A d \in Conns : \A m \in Request : Holds(toServer'[d], m) => Holds(toServer[d], m)
        /\ Head(toServer[c]) \in Request /\ u \in Users
        /\ Holds(toServer[c], Head(toServer[c])) /\ Head(toServer[c]).type = "ADD_FRIEND"
    BY <1>1, TakeEffect DEF IInv
  <2> QED
    BY <2>1 DEF IInv, Spoken
<1>3. \/ u = v /\ UNCHANGED <<friends, disturbed>>
      \/ /\ u # v
         /\ disturbed' = IF first /\ second THEN disturbed ELSE disturbed \cup {{u, v}}
         /\ friends' = [p \in Pairs |->
              IF /\ p \in {q \in {<<u, v>>, <<v, u>>} : IF q = <<u, v>> THEN first ELSE second}
                 /\ friends[p] = "absent"
              THEN "pending" ELSE friends[p]]
  BY DEF HandleAdd, Insert
<1>4. n \in Push /\ n.type = "FRIEND_REQUEST" /\ n.from = u /\ n.to = v
  BY <1>2 DEF Push
<1> HIDE DEF n, u, v
<1>5. /\ toClient' \in [Conns -> Seq(Push)]
      /\ \A d \in Conns : \A m \in Push : Holds(toClient'[d], m) =>
           \/ Holds(toClient[d], m)
           \/ d = userSessions[v] /\ m = n /\ d # None
  <2>1. CASE UNCHANGED toClient
    BY <2>1 DEF IInv, TypeOK
  <2>2. CASE SendTo(userSessions[v], n)
    <3>1. userSessions[v] \in Conns \cup {None} /\ TypeOK /\ n \in Push
      BY <1>2, <1>4 DEF IInv, TypeOK
    <3>2. /\ toClient' \in [Conns -> Seq(Push)]
          /\ \A d \in Conns : \A m \in Push : Holds(toClient'[d], m) =>
               \/ Holds(toClient[d], m)
               \/ d = userSessions[v] /\ m = n /\ userSessions[v] # None
      BY <2>2, <3>1, PushEffect
    <3> QED
      BY <3>2
  <2> QED
    BY <1>1, <2>1, <2>2
<1>6. /\ \A p \in Pairs : friends'[p] # friends[p] =>
                            friends[p] = "absent" /\ friends'[p] = "pending"
      /\ friends' \in [Pairs -> Status] /\ disturbed' \in SUBSET SUBSET Users
  BY <1>2, <1>3 DEF IInv, TypeOK, Status
<1>7. TypeOK'
  BY <1>1, <1>2, <1>5, <1>6 DEF IInv, TypeOK
<1>8. Unused'
  BY <1>1, <1>2, <1>5 DEF IInv, Unused
<1>9. Bound' /\ Spoken' /\ Notified'
  BY <1>1, <1>2 DEF IInv, Bound, Spoken, Notified
<1>10. Pushed'
  <2>1. \A p \in Pages : sock[p] = userSessions[v] /\ sock[p] # None => v \in proved[p]
    BY <1>2 DEF IInv, Bound
  <2> QED
    BY <1>1, <1>2, <1>4, <1>5, <2>1 DEF IInv, Pushed
<1>11. Identified'
  BY <1>1, <1>2, <1>4, <1>5 DEF IInv, TypeOK, Identified
<1>12. RowsAgree'
  <2> SUFFICES ASSUME NEW a \in Users, NEW b \in Users, {a, b} \notin disturbed'
               PROVE  friends'[<<a, b>>] = friends'[<<b, a>>]
    BY DEF RowsAgree
  <2>1. {a, b} \notin disturbed /\ friends[<<a, b>>] = friends[<<b, a>>]
    BY <1>3 DEF IInv, RowsAgree
  <2>2. CASE UNCHANGED friends
    BY <2>1, <2>2
  <2>3. CASE ~UNCHANGED friends
    <3>1. u # v /\ ((first /\ second) \/ {a, b} # {u, v})
      BY <1>3, <2>3
    <3>2. CASE first /\ second
      <4>1. friends' = [p \in Pairs |->
                IF p \in {<<u, v>>, <<v, u>>} /\ friends[p] = "absent"
                THEN "pending" ELSE friends[p]]
        BY <1>3, <2>3, <3>2
      <4> QED
        BY <2>1, <4>1 DEF Pairs
    <3>3. CASE {a, b} # {u, v}
      <4>1. <<a, b>> \notin {<<u, v>>, <<v, u>>} /\ <<b, a>> \notin {<<u, v>>, <<v, u>>}
        BY <3>3
      <4> QED
        BY <1>3, <2>1, <2>3, <4>1 DEF Pairs
    <3> QED
      BY <3>1, <3>2, <3>3
  <2> QED
    BY <2>2, <2>3
<1>13. AcceptedByBoth'
  BY <1>1, <1>6 DEF IInv, AcceptedByBoth, Pairs
<1> QED
  BY <1>6, <1>7, <1>8, <1>9, <1>10, <1>11, <1>12, <1>13 DEF IInv, Kept

\* Both rows are accepted, if they exist: one had asked, the other one accepted.
LEMMA HandleAcceptIInv ==
  ASSUME IInv, NEW c \in Conns, NEW fails \in BOOLEAN, HandleAccept(c, fails)
  PROVE  IInv' /\ Kept
<1> DEFINE u == Head(toServer[c]).from
           v == Head(toServer[c]).to
<1>1. /\ Take(c, "accept")
      /\ UNCHANGED <<userSessions, closing, toClient, used, sock, userId, chat, proved, raced,
                     listeners, visible, queue, asks, logins, asked, accepts, disturbed>>
  BY DEF HandleAccept, sessions, login, notification, history
<1>2. u \in Users /\ v \in Users /\ <<u, v>> \in accepts /\ <<v, u>> \in asked
  <2>1. /\ Head(toServer[c]) \in Request /\ u \in Users
        /\ Holds(toServer[c], Head(toServer[c])) /\ Head(toServer[c]).type = "accept"
    BY <1>1, TakeEffect DEF IInv
  <2> QED
    BY <2>1 DEF IInv, Spoken
<1>3. \/ UNCHANGED friends
      \/ friends' = [p \in Pairs |->
           IF p \in {<<u, v>>, <<v, u>>} /\ friends[p] # "absent"
           THEN "accepted" ELSE friends[p]]
  BY DEF HandleAccept, BothRows
<1> HIDE DEF u, v
<1>4. friends' \in [Pairs -> Status]
  BY <1>3 DEF IInv, TypeOK, Status
<1>5. RowsAgree'
  <2> SUFFICES ASSUME NEW a \in Users, NEW b \in Users, {a, b} \notin disturbed'
               PROVE  friends'[<<a, b>>] = friends'[<<b, a>>]
    BY DEF RowsAgree
  <2>1. friends[<<a, b>>] = friends[<<b, a>>]
    BY <1>1 DEF IInv, RowsAgree
  <2>2. <<a, b>> \in {<<u, v>>, <<v, u>>} <=> <<b, a>> \in {<<u, v>>, <<v, u>>}
    OBVIOUS
  <2> QED
    BY <1>3, <2>1, <2>2 DEF Pairs
<1>6. AcceptedByBoth'
  BY <1>1, <1>2, <1>3 DEF IInv, AcceptedByBoth, Pairs
<1>7. Kept
  BY <1>3 DEF Kept
<1>8. TypeOK' /\ Unused' /\ Bound' /\ Spoken' /\ Pushed' /\ Notified' /\ Identified'
  <2>1. disturbed' \in SUBSET SUBSET Users
    BY <1>1 DEF IInv, TypeOK
  <2> QED
    BY <1>1, <1>4, <2>1, HandlerRest
<1> QED
  BY <1>5, <1>6, <1>7, <1>8 DEF IInv

\* One row is deleted, and the pair counts as disturbed.
LEMMA HandleRejectIInv ==
  ASSUME IInv, NEW c \in Conns, NEW fails \in BOOLEAN, HandleReject(c, fails)
  PROVE  IInv' /\ Kept
<1> DEFINE u == Head(toServer[c]).from
           v == Head(toServer[c]).to
<1>1. /\ Take(c, "reject")
      /\ UNCHANGED <<userSessions, closing, toClient, used, sock, userId, chat, proved, raced,
                     listeners, visible, queue, asks, logins, asked, accepts>>
  BY DEF HandleReject, sessions, login, notification
<1>2. u \in Users /\ v \in Users
  <2>1. /\ Head(toServer[c]) \in Request /\ u \in Users
        /\ Holds(toServer[c], Head(toServer[c])) /\ Head(toServer[c]).type = "reject"
    BY <1>1, TakeEffect DEF IInv
  <2> QED
    BY <2>1 DEF IInv, Spoken
<1>3. \/ UNCHANGED <<friends, disturbed>>
      \/ /\ friends' = [friends EXCEPT ![<<v, u>>] = "absent"]
         /\ disturbed' = disturbed \cup {{u, v}}
  BY DEF HandleReject, Remove
<1> HIDE DEF u, v
<1>4. friends' \in [Pairs -> Status] /\ disturbed' \in SUBSET SUBSET Users
  BY <1>2, <1>3 DEF IInv, TypeOK, Status
<1>5. RowsAgree'
  <2> SUFFICES ASSUME NEW a \in Users, NEW b \in Users, {a, b} \notin disturbed'
               PROVE  friends'[<<a, b>>] = friends'[<<b, a>>]
    BY DEF RowsAgree
  <2>1. friends[<<a, b>>] = friends[<<b, a>>]
    BY <1>3 DEF IInv, RowsAgree
  <2>2. UNCHANGED friends \/ {a, b} # {u, v}
    BY <1>3
  <2>3. CASE {a, b} # {u, v}
    <3>1. <<a, b>> # <<v, u>> /\ <<b, a>> # <<v, u>>
      BY <2>3
    <3> QED
      BY <1>3, <2>1, <3>1 DEF IInv, TypeOK, Pairs
  <2> QED
    BY <2>1, <2>2, <2>3
<1>6. \A p \in Pairs : friends'[p] \in {friends[p], "absent"}
  BY <1>3 DEF IInv, TypeOK
<1>7. AcceptedByBoth'
  BY <1>1, <1>6 DEF IInv, AcceptedByBoth, Pairs
<1>8. Kept
  BY <1>6 DEF Kept
<1>9. TypeOK' /\ Unused' /\ Bound' /\ Spoken' /\ Pushed' /\ Notified' /\ Identified'
  BY <1>1, <1>4, HandlerRest
<1> QED
  BY <1>5, <1>7, <1>8, <1>9 DEF IInv

-----------------------------------------------------------------------------
\* Every step preserves the inductive invariant and demotes no accepted row.
LEMMA NextIInv ==
  IInv /\ [Next]_vars =>
    IInv' /\ [\A p \in Pairs : friends[p] = "accepted" => friends'[p] # "pending"]_vars
<1> SUFFICES ASSUME IInv, [Next]_vars
             PROVE  IInv' /\ (Kept \/ UNCHANGED vars)
  BY DEF Kept
<1>1. CASE UNCHANGED vars
  <2>1. UNCHANGED <<friends, userSessions, closing, toServer, toClient, used, sock, userId, chat,
                    proved, raced, listeners, visible, queue, asks, logins, asked, accepts,
                    disturbed>>
    BY <1>1 DEF vars, sessions, network, login, notification, history
  <2>2. TypeOK' /\ Unused' /\ Bound' /\ Spoken' /\ Pushed'
    BY <2>1 DEF IInv, TypeOK, Unused, Bound, Spoken, Pushed
  <2>3. Notified' /\ Identified' /\ RowsAgree' /\ AcceptedByBoth'
    BY <2>1 DEF IInv, Notified, Identified, RowsAgree, AcceptedByBoth
  <2> QED
    BY <1>1, <2>2, <2>3 DEF IInv
<1>2. ASSUME NEW p \in Pages, PageStep(p) PROVE IInv' /\ Kept
  BY <1>2, ConnectIInv, SubmitLoginIInv, AskIInv, ReceiveIInv, ClickIInv, ConfirmIInv, LeaveIInv,
     DropIInv DEF PageStep
<1>3. ASSUME NEW c \in Conns, Handle(c) PROVE IInv' /\ Kept
  BY <1>3, HandleLoginIInv, HandleLogoutIInv, HandleDisconnectionIInv, HandleAddIInv,
     HandleAcceptIInv, HandleRejectIInv DEF Handle
<1>4. ASSUME NEW c \in Conns, Lose(c) PROVE IInv' /\ Kept
  BY <1>4, LoseIInv
<1> QED
  BY <1>1, <1>2, <1>3, <1>4 DEF Next

\* The inductive invariant holds in every reachable state.
THEOREM Invariance == Spec => []IInv
<1> QED
  BY InitIInv, NextIInv, PTL DEF Spec

\* The table, the connections and the pages are always well formed.
THEOREM TypeCorrect == Spec => []TypeOK
<1> QED
  BY Invariance, PTL DEF IInv

\* The two rows of a pair agree as long as nothing was rejected or failed.
THEOREM RowsAlwaysAgree == Spec => []RowsAgree
<1> QED
  BY Invariance, PTL DEF IInv

\* Although no handler checks whose name a message bears, a friendship is asked
\* for by one side and accepted by the other, each logged in on the page it used;
\* only on a page whose logins raced may the asking side be somebody else.
THEOREM FriendsConsent == Spec => []AcceptedByBoth
<1> QED
  BY Invariance, PTL DEF IInv

\* No handler turns an accepted row back into a pending one.
THEOREM AcceptedNeverDemoted == Spec => NeverDemoted
<1> QED
  BY InitIInv, NextIInv, PTL DEF Spec, NeverDemoted
=============================================================================
