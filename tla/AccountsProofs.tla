---------------------------- MODULE AccountsProofs ----------------------------
(***************************************************************************)
(* Theorems about Accounts, for every set of pages, passwords and typed    *)
(* ids, and every length of an id.  What parseInt and to_string compute is *)
(* not looked into: only ShownIdLogsIn depends on it, and says so.         *)
(***************************************************************************)
EXTENDS Accounts, QueueLemmas

\* The messages that are ever on the way.
Request == [messageType : {"SIGN_UP", "LOGIN"}, fromUserId : Typed \cup {-1},
            content : Passwords]
Reply == [messageType : {"SIGN_UP_RESPONSE", "LOGIN_RESPONSE"}, content : Ids \cup {None},
          status : {"success", "fail", None}]

Queues ==
  /\ toServer \in [Pages -> Seq(Request)]
  /\ toClient \in [Pages -> Seq(Reply)]

\* The table users holds an account for each row, with the account's id and the hash
\* of its password.
Stored ==
  /\ \A id \in DOMAIN users : \E account \in registered : account.id = id
  /\ \A account \in registered :
       /\ account.id \in GenerateUUID /\ account.id \in DOMAIN users
       /\ HashPassword(account.password, users[account.id].salt)
            = users[account.id].password_hash

RegisteredBy(p, id) == \E account \in registered : account.page = p /\ account.id = id

\* The id a page shows, or is about to be told, is of an account it registered.
ToldIds ==
  \A p \in Pages :
    /\ shown[p] # None => RegisteredBy(p, shown[p])
    /\ \A a \in Reply :
         a.messageType = "SIGN_UP_RESPONSE" /\ Holds(toClient[p], a) =>
           RegisteredBy(p, a.content)

\* The page's userId and the password last submitted are those of an account.
Owns(p) == AccountOf(userId[p], password[p])

\* One of the logins the page submitted is that of an account.
OwnsOne(p) == \E login \in submitted[p] : AccountOf(login[1], login[2])

\* Every login under way is one the page submitted, and only such a one is answered
\* with success.
LoginsAreSubmitted ==
  \A p \in Pages :
    /\ chat[p] => OwnsOne(p)
    /\ \A r \in Request :
         r.messageType = "LOGIN" /\ Holds(toServer[p], r) =>
           <<r.fromUserId, r.content>> \in submitted[p]
    /\ \A a \in Reply :
         a.messageType = "LOGIN_RESPONSE" /\ a.status = "success" /\ Holds(toClient[p], a) =>
           OwnsOne(p)

\* As long as no login of the page overtook another, the ones under way are of what
\* the page submitted last, and so is the answer.
LoginsAreLast ==
  \A p \in Pages : p \notin raced =>
    /\ chat[p] => Owns(p)
    /\ \A r \in Request :
         r.messageType = "LOGIN" /\ Holds(toServer[p], r) =>
           r.fromUserId = userId[p] /\ r.content = password[p]
    /\ \A a \in Reply :
         a.messageType = "LOGIN_RESPONSE" /\ a.status = "success" /\ Holds(toClient[p], a) =>
           Owns(p)

\* A request of this type that the server will not throw away, or its answer.
Expected(p, type) ==
  \/ \E r \in Request :
       r.messageType = type /\ r.fromUserId # NaN /\ Holds(toServer[p], r)
  \/ \E a \in Reply : a.messageType = ResponseTo(type) /\ Holds(toClient[p], a)

OwedIsExpected == \A p \in Pages : \A type \in awaiting[p] : Expected(p, type)

\* The inductive invariant.
IInv ==
  /\ TypeOK /\ Queues
  /\ Stored /\ ToldIds
  /\ LoginsAreSubmitted /\ LoginsAreLast
  /\ OwedIsExpected

-----------------------------------------------------------------------------
(* What the operators of the steps do to the queues. *)

\* A request of p joins those on the way to the server.
Submits(p, req) ==
  /\ toServer' \in [Pages -> Seq(Request)]
  /\ \A q \in Pages : \A r : Holds(toServer'[q], r) <=>
       Holds(toServer[q], r) \/ (q = p /\ r = req)
  /\ \A q \in Pages : \A t \in awaiting'[q] :
       t \in awaiting[q] \/ (q = p /\ t = req.messageType /\ req.fromUserId # NaN)
  /\ awaiting' \in [Pages -> SUBSET {"SIGN_UP", "LOGIN"}]
  /\ requests' \in 0..MaxRequests

Requested(type, from, content) ==
  [messageType |-> type, fromUserId |-> from, content |-> content]

\* That is what sendMessage does.
LEMMA SendEffect ==
  ASSUME IInv, NEW p \in Pages, NEW type, NEW from, NEW content,
         Requested(type, from, content) \in Request, SendMessage(p, type, from, content)
  PROVE  Submits(p, Requested(type, from, content))
<1> DEFINE req == Requested(type, from, content)
<1>1. /\ toServer' = [toServer EXCEPT ![p] = Append(@, req)]
      /\ awaiting' = IF from = NaN THEN awaiting ELSE [awaiting EXCEPT ![p] = @ \cup {type}]
      /\ requests < MaxRequests /\ requests' = requests + 1
  BY DEF SendMessage, Requested
<1>2. type \in {"SIGN_UP", "LOGIN"} /\ req.messageType = type /\ req.fromUserId = from
  BY DEF Requested, Request
<1>3. toServer \in [Pages -> Seq(Request)] /\ toServer[p] \in Seq(Request)
  BY DEF IInv, Queues
<1>4. /\ Append(toServer[p], req) \in Seq(Request)
      /\ \A a : Holds(Append(toServer[p], req), a) <=> Holds(toServer[p], a) \/ a = req
  BY <1>3, QueueAppend
<1>5. toServer' \in [Pages -> Seq(Request)]
  BY <1>1, <1>3, <1>4
<1>6. \A q \in Pages : \A r : Holds(toServer'[q], r) <=>
        Holds(toServer[q], r) \/ (q = p /\ r = req)
  <2> HIDE DEF req
  <2>1. /\ toServer'[p] = Append(toServer[p], req)
        /\ \A q \in Pages : q # p => toServer'[q] = toServer[q]
    BY <1>1, <1>3
  <2> QED
    BY <1>4, <2>1
<1>7. /\ awaiting' \in [Pages -> SUBSET {"SIGN_UP", "LOGIN"}]
      /\ \A q \in Pages : \A t \in awaiting'[q] :
           t \in awaiting[q] \/ (q = p /\ t = type /\ from # NaN)
  BY <1>1, <1>2 DEF IInv, TypeOK
<1>8. requests' \in 0..MaxRequests
  BY <1>1, MaxRequestsAssumption DEF IInv, TypeOK
<1> QED
  BY <1>2, <1>5, <1>6, <1>7, <1>8 DEF Submits

\* The first message r of p's queue is taken, the others stay.
Takes(queue, after, p, r, M) ==
  /\ r \in M /\ Holds(queue[p], r)
  /\ after \in [Pages -> Seq(M)]
  /\ \A q \in Pages : \A x : Holds(after[q], x) => Holds(queue[q], x)
  /\ \A q \in Pages : \A x : Holds(queue[q], x) => Holds(after[q], x) \/ (q = p /\ x = r)

\* That is what taking the head of a queue does, towards the server or the page.
LEMMA TakeEffect ==
  ASSUME NEW M, NEW queue \in [Pages -> Seq(M)], NEW after, NEW p \in Pages,
         queue[p] # <<>>, after = [queue EXCEPT ![p] = Tail(@)]
  PROVE  Takes(queue, after, p, Head(queue[p]), M)
<1>1. queue[p] \in Seq(M)
  OBVIOUS
<1>2. /\ Head(queue[p]) \in M /\ Tail(queue[p]) \in Seq(M)
      /\ \A x : Holds(queue[p], x) <=> x = Head(queue[p]) \/ Holds(Tail(queue[p]), x)
  BY <1>1, QueueTail
<1>3. /\ after \in [Pages -> Seq(M)]
      /\ after[p] = Tail(queue[p])
      /\ \A q \in Pages : q # p => after[q] = queue[q]
  BY <1>2
<1> QED
  BY <1>2, <1>3 DEF Takes

\* A reply is on its way to p, behind the others.
Replies(p, reply) ==
  /\ toClient' \in [Pages -> Seq(Reply)]
  /\ \A q \in Pages : \A x : Holds(toClient'[q], x) <=>
       Holds(toClient[q], x) \/ (q = p /\ x = reply)

Replied(type, content, status) ==
  [messageType |-> type, content |-> content, status |-> status]

\* That is what an answer does.
LEMMA AnswerEffect ==
  ASSUME IInv, NEW p \in Pages, NEW type, NEW content, NEW status,
         Replied(type, content, status) \in Reply, Answer(p, type, content, status)
  PROVE  Replies(p, Replied(type, content, status))
<1> DEFINE reply == Replied(type, content, status)
<1>1. toClient' = [toClient EXCEPT ![p] = Append(@, reply)]
  BY DEF Answer, Replied
<1>2. toClient \in [Pages -> Seq(Reply)] /\ toClient[p] \in Seq(Reply)
  BY DEF IInv, Queues
<1> HIDE DEF reply
<1>3. reply \in Reply
  BY DEF reply
<1>4. /\ Append(toClient[p], reply) \in Seq(Reply)
      /\ \A a : Holds(Append(toClient[p], reply), a) <=> Holds(toClient[p], a) \/ a = reply
  BY <1>2, <1>3, QueueAppend
<1>5. /\ toClient' \in [Pages -> Seq(Reply)]
      /\ toClient'[p] = Append(toClient[p], reply)
      /\ \A q \in Pages : q # p => toClient'[q] = toClient[q]
  BY <1>1, <1>2, <1>4
<1>6. Replies(p, reply)
  BY <1>4, <1>5 DEF Replies
<1> QED
  BY <1>6 DEF reply

\* What was on the way to and from p is lost.
LEMMA LoseEffect ==
  ASSUME IInv, NEW p \in Pages, Lose(p)
  PROVE  /\ toServer' \in [Pages -> Seq(Request)] /\ toClient' \in [Pages -> Seq(Reply)]
         /\ awaiting' \in [Pages -> SUBSET {"SIGN_UP", "LOGIN"}] /\ awaiting'[p] = {}
         /\ \A q \in Pages : q # p =>
              /\ toServer'[q] = toServer[q] /\ toClient'[q] = toClient[q]
              /\ awaiting'[q] = awaiting[q]
         /\ \A x : ~Holds(toServer'[p], x) /\ ~Holds(toClient'[p], x)
<1>1. /\ toServer' = [toServer EXCEPT ![p] = <<>>]
      /\ toClient' = [toClient EXCEPT ![p] = <<>>]
      /\ awaiting' = [awaiting EXCEPT ![p] = {}]
  BY DEF Lose
<1>2. \A x : ~Holds(<<>>, x)
  BY QueueEmpty
<1>3. /\ toServer \in [Pages -> Seq(Request)] /\ toClient \in [Pages -> Seq(Reply)]
      /\ awaiting \in [Pages -> SUBSET {"SIGN_UP", "LOGIN"}]
  BY DEF IInv, Queues, TypeOK
<1> QED
  BY <1>1, <1>2, <1>3, EmptySeq

-----------------------------------------------------------------------------
(* The inductive invariant holds at first, and every step keeps it. *)

\* The messages of the queues are of the types TypeOK asks for.
LEMMA MessagesTyped ==
  /\ \A s \in Seq(Request) : \A i \in DOMAIN s :
       s[i].messageType \in MessageTypes /\ s[i].fromUserId \in Typed \cup {-1}
  /\ \A s \in Seq(Reply) : \A i \in DOMAIN s :
       s[i].messageType \in MessageTypes /\ s[i].content \in Ids \cup {None}
<1>1. \A M, s : s \in Seq(M) => \A i \in DOMAIN s : s[i] \in M
  OBVIOUS
<1>2. \A r \in Request :
        r.messageType \in MessageTypes /\ r.fromUserId \in Typed \cup {-1}
  BY DEF Request, MessageTypes
<1>3. \A r \in Reply : r.messageType \in MessageTypes /\ r.content \in Ids \cup {None}
  BY DEF Reply, MessageTypes
<1> QED
  BY <1>1, <1>2, <1>3

\* At first there is no account, and every page shows the login form.
LEMMA InitIInv == Init => IInv
<1> SUFFICES ASSUME Init PROVE IInv
  OBVIOUS
<1>1. DOMAIN users = {} /\ registered = {}
  BY DEF Init
<1>2. Queues
  BY EmptySeq DEF Init, Queues
<1>3. \A p \in Pages : \A x : ~Holds(toServer[p], x) /\ ~Holds(toClient[p], x)
  BY QueueEmpty DEF Init
<1>4. TypeOK
  BY <1>1, <1>2, MessagesTyped, MaxRequestsAssumption DEF Init, TypeOK, Queues
<1>5. Stored
  BY <1>1 DEF Stored
<1>6. ToldIds
  BY <1>3 DEF ToldIds, Init
<1>7. LoginsAreSubmitted /\ LoginsAreLast
  BY <1>3 DEF LoginsAreSubmitted, LoginsAreLast, Init
<1>8. OwedIsExpected
  BY DEF OwedIsExpected, Init
<1> QED
  BY <1>2, <1>4, <1>5, <1>6, <1>7, <1>8 DEF IInv

\* A link shows the other form.
LEMMA ShowFormIInv ==
  ASSUME IInv, NEW p \in Pages, NEW from, NEW to \in {"login", "register"},
         ShowForm(p, from, to)
  PROVE  IInv'
<1> USE DEF IInv
<1>1. /\ form' \in [Pages -> {"login", "register", "none"}]
      /\ UNCHANGED <<users, toServer, toClient, chat, userId, shown, requests, registered,
                     password, submitted, raced, awaiting>>
  BY DEF ShowForm, history, TypeOK
<1>2. \A q \in Pages :
        /\ (Owns(q)' <=> Owns(q)) /\ (OwnsOne(q)' <=> OwnsOne(q))
        /\ \A t : Expected(q, t)' <=> Expected(q, t)
  BY <1>1 DEF Owns, OwnsOne, AccountOf, Expected
<1>3. TypeOK' /\ Queues'
  BY <1>1 DEF TypeOK, Queues
<1>4. Stored' /\ ToldIds'
  BY <1>1 DEF Stored, ToldIds, RegisteredBy
<1>5. LoginsAreSubmitted' /\ LoginsAreLast' /\ OwedIsExpected'
  BY <1>1, <1>2 DEF LoginsAreSubmitted, LoginsAreLast, OwedIsExpected
<1> QED
  BY <1>3, <1>4, <1>5

\* What a page owes or is owed does not change for the worse when a request joins the
\* queue; the page is owed an answer to it, unless it has no number.
LEMMA SubmitStep ==
  ASSUME IInv, NEW p \in Pages, NEW req \in Request, Submits(p, req),
         UNCHANGED <<users, toClient, registered, shown>>
  PROVE  Queues' /\ Stored' /\ ToldIds' /\ OwedIsExpected'
<1> USE DEF IInv
<1>1. Queues'
  BY DEF Submits, Queues
<1>2. Stored' /\ ToldIds'
  BY DEF Stored, ToldIds, RegisteredBy
<1>3. OwedIsExpected'
  <2>1. \A q \in Pages : \A t : Expected(q, t) => Expected(q, t)'
    BY DEF Submits, Expected
  <2>2. req.fromUserId # NaN => Expected(p, req.messageType)'
    BY DEF Submits, Expected
  <2> QED
    BY <2>1, <2>2 DEF Submits, OwedIsExpected
<1> QED
  BY <1>1, <1>2, <1>3

\* A sign-up is submitted.
LEMMA RegisterIInv ==
  ASSUME IInv, NEW p \in Pages, NEW pw \in Passwords, Register(p, pw)
  PROVE  IInv'
<1> USE DEF IInv
<1> DEFINE req == Requested("SIGN_UP", -1, pw)
<1>1. /\ SendMessage(p, "SIGN_UP", -1, pw)
      /\ UNCHANGED <<users, toClient, form, chat, userId, shown, registered, password, submitted,
                     raced>>
  BY DEF Register, display
<1>2. req \in Request /\ req.messageType = "SIGN_UP"
  BY DEF Request, Requested
<1>3. Submits(p, req)
  BY <1>1, <1>2, SendEffect
<1> HIDE DEF req
<1>4. Queues' /\ Stored' /\ ToldIds' /\ OwedIsExpected'
  BY <1>1, <1>2, <1>3, SubmitStep
<1>5. TypeOK'
  BY <1>1, <1>3, <1>4, MessagesTyped DEF TypeOK, Queues, Submits
<1>6. LoginsAreSubmitted' /\ LoginsAreLast'
  <2>1. \A q \in Pages : (Owns(q)' <=> Owns(q)) /\ (OwnsOne(q)' <=> OwnsOne(q))
    BY <1>1 DEF Owns, OwnsOne, AccountOf
  <2>2. \A q \in Pages, r \in Request :
          r.messageType = "LOGIN" /\ Holds(toServer'[q], r) => Holds(toServer[q], r)
    BY <1>2, <1>3 DEF Submits
  <2> QED
    BY <1>1, <2>1, <2>2 DEF LoginsAreSubmitted, LoginsAreLast
<1> QED
  BY <1>4, <1>5, <1>6

\* A login is submitted: if none was under way, it is what the page submitted last.
LEMMA SubmitLoginIInv ==
  ASSUME IInv, NEW p \in Pages, NEW n \in Typed, NEW pw \in Passwords, SubmitLogin(p, n, pw)
  PROVE  IInv'
<1> USE DEF IInv
<1> DEFINE req == Requested("LOGIN", n, pw)
<1>1. /\ SendMessage(p, "LOGIN", n, pw)
      /\ userId' = [userId EXCEPT ![p] = n]
      /\ password' = [password EXCEPT ![p] = pw]
      /\ submitted' = [submitted EXCEPT ![p] = @ \cup {<<n, pw>>}]
      /\ raced' = IF UnderWay(p, "LOGIN") \/ chat[p] THEN raced \cup {p} ELSE raced
      /\ UNCHANGED <<users, toClient, form, chat, shown, registered>>
  BY DEF SubmitLogin
<1>2. req \in Request /\ req.messageType = "LOGIN" /\ req.fromUserId = n /\ req.content = pw
  BY DEF Request, Requested
<1>3. Submits(p, req)
  BY <1>1, <1>2, SendEffect
<1> HIDE DEF req
<1>4. Queues' /\ Stored' /\ ToldIds' /\ OwedIsExpected'
  BY <1>1, <1>2, <1>3, SubmitStep
<1>5. TypeOK'
  <2>1. submitted' \in [Pages -> SUBSET (Typed \X Passwords)]
    BY <1>1 DEF TypeOK
  <2> QED
    BY <1>1, <1>3, <1>4, <2>1, MessagesTyped DEF TypeOK, Queues, Submits
<1>6. ASSUME p \notin raced'
      PROVE  /\ ~chat[p]
             /\ \A r \in Request : r.messageType = "LOGIN" => ~Holds(toServer[p], r)
             /\ \A a \in Reply : a.messageType = "LOGIN_RESPONSE" => ~Holds(toClient[p], a)
  <2>1. ~UnderWay(p, "LOGIN") /\ ~chat[p]
    BY <1>1, <1>6
  <2>2. /\ DOMAIN toServer[p] = 1..Len(toServer[p])
        /\ DOMAIN toClient[p] = 1..Len(toClient[p])
    BY LenProperties DEF Queues
  <2> QED
    BY <2>1, <2>2 DEF UnderWay, ResponseTo, Holds
<1>7. LoginsAreLast'
  <2> SUFFICES ASSUME NEW q \in Pages, q \notin raced'
               PROVE  /\ chat[q] => Owns(q)'
                      /\ \A r \in Request :
                           r.messageType = "LOGIN" /\ Holds(toServer'[q], r) =>
                             r.fromUserId = userId'[q] /\ r.content = password'[q]
                      /\ \A a \in Reply :
                           /\ a.messageType = "LOGIN_RESPONSE" /\ a.status = "success"
                           /\ Holds(toClient[q], a)
                           => Owns(q)'
    BY <1>1 DEF LoginsAreLast
  <2>1. CASE q = p
    <3>1. userId'[p] = n /\ password'[p] = pw
      BY <1>1 DEF TypeOK
    <3>2. \A r \in Request : r.messageType = "LOGIN" /\ Holds(toServer'[p], r) => r = req
      BY <1>3, <1>6, <2>1 DEF Submits
    <3> QED
      BY <1>2, <1>6, <2>1, <3>1, <3>2
  <2>2. CASE q # p
    <3>1. userId'[q] = userId[q] /\ password'[q] = password[q] /\ q \notin raced
      BY <1>1, <2>2 DEF TypeOK
    <3>2. Owns(q)' <=> Owns(q)
      BY <1>1, <3>1 DEF Owns, AccountOf
    <3>3. \A r : Holds(toServer'[q], r) => Holds(toServer[q], r)
      BY <1>3, <2>2 DEF Submits
    <3> QED
      BY <3>1, <3>2, <3>3 DEF LoginsAreLast
  <2> QED
    BY <2>1, <2>2
<1>8. LoginsAreSubmitted'
  <2>1. /\ <<n, pw>> \in submitted'[p]
        /\ \A q \in Pages : submitted[q] \subseteq submitted'[q]
    BY <1>1 DEF TypeOK
  <2>2. \A q \in Pages : OwnsOne(q) => OwnsOne(q)'
    BY <1>1, <2>1 DEF OwnsOne, AccountOf
  <2>3. \A q \in Pages : \A r :
          Holds(toServer'[q], r) => Holds(toServer[q], r) \/ (q = p /\ r = req)
    BY <1>3 DEF Submits
  <2> QED
    BY <1>1, <1>2, <2>1, <2>2, <2>3 DEF LoginsAreSubmitted
<1> QED
  BY <1>4, <1>5, <1>7, <1>8

\* A page takes a message, which may be torn.
LEMMA ReceiveIInv ==
  ASSUME IInv, NEW p \in Pages, NEW torn \in BOOLEAN, Receive(p, torn)
  PROVE  IInv'
<1> USE DEF IInv
<1> DEFINE msg == Head(toClient[p])
           welcome == msg.messageType = "LOGIN_RESPONSE" /\ msg.status = "success" /\ ~torn
<1>1. /\ toClient[p] # <<>>
      /\ toClient' = [toClient EXCEPT ![p] = Tail(@)]
      /\ shown' = IF msg.messageType = "SIGN_UP_RESPONSE" /\ ~torn
                  THEN [shown EXCEPT ![p] = msg.content] ELSE shown
      /\ chat' = [chat EXCEPT ![p] = @ \/ welcome]
      /\ form' = [form EXCEPT ![p] = IF welcome /\ @ = "login" THEN "none" ELSE @]
      /\ awaiting' = [awaiting EXCEPT ![p] = {t \in @ : ResponseTo(t) # msg.messageType}]
      /\ UNCHANGED <<users, toServer, userId, requests, registered, password, submitted, raced>>
  BY DEF Receive
<1>2. Takes(toClient, toClient', p, msg, Reply)
  BY <1>1, TakeEffect DEF Queues
<1> HIDE DEF msg
<1>3. /\ msg \in Reply /\ Holds(toClient[p], msg)
      /\ toClient' \in [Pages -> Seq(Reply)]
      /\ \A q \in Pages : \A x : Holds(toClient'[q], x) => Holds(toClient[q], x)
      /\ \A q \in Pages : \A x : Holds(toClient[q], x) =>
           Holds(toClient'[q], x) \/ (q = p /\ x = msg)
  BY <1>2 DEF Takes
<1>4. Queues' /\ Stored'
  BY <1>1, <1>3 DEF Queues, Stored
<1>5. TypeOK'
  <2>1. msg.content \in Ids \cup {None}
    BY <1>3 DEF Reply
  <2>2. /\ shown' \in [Pages -> Ids \cup {None}]
        /\ awaiting' \in [Pages -> SUBSET {"SIGN_UP", "LOGIN"}]
    BY <1>1, <2>1 DEF TypeOK
  <2>3. chat' \in [Pages -> BOOLEAN] /\ form' \in [Pages -> {"login", "register", "none"}]
    <3>1. chat[p] \/ welcome \in BOOLEAN
      BY <1>1 DEF TypeOK
    <3> QED
      BY <1>1, <3>1 DEF TypeOK
  <2> QED
    BY <1>1, <1>4, <2>2, <2>3, MessagesTyped DEF TypeOK, Queues
<1>6. ToldIds'
  <2>1. ASSUME NEW q \in Pages, shown'[q] # None
        PROVE  RegisteredBy(q, shown'[q])
    <3>1. CASE shown'[q] = shown[q]
      BY <2>1, <3>1 DEF ToldIds
    <3>2. CASE q = p /\ msg.messageType = "SIGN_UP_RESPONSE" /\ shown'[q] = msg.content
      BY <1>3, <3>2 DEF ToldIds
    <3> QED
      BY <1>1, <3>1, <3>2 DEF TypeOK
  <2> QED
    BY <1>1, <1>3, <2>1 DEF ToldIds, RegisteredBy
<1>7. LoginsAreLast'
  <2> SUFFICES ASSUME NEW q \in Pages, q \notin raced
               PROVE  /\ chat'[q] => Owns(q)
                      /\ \A r \in Request :
                           r.messageType = "LOGIN" /\ Holds(toServer[q], r) =>
                             r.fromUserId = userId[q] /\ r.content = password[q]
                      /\ \A a \in Reply :
                           /\ a.messageType = "LOGIN_RESPONSE" /\ a.status = "success"
                           /\ Holds(toClient'[q], a)
                           => Owns(q)
    BY <1>1 DEF LoginsAreLast, Owns, AccountOf
  <2>1. chat'[q] => chat[q] \/ (q = p /\ welcome)
    BY <1>1 DEF TypeOK
  <2> QED
    BY <1>3, <2>1 DEF LoginsAreLast
<1>8. LoginsAreSubmitted'
  <2>1. \A q \in Pages : chat'[q] => chat[q] \/ (q = p /\ welcome)
    BY <1>1 DEF TypeOK
  <2>2. \A q \in Pages : OwnsOne(q)' <=> OwnsOne(q)
    BY <1>1 DEF OwnsOne, AccountOf
  <2> QED
    BY <1>1, <1>3, <2>1, <2>2 DEF LoginsAreSubmitted
<1>9. OwedIsExpected'
  <2> SUFFICES ASSUME NEW q \in Pages, NEW t \in awaiting'[q]
               PROVE  Expected(q, t)'
    BY DEF OwedIsExpected
  <2>1. t \in awaiting[q] /\ (q = p => ResponseTo(t) # msg.messageType)
    BY <1>1 DEF TypeOK
  <2>2. Expected(q, t)
    BY <2>1 DEF OwedIsExpected
  <2> QED
    BY <1>1, <1>3, <2>1, <2>2 DEF Expected
<1> QED
  BY <1>4, <1>5, <1>6, <1>7, <1>8, <1>9

\* The page displays and remembers what it did.
Stays(q) ==
  /\ UNCHANGED <<chat[q], shown[q], userId[q], password[q], submitted[q]>>
  /\ q \in raced' <=> q \in raced

\* The queues of a page are lost, and with them what it was owed; the page stays or
\* is a new one.
LEMMA LoseIInv ==
  ASSUME IInv, NEW p \in Pages, Lose(p),
         UNCHANGED <<users, requests, registered>>, TypeOK',
         \A q \in Pages : q # p => Stays(q),
         Stays(p) \/ (~chat'[p] /\ shown'[p] = None)
  PROVE  IInv'
<1> USE DEF IInv
<1>1. /\ toServer' \in [Pages -> Seq(Request)] /\ toClient' \in [Pages -> Seq(Reply)]
      /\ awaiting'[p] = {}
      /\ \A q \in Pages : q # p =>
           /\ toServer'[q] = toServer[q] /\ toClient'[q] = toClient[q]
           /\ awaiting'[q] = awaiting[q]
      /\ \A x : ~Holds(toServer'[p], x) /\ ~Holds(toClient'[p], x)
  BY LoseEffect
<1>2. Queues' /\ Stored'
  BY <1>1 DEF Queues, Stored
<1>3. ToldIds'
  <2>1. \A q \in Pages : q # p => shown'[q] = shown[q]
    BY DEF Stays
  <2>2. shown'[p] = shown[p] \/ shown'[p] = None
    BY DEF Stays
  <2> SUFFICES ASSUME NEW q \in Pages
               PROVE  /\ shown'[q] # None => RegisteredBy(q, shown'[q])
                      /\ \A a \in Reply :
                           a.messageType = "SIGN_UP_RESPONSE" /\ Holds(toClient'[q], a) =>
                             RegisteredBy(q, a.content)
    BY DEF ToldIds, RegisteredBy
  <2>3. CASE q # p
    BY <1>1, <2>1, <2>3 DEF ToldIds
  <2>4. CASE q = p
    BY <1>1, <2>2, <2>4 DEF ToldIds
  <2> QED
    BY <2>3, <2>4
<1>4. LoginsAreLast'
  <2>1. \A q \in Pages : Stays(q) => (Owns(q) => Owns(q)')
    BY DEF Owns, AccountOf, Stays
  <2> SUFFICES ASSUME NEW q \in Pages, q \notin raced'
               PROVE  /\ chat'[q] => Owns(q)'
                      /\ \A r \in Request :
                           r.messageType = "LOGIN" /\ Holds(toServer'[q], r) =>
                             r.fromUserId = userId'[q] /\ r.content = password'[q]
                      /\ \A a \in Reply :
                           /\ a.messageType = "LOGIN_RESPONSE" /\ a.status = "success"
                           /\ Holds(toClient'[q], a)
                           => Owns(q)'
    BY DEF LoginsAreLast
  <2>2. CASE q # p
    BY <1>1, <2>1, <2>2 DEF LoginsAreLast, Stays
  <2>3. CASE q = p
    BY <1>1, <2>1, <2>3 DEF LoginsAreLast, Stays
  <2> QED
    BY <2>2, <2>3
<1>5. LoginsAreSubmitted'
  <2>1. \A q \in Pages : Stays(q) => (OwnsOne(q) => OwnsOne(q)')
    BY DEF OwnsOne, AccountOf, Stays
  <2> SUFFICES ASSUME NEW q \in Pages
               PROVE  /\ chat'[q] => OwnsOne(q)'
                      /\ \A r \in Request :
                           r.messageType = "LOGIN" /\ Holds(toServer'[q], r) =>
                             <<r.fromUserId, r.content>> \in submitted'[q]
                      /\ \A a \in Reply :
                           /\ a.messageType = "LOGIN_RESPONSE" /\ a.status = "success"
                           /\ Holds(toClient'[q], a)
                           => OwnsOne(q)'
    BY DEF LoginsAreSubmitted
  <2>2. CASE q # p
    BY <1>1, <2>1, <2>2 DEF LoginsAreSubmitted, Stays
  <2>3. CASE q = p
    BY <1>1, <2>1, <2>3 DEF LoginsAreSubmitted, Stays
  <2> QED
    BY <2>2, <2>3
<1>6. OwedIsExpected'
  BY <1>1 DEF OwedIsExpected, Expected
<1> QED
  BY <1>2, <1>3, <1>4, <1>5, <1>6

\* The connection is lost, and the page connects again.
LEMMA ReconnectIInv ==
  ASSUME IInv, NEW p \in Pages, Reconnect(p)
  PROVE  IInv'
<1>1. /\ Lose(p)
      /\ UNCHANGED <<users, form, chat, userId, shown, requests, registered, password, submitted,
                     raced>>
  BY DEF Reconnect, display
<1>2. /\ toServer' \in [Pages -> Seq(Request)] /\ toClient' \in [Pages -> Seq(Reply)]
      /\ awaiting' \in [Pages -> SUBSET {"SIGN_UP", "LOGIN"}]
  BY <1>1, LoseEffect
<1>3. TypeOK'
  BY <1>1, <1>2, MessagesTyped DEF IInv, TypeOK
<1>4. \A q \in Pages : Stays(q)
  BY <1>1 DEF Stays
<1> QED
  BY <1>1, <1>3, <1>4, LoseIInv

\* The page is loaded anew.
LEMMA ReloadIInv ==
  ASSUME IInv, NEW p \in Pages, Reload(p)
  PROVE  IInv'
<1>1. /\ Lose(p)
      /\ form' = [form EXCEPT ![p] = "login"]
      /\ chat' = [chat EXCEPT ![p] = FALSE]
      /\ userId' = [userId EXCEPT ![p] = 0]
      /\ shown' = [shown EXCEPT ![p] = None]
      /\ password' = [password EXCEPT ![p] = None]
      /\ submitted' = [submitted EXCEPT ![p] = {}]
      /\ raced' = raced \ {p}
      /\ UNCHANGED <<users, requests, registered>>
  BY DEF Reload
<1>2. /\ toServer' \in [Pages -> Seq(Request)] /\ toClient' \in [Pages -> Seq(Reply)]
      /\ awaiting' \in [Pages -> SUBSET {"SIGN_UP", "LOGIN"}]
  BY <1>1, LoseEffect
<1>3. TypeOK'
  BY <1>1, <1>2, MessagesTyped DEF IInv, TypeOK
<1>4. (\A q \in Pages : q # p => Stays(q)) /\ ~chat'[p] /\ shown'[p] = None
  BY <1>1 DEF IInv, TypeOK, Stays
<1> QED
  BY <1>1, <1>3, <1>4, LoseIInv

\* The server throws a request away, to which no answer is owed.
LEMMA DiscardIInv ==
  ASSUME IInv, NEW p \in Pages, Discard(p)
  PROVE  IInv'
<1> USE DEF IInv
<1> DEFINE r == Head(toServer[p])
<1>1. /\ toServer[p] # <<>> /\ toServer' = [toServer EXCEPT ![p] = Tail(@)]
      /\ r.messageType \notin KnownTypes \/ r.fromUserId = NaN
      /\ UNCHANGED <<users, toClient, form, chat, userId, shown, requests, registered, password,
                     submitted, raced, awaiting>>
  BY DEF Discard, Throws, display, history
<1>2. Takes(toServer, toServer', p, r, Request)
  BY <1>1, TakeEffect DEF Queues
<1> HIDE DEF r
<1>3. /\ r \in Request
      /\ toServer' \in [Pages -> Seq(Request)]
      /\ \A q \in Pages : \A x : Holds(toServer'[q], x) => Holds(toServer[q], x)
      /\ \A q \in Pages : \A x : Holds(toServer[q], x) =>
           Holds(toServer'[q], x) \/ (q = p /\ x = r)
  BY <1>2 DEF Takes
<1>4. r.fromUserId = NaN
  BY <1>1, <1>3 DEF Request, KnownTypes, MessageTypes
<1>5. Queues' /\ Stored' /\ ToldIds'
  BY <1>1, <1>3 DEF Queues, Stored, ToldIds, RegisteredBy
<1>6. TypeOK'
  BY <1>1, <1>5, MessagesTyped DEF TypeOK, Queues
<1>7. LoginsAreSubmitted' /\ LoginsAreLast'
  <2>1. \A q \in Pages : (Owns(q)' <=> Owns(q)) /\ (OwnsOne(q)' <=> OwnsOne(q))
    BY <1>1 DEF Owns, OwnsOne, AccountOf
  <2> QED
    BY <1>1, <1>3, <2>1 DEF LoginsAreSubmitted, LoginsAreLast
<1>8. OwedIsExpected'
  <2>1. \A q \in Pages : \A t : Expected(q, t) => Expected(q, t)'
    BY <1>1, <1>3, <1>4 DEF Expected
  <2> QED
    BY <1>1, <2>1 DEF OwedIsExpected
<1> QED
  BY <1>5, <1>6, <1>7, <1>8

\* A sign-up is handled: a new account is stored and the page is told its id, or
\* nothing is.
LEMMA HandleSignUpIInv ==
  ASSUME IInv, NEW p \in Pages, NEW id \in GenerateUUID, NEW salt \in Salts,
         NEW fails \in BOOLEAN, HandleSignUp(p, id, salt, fails)
  PROVE  IInv'
<1> USE DEF IInv
<1> DEFINE r == Head(toServer[p])
<1>1. /\ toServer[p] # <<>> /\ toServer' = [toServer EXCEPT ![p] = Tail(@)]
      /\ r.messageType = "SIGN_UP"
      /\ UNCHANGED <<form, chat, userId, shown, requests, password, submitted, raced>>
  BY DEF HandleSignUp, Read, display
<1>2. Takes(toServer, toServer', p, r, Request)
  BY <1>1, TakeEffect DEF Queues
<1>3. \/ /\ Inserts(id)
         /\ RegisterUser(id, r.content, salt)
         /\ Answer(p, "SIGN_UP_RESPONSE", id, None)
         /\ registered' = registered \cup {[page |-> p, id |-> id, password |-> r.content]}
         /\ UNCHANGED awaiting
      \/ /\ awaiting' = [awaiting EXCEPT ![p] = @ \ {"SIGN_UP"}]
         /\ UNCHANGED <<users, toClient, registered>>
  BY DEF HandleSignUp
<1> HIDE DEF r
<1>4. /\ r \in Request /\ r.content \in Passwords
      /\ toServer' \in [Pages -> Seq(Request)]
      /\ \A q \in Pages : \A x : Holds(toServer'[q], x) => Holds(toServer[q], x)
      /\ \A q \in Pages : \A x : Holds(toServer[q], x) =>
           Holds(toServer'[q], x) \/ (q = p /\ x = r)
  BY <1>2 DEF Takes, Request
<1>5. CASE /\ Inserts(id)
           /\ RegisterUser(id, r.content, salt)
           /\ Answer(p, "SIGN_UP_RESPONSE", id, None)
           /\ registered' = registered \cup {[page |-> p, id |-> id, password |-> r.content]}
           /\ UNCHANGED awaiting
  <2> DEFINE row == [password_hash |-> HashPassword(r.content, salt), salt |-> salt]
             reply == Replied("SIGN_UP_RESPONSE", id, None)
             account == [page |-> p, id |-> id, password |-> r.content]
  <2>1. id \in Ids
    BY DigitsAssumption DEF GenerateUUID, Ids
  <2>2. /\ id \notin DOMAIN users
        /\ DOMAIN users' = DOMAIN users \cup {id}
        /\ users'[id] = row
        /\ \A i \in DOMAIN users : users'[i] = users[i]
    BY <1>5 DEF Inserts, RegisterUser
  <2>3. reply \in Reply /\ reply.messageType = "SIGN_UP_RESPONSE" /\ reply.content = id
    BY <2>1 DEF Reply, Replied
  <2>4. Replies(p, reply)
    BY <1>5, <2>3, AnswerEffect
  <2> HIDE DEF reply
  <2>5. /\ toClient' \in [Pages -> Seq(Reply)]
        /\ \A q \in Pages : \A x : Holds(toClient'[q], x) <=>
             Holds(toClient[q], x) \/ (q = p /\ x = reply)
    BY <2>4 DEF Replies
  <2>6. /\ row.password_hash = HashPassword(r.content, salt) /\ row.salt = salt
        /\ row \in [password_hash : Passwords \X Salts, salt : Salts]
    BY <1>4 DEF HashPassword
  <2>7. /\ account.page = p /\ account.id = id /\ account.password = r.content
        /\ account \in [page : Pages, id : Ids, password : Passwords]
        /\ registered' = registered \cup {account}
    BY <1>4, <1>5, <2>1
  <2> HIDE DEF row, account
  <2>8. Queues'
    BY <1>4, <2>5 DEF Queues
  <2>9. TypeOK'
    <3>1. \A i \in DOMAIN users' :
            users'[i] \in [password_hash : Passwords \X Salts, salt : Salts]
      BY <2>2, <2>6 DEF TypeOK
    <3>2. DOMAIN users' \subseteq Ids
      BY <2>1, <2>2 DEF TypeOK
    <3>3. registered' \subseteq [page : Pages, id : Ids, password : Passwords]
      BY <2>7 DEF TypeOK
    <3> QED
      BY <1>1, <1>5, <2>8, <3>1, <3>2, <3>3, MessagesTyped DEF TypeOK, Queues
  <2>10. Stored'
    <3>1. \A i \in DOMAIN users' : \E a \in registered' : a.id = i
      BY <2>2, <2>7 DEF Stored
    <3>2. ASSUME NEW a \in registered'
          PROVE  /\ a.id \in GenerateUUID /\ a.id \in DOMAIN users'
                 /\ HashPassword(a.password, users'[a.id].salt) = users'[a.id].password_hash
      <4>1. CASE a \in registered
        <5>1. /\ a.id \in GenerateUUID /\ a.id \in DOMAIN users
              /\ HashPassword(a.password, users[a.id].salt) = users[a.id].password_hash
          BY <4>1 DEF Stored
        <5> QED
          BY <2>2, <5>1
      <4>2. CASE a = account
        BY <2>2, <2>6, <2>7, <4>2
      <4> QED
        BY <2>7, <4>1, <4>2
    <3> QED
      BY <3>1, <3>2 DEF Stored
  <2> DEFINE Told(q, i) == \E a \in registered' : a.page = q /\ a.id = i
  <2>11. /\ \A q \in Pages : \A i : RegisteredBy(q, i) => Told(q, i)
         /\ Told(p, id)
    BY <2>7 DEF RegisteredBy
  <2>12. ToldIds'
    <3> SUFFICES ASSUME NEW q \in Pages
                 PROVE  /\ shown[q] # None => Told(q, shown[q])
                        /\ \A a \in Reply :
                             a.messageType = "SIGN_UP_RESPONSE" /\ Holds(toClient'[q], a) =>
                               Told(q, a.content)
      BY <1>1 DEF ToldIds, RegisteredBy
    <3> HIDE DEF Told
    <3> QED
      BY <2>3, <2>5, <2>11 DEF ToldIds
  <2>13. LoginsAreSubmitted' /\ LoginsAreLast'
    <3>1. \A n, pw : AccountOf(n, pw) => AccountOf(n, pw)'
      BY <2>7 DEF AccountOf
    <3>2. \A q \in Pages : (Owns(q) => Owns(q)') /\ (OwnsOne(q) => OwnsOne(q)')
      BY <1>1, <3>1 DEF Owns, OwnsOne
    <3>3. LoginsAreLast'
      BY <1>1, <1>4, <2>3, <2>5, <3>2 DEF LoginsAreLast
    <3>4. LoginsAreSubmitted'
      BY <1>1, <1>4, <2>3, <2>5, <3>2 DEF LoginsAreSubmitted
    <3> QED
      BY <3>3, <3>4
  <2>14. OwedIsExpected'
    <3>1. \A q \in Pages : \A t : Expected(q, t) => Expected(q, t)'
      BY <1>1, <1>4, <2>3, <2>5 DEF Expected, ResponseTo
    <3> QED
      BY <1>5, <3>1 DEF OwedIsExpected
  <2> QED
    BY <2>8, <2>9, <2>10, <2>12, <2>13, <2>14
<1>6. CASE /\ awaiting' = [awaiting EXCEPT ![p] = @ \ {"SIGN_UP"}]
           /\ UNCHANGED <<users, toClient, registered>>
  <2>1. Queues' /\ Stored' /\ ToldIds'
    BY <1>1, <1>4, <1>6 DEF Queues, Stored, ToldIds, RegisteredBy
  <2>2. /\ awaiting' \in [Pages -> SUBSET {"SIGN_UP", "LOGIN"}]
        /\ \A q \in Pages : \A t \in awaiting'[q] :
             t \in awaiting[q] /\ (q = p => t # "SIGN_UP")
    BY <1>6 DEF TypeOK
  <2>3. TypeOK'
    BY <1>1, <1>6, <2>1, <2>2, MessagesTyped DEF TypeOK, Queues
  <2>4. LoginsAreSubmitted' /\ LoginsAreLast'
    <3>1. \A q \in Pages : (Owns(q)' <=> Owns(q)) /\ (OwnsOne(q)' <=> OwnsOne(q))
      BY <1>1, <1>6 DEF Owns, OwnsOne, AccountOf
    <3> QED
      BY <1>1, <1>4, <1>6, <3>1 DEF LoginsAreSubmitted, LoginsAreLast
  <2>5. OwedIsExpected'
    <3>1. \A q \in Pages : \A t :
            Expected(q, t) /\ (q = p => t # "SIGN_UP") => Expected(q, t)'
      BY <1>1, <1>4, <1>6 DEF Expected
    <3> QED
      BY <2>2, <3>1 DEF OwedIsExpected
  <2> QED
    BY <2>1, <2>3, <2>4, <2>5
<1> QED
  BY <1>3, <1>5, <1>6

\* A login is handled: it succeeds only with the password of an account.
LEMMA HandleLoginIInv ==
  ASSUME IInv, NEW p \in Pages, NEW refused \in BOOLEAN, HandleLogin(p, refused)
  PROVE  IInv'
<1> USE DEF IInv
<1> DEFINE r == Head(toServer[p])
           auth == AuthenticateUser(IntToString(ToInt(r.fromUserId)), r.content)
           reply == Replied("LOGIN_RESPONSE", None, IF auth /\ ~refused THEN "success" ELSE "fail")
<1>1. /\ toServer[p] # <<>> /\ toServer' = [toServer EXCEPT ![p] = Tail(@)]
      /\ r.messageType = "LOGIN" /\ r.fromUserId # NaN
      /\ Answer(p, "LOGIN_RESPONSE", None, IF auth /\ ~refused THEN "success" ELSE "fail")
      /\ UNCHANGED <<users, form, chat, userId, shown, requests, registered, password, submitted,
                     raced, awaiting>>
  BY DEF HandleLogin, Read, Throws, display, history
<1>2. Takes(toServer, toServer', p, r, Request)
  BY <1>1, TakeEffect DEF Queues
<1> HIDE DEF r
<1>3. /\ r \in Request /\ Holds(toServer[p], r)
      /\ toServer' \in [Pages -> Seq(Request)]
      /\ \A q \in Pages : \A x : Holds(toServer'[q], x) => Holds(toServer[q], x)
      /\ \A q \in Pages : \A x : Holds(toServer[q], x) =>
           Holds(toServer'[q], x) \/ (q = p /\ x = r)
  BY <1>2 DEF Takes
<1> HIDE DEF auth
<1>4. /\ reply \in Reply /\ reply.messageType = "LOGIN_RESPONSE"
      /\ reply.status = "success" => auth
  BY DEF Reply, Replied
<1>5. Replies(p, reply)
  BY <1>1, <1>4, AnswerEffect
<1> HIDE DEF reply
<1>6. /\ toClient' \in [Pages -> Seq(Reply)]
      /\ \A q \in Pages : \A x : Holds(toClient'[q], x) <=>
           Holds(toClient[q], x) \/ (q = p /\ x = reply)
  BY <1>5 DEF Replies
<1>7. Queues' /\ Stored'
  BY <1>1, <1>3, <1>6 DEF Queues, Stored
<1>8. TypeOK'
  BY <1>1, <1>7, MessagesTyped DEF TypeOK, Queues
<1>9. ToldIds'
  BY <1>1, <1>4, <1>6 DEF ToldIds, RegisteredBy
<1>10. LoginsAreSubmitted' /\ LoginsAreLast'
  <2>1. \A q \in Pages : (Owns(q)' <=> Owns(q)) /\ (OwnsOne(q)' <=> OwnsOne(q))
    BY <1>1 DEF Owns, OwnsOne, AccountOf
  <2>2. auth => AccountOf(r.fromUserId, r.content)
    <3> SUFFICES ASSUME auth PROVE AccountOf(r.fromUserId, r.content)
      OBVIOUS
    <3> DEFINE id == IntToString(ToInt(r.fromUserId))
    <3>1. id \in DOMAIN users /\ HashPassword(r.content, users[id].salt) = users[id].password_hash
      BY DEF auth, AuthenticateUser
    <3> HIDE DEF id
    <3>2. PICK account \in registered : account.id = id
      BY <3>1 DEF Stored
    <3>3. HashPassword(account.password, users[id].salt) = HashPassword(r.content, users[id].salt)
      BY <3>1, <3>2 DEF Stored
    <3>4. account.password = r.content
      BY <3>3 DEF HashPassword
    <3> QED
      BY <1>1, <3>2, <3>4 DEF AccountOf, id
  <2>3. p \notin raced /\ auth => Owns(p)
    BY <1>1, <1>3, <2>2 DEF LoginsAreLast, Owns
  <2>4. auth => OwnsOne(p)
    <3>1. <<r.fromUserId, r.content>> \in submitted[p]
      BY <1>1, <1>3 DEF LoginsAreSubmitted
    <3> QED
      BY <2>2, <3>1 DEF OwnsOne
  <2>5. LoginsAreLast'
    BY <1>1, <1>3, <1>4, <1>6, <2>1, <2>3 DEF LoginsAreLast
  <2>6. LoginsAreSubmitted'
    BY <1>1, <1>3, <1>4, <1>6, <2>1, <2>4 DEF LoginsAreSubmitted
  <2> QED
    BY <2>5, <2>6
<1>11. OwedIsExpected'
  <2>1. \A q \in Pages : \A t : Expected(q, t) => Expected(q, t)'
    BY <1>1, <1>3, <1>4, <1>6 DEF Expected, ResponseTo
  <2> QED
    BY <1>1, <2>1 DEF OwedIsExpected
<1> QED
  BY <1>7, <1>8, <1>9, <1>10, <1>11

\* Every step keeps the invariant.
LEMMA NextIInv == IInv /\ [Next]_vars => IInv'
<1> SUFFICES ASSUME IInv, [Next]_vars PROVE IInv'
  OBVIOUS
<1>1. CASE UNCHANGED vars
  <2>1. UNCHANGED <<users, toServer, toClient, form, chat, userId, shown, requests, registered,
                    password, submitted, raced, awaiting>>
    BY <1>1 DEF vars, display, history
  <2>2. TypeOK' /\ Queues'
    BY <2>1 DEF IInv, TypeOK, Queues
  <2>3. Stored' /\ ToldIds'
    BY <2>1 DEF IInv, Stored, ToldIds, RegisteredBy
  <2>4. LoginsAreSubmitted' /\ LoginsAreLast' /\ OwedIsExpected'
    <3>1. \A q \in Pages : (Owns(q)' <=> Owns(q)) /\ (OwnsOne(q)' <=> OwnsOne(q))
      BY <2>1 DEF Owns, OwnsOne, AccountOf
    <3> QED
      BY <2>1, <3>1 DEF IInv, LoginsAreSubmitted, LoginsAreLast, OwedIsExpected, Expected
  <2> QED
    BY <2>2, <2>3, <2>4 DEF IInv
<1>2. ASSUME NEW p \in Pages, PageStep(p)
      PROVE  IInv'
  BY <1>2, ShowFormIInv, RegisterIInv, SubmitLoginIInv, ReconnectIInv, ReloadIInv DEF PageStep
<1>3. ASSUME NEW p \in Pages, NEW torn \in BOOLEAN, Receive(p, torn)
      PROVE  IInv'
  BY <1>3, ReceiveIInv
<1>4. ASSUME NEW p \in Pages, Handle(p)
      PROVE  IInv'
  BY <1>4, DiscardIInv, HandleSignUpIInv, HandleLoginIInv DEF Handle
<1> QED
  BY <1>1, <1>2, <1>3, <1>4 DEF Next

-----------------------------------------------------------------------------
(* The theorems. *)

\* The inductive invariant holds in every reachable state.
THEOREM Invariance == Spec => []IInv
<1> QED
  BY InitIInv, NextIInv, PTL DEF Spec

\* The table, the queues and the pages are always well formed.
THEOREM TypeCorrect == Spec => []TypeOK
<1> QED
  BY Invariance, PTL DEF IInv

\* What is expected is on the way.
LEMMA ExpectedIsUnderWay == IInv => OwedIsUnderWay
<1> SUFFICES ASSUME IInv, NEW p \in Pages, NEW type \in awaiting[p]
             PROVE  UnderWay(p, type)
  BY DEF OwedIsUnderWay
<1>1. Expected(p, type)
  BY DEF IInv, OwedIsExpected
<1>2. DOMAIN toServer[p] = 1..Len(toServer[p]) /\ DOMAIN toClient[p] = 1..Len(toClient[p])
  BY LenProperties DEF IInv, Queues
<1> QED
  BY <1>1, <1>2 DEF Expected, UnderWay, Holds

\* For any number of pages and of forms submitted, no answer that is owed is
\* forgotten: a request the server will answer, or the answer, is on the way.
THEOREM NoAnswerForgotten == Spec => []OwedIsUnderWay
<1> QED
  BY Invariance, ExpectedIsUnderWay, PTL

\* A page is in the chat with an id and a password that it submitted; one whose
\* logins did not race, with those it submitted last.
LEMMA ChatOwned == IInv => ChatIsOwned
BY DEF IInv, LoginsAreSubmitted, OwnsOne, LoginsAreLast, Owns, ChatIsOwned

\* Nobody enters the chat without an id and the password registered with it, however
\* sign-ups and logins of several pages interleave and overtake each other.
THEOREM ChatNeedsPassword == Spec => []ChatIsOwned
<1> QED
  BY Invariance, ChatOwned, PTL

\* If ids survive the conversions, then a shown id logs in, its password not being blank.
LEMMA ShownAuthenticates == IdsSurvive /\ IInv => ShownLogsIn
<1> SUFFICES ASSUME IdsSurvive, IInv, NEW p \in Pages, shown[p] # None
             PROVE  LET int == ToInt(ParseInt(shown[p])) IN
                    /\ int \notin {0, -1}
                    /\ \E account \in registered :
                         /\ account.page = p /\ account.id = shown[p]
                         /\ account.password # Blank =>
                              /\ FormTakes(account.password)
                              /\ AuthenticateUser(IntToString(int), account.password)
  BY DEF ShownLogsIn
<1> DEFINE int == ToInt(ParseInt(shown[p]))
<1>1. PICK account \in registered : account.page = p /\ account.id = shown[p]
  BY DEF IInv, ToldIds, RegisteredBy
<1>2. /\ shown[p] \in GenerateUUID /\ shown[p] \in DOMAIN users
      /\ HashPassword(account.password, users[shown[p]].salt) = users[shown[p]].password_hash
  BY <1>1 DEF IInv, Stored
<1>3. IntToString(int) = shown[p] /\ int \notin {0, -1}
  BY <1>2 DEF IdsSurvive
<1> HIDE DEF int
<1>4. AuthenticateUser(IntToString(int), account.password)
  BY <1>2, <1>3 DEF AuthenticateUser
<1>5. account.password # Blank => FormTakes(account.password)
  BY DEF FormTakes
<1> QED
  BY <1>1, <1>3, <1>4, <1>5 DEF int

\* An id that a page shows is of an account that page registered, and unless its
\* password is blank the login form takes the two and the server accepts them, provided
\* that ids survive the conversions.
THEOREM ShownIdLogsIn == IdsSurvive => (Spec => []ShownLogsIn)
<1> SUFFICES ASSUME IdsSurvive PROVE Spec => []ShownLogsIn
  OBVIOUS
<1>1. IInv => ShownLogsIn
  BY ShownAuthenticates
<1> QED
  BY <1>1, Invariance, PTL
=============================================================================
