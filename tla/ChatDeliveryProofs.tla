-------------------------- MODULE ChatDeliveryProofs --------------------------
(***************************************************************************)
(* Theorems about ChatDelivery, for every set of users and connections and *)
(* every number of texts.                                                  *)
(*                                                                         *)
(* The order of the copies a page gets depends on what still waits on its  *)
(* connection: a pull before a text, a text before a later one.  So most   *)
(* of the inductive invariant says what a queue holds, and before what.    *)
(***************************************************************************)
EXTENDS ChatDelivery, QueueLemmas, FiniteSetTheorems

\* A user has to do with a connection: the page is on it, the server bound it to
\* the user, or a request of the user's waits on it.
Uses(u, c) ==
  \/ sock[u] = c
  \/ userSessions[u] = c
  \/ \E r \in Request : r.user = u /\ Holds(toServer[c], r)

\* A connection is used by one user, and only after it was made.
Owned ==
  \A c \in Conns : \A u, w \in Users :
    Uses(u, c) => c \in used /\ (Uses(w, c) => u = w)

\* Nothing waits for a page that is not there, and nobody serves an orphan.
Quiet ==
  \A c \in Conns :
    /\ (\A u \in Users : sock[u] # c) => toClient[c] = <<>>
    /\ c \in orphans => toServer[c] = <<>> /\ \A u \in Users : userSessions[u] # c

\* The page of u holds the copy m, or it is on its way to it; a arrived, or will
\* arrive, before b.
Arriving(u) == IF sock[u] = None THEN <<>> ELSE toClient[sock[u]]
Gets(u, m) == Holds(cache[u], m) \/ Holds(Arriving(u), m)
GetsBefore(u, a, b) ==
  \/ Precedes(cache[u], a, b)
  \/ Precedes(Arriving(u), a, b)
  \/ Holds(cache[u], a) /\ Holds(Arriving(u), b)

Copied(kind, n) == [kind |-> kind, n |-> n]

\* The request with which u's page sent its text n.
Sent(c, n) == \E r \in Request : r.type = "TEXT" /\ r.n = n /\ Holds(toServer[c], r)

\* Every number stands for a text that was sent, by one user to others.
Numbered ==
  /\ Len(texts) <= MaxTexts
  /\ \A i \in 1..Len(texts) : texts[i].to # texts[i].from
  /\ \A i \in 1..Len(rows) : rows[i] \in 1..Len(texts)
  /\ \A c \in Conns, n \in Nat : Sent(c, n) => n \in 1..Len(texts)
  /\ \A u \in Users, m \in Copy : Gets(u, m) => m.n \in 1..Len(texts)

\* A text waits on the connection it was sent over, in the order of sending, and
\* was not stored yet; nor was any text stored twice.
Pending ==
  /\ \A c \in Conns, n \in Nat :
       Sent(c, n) => texts[n].conn = c /\ \A i \in 1..Len(rows) : rows[i] # n
  /\ \A c \in Conns, r, q \in Request :
       r.type = "TEXT" /\ q.type = "TEXT" /\ Precedes(toServer[c], r, q) => r.n < q.n
  /\ \A i, k \in 1..Len(rows) : rows[i] = rows[k] => i = k

\* A live copy is of a text handled before all that wait on its connection.
Handled ==
  \A u \in Users, m \in Copy :
    m.kind = "live" /\ Gets(u, m) =>
      /\ texts[m.n].conn \in Conns
      /\ \A k \in Nat : Sent(texts[m.n].conn, k) => m.n < k

\* The user's own copies are on the page, not on their way.
OwnTyped ==
  \A u \in Users, m \in Copy :
    m.kind = "own" =>
      /\ ~Holds(Arriving(u), m)
      /\ Holds(cache[u], m) => texts[m.n].from = u /\ view[u] = "chat"

\* The request or answer waits on the connection of u's page.
Asked(u, type) ==
  \E r \in Request : r.type = type /\ sock[u] # None /\ Holds(toServer[sock[u]], r)

\* u's page pulls once for each login, and a copy is pulled after that.
PullsAsked ==
  \A u \in Users :
    /\ view[u] = "chat" => pulls[u] >= 1
    /\ pulls[u] = 0 \/ (pulls[u] = 1 /\ Asked(u, "PULL_MESSAGE")) =>
         \A m \in Copy : m.kind = "pulled" => ~Gets(u, m)
    /\ pulls[u] = 0 => ~Asked(u, "PULL_MESSAGE")
    /\ pulls[u] = 1 /\ sock[u] # None =>
         \A r, q \in Request :
           r.type = "PULL_MESSAGE" /\ q.type = "PULL_MESSAGE" =>
             ~Precedes(toServer[sock[u]], r, q)

\* What was typed on a page that has yet to pull waits behind the pull.
PullFirst ==
  \A u \in Users, m \in Copy, r \in Request :
    /\ m.kind = "own" /\ Holds(cache[u], m)
    /\ sock[u] # None /\ pulls[u] <= 1
    /\ r.type = "PULL_MESSAGE" /\ Holds(toServer[sock[u]], r)
    => \E q \in Request :
         q.type = "TEXT" /\ q.n = m.n /\ Precedes(toServer[sock[u]], r, q)

\* What is on a page that is, or asks to be, logged in was typed on its
\* connection.
OwnHere ==
  \A u \in Users, m \in Copy :
    /\ m.kind = "own" /\ Holds(cache[u], m)
    /\ sock[u] # None
    /\ userSessions[u] = sock[u] \/ Asked(u, "LOGIN")
    => texts[m.n].conn = sock[u]

\* One LOGIN waits at a time, and a pull behind it if the page is in the chat.
Relogin ==
  \A u \in Users, r \in Request : sock[u] # None /\ r.type = "LOGIN" =>
    /\ \A q \in Request : q.type = "LOGIN" => ~Precedes(toServer[sock[u]], r, q)
    /\ view[u] = "chat" /\ Holds(toServer[sock[u]], r) =>
         \E q \in Request : q.type = "PULL_MESSAGE" /\ Precedes(toServer[sock[u]], r, q)

\* InOrder, OwnOnce and OnceEachWay, of the copies that a page gets.
Ordered ==
  \A u \in Users, a, b \in Copy : GetsBefore(u, a, b) =>
    /\ /\ a.kind = "live" /\ b.kind = "live"
       /\ texts[a.n].conn = texts[b.n].conn
       => a.n < b.n
    /\ pulls[u] <= 1 => a # b /\ ("own" \in {a.kind, b.kind} => a.n # b.n)

\* NoGap, of the copies that a page gets.
Delivered ==
  \A u \in Users, i \in 1..Len(rows) :
    /\ sock[u] # None /\ userSessions[u] = sock[u] /\ view[u] = "chat"
    /\ ~Asked(u, "PULL_MESSAGE")
    /\ texts[rows[i]].to = u
    => rows[i] \in missed[u] \/ \E m \in Copy : m.n = rows[i] /\ Gets(u, m)

\* The inductive invariant.
IInv ==
  /\ TypeOK
  /\ Owned /\ Quiet
  /\ Numbered /\ Pending /\ Handled
  /\ OwnTyped /\ OwnHere
  /\ PullsAsked /\ PullFirst /\ Relogin
  /\ Ordered /\ Delivered

-----------------------------------------------------------------------------
(* What the operators of the steps do to the queues. *)

\* A request of u's page.
Asking(u, type, n) == [type |-> type, user |-> u, n |-> n]

\* The request req joins those on the connection of u's page, unless the socket
\* is closed or an orphan.
JoinsQueue(u, req) ==
  /\ toServer' \in [Conns -> Seq(Request)]
  /\ \A c \in Conns : c # sock[u] \/ c \in orphans => toServer'[c] = toServer[c]
  /\ \A c \in Conns : \A r : Holds(toServer'[c], r) <=>
       Holds(toServer[c], r) \/ (c = sock[u] /\ c \notin orphans /\ r = req)
  /\ \A c \in Conns : \A r, q : Precedes(toServer'[c], r, q) <=>
       \/ Precedes(toServer[c], r, q)
       \/ c = sock[u] /\ c \notin orphans /\ Holds(toServer[c], r) /\ q = req

\* That is what sending does.
LEMMA SendEffect ==
  ASSUME TypeOK, NEW u \in Users, NEW type, NEW n, Send(u, type, n),
         Asking(u, type, n) \in Request
  PROVE  JoinsQueue(u, Asking(u, type, n))
<1> DEFINE req == Asking(u, type, n)
<1>1. CASE sock[u] \in orphans \cup {None}
  <2>1. toServer' = toServer
    BY <1>1 DEF Send
  <2>2. /\ \A c \in Conns : ~(c = sock[u] /\ c \notin orphans)
        /\ toServer \in [Conns -> Seq(Request)]
    BY <1>1, NoneAssumption DEF TypeOK
  <2> QED
    BY <2>1, <2>2 DEF JoinsQueue
<1>2. CASE sock[u] \notin orphans \cup {None}
  <2>1. /\ sock[u] \in Conns /\ sock[u] \notin orphans
        /\ toServer' = [toServer EXCEPT ![sock[u]] = Append(@, req)]
        /\ toServer[sock[u]] \in Seq(Request)
    BY <1>2 DEF Send, TypeOK, Asking
  <2>2. /\ Append(toServer[sock[u]], req) \in Seq(Request)
        /\ \A a : Holds(Append(toServer[sock[u]], req), a) <=>
                    Holds(toServer[sock[u]], a) \/ a = req
        /\ \A a, b : Precedes(Append(toServer[sock[u]], req), a, b) <=>
             Precedes(toServer[sock[u]], a, b) \/ (Holds(toServer[sock[u]], a) /\ b = req)
    BY <2>1, QueueAppend
  <2>3. /\ toServer'[sock[u]] = Append(toServer[sock[u]], req)
        /\ \A c \in Conns : c # sock[u] => toServer'[c] = toServer[c]
        /\ toServer' \in [Conns -> Seq(Request)]
    BY <2>1, <2>2 DEF TypeOK
  <2> QED
    BY <2>1, <2>2, <2>3 DEF JoinsQueue
<1> QED
  BY <1>1, <1>2

\* The head of the queue of c is read, the others stay.
ReadsHead(c) ==
  /\ toServer[c] # <<>> /\ Head(toServer[c]) \in Request
  /\ Holds(toServer[c], Head(toServer[c]))
  /\ toServer' \in [Conns -> Seq(Request)]
  /\ \A d \in Conns : d # c => toServer'[d] = toServer[d]
  /\ \A r : Holds(toServer[c], r) <=> r = Head(toServer[c]) \/ Holds(toServer'[c], r)
  /\ \A r, q : Precedes(toServer[c], r, q) <=>
       Precedes(toServer'[c], r, q) \/ (r = Head(toServer[c]) /\ Holds(toServer'[c], q))

\* That is what reading does.
LEMMA ReadEffect ==
  ASSUME TypeOK, NEW c \in Conns, NEW type, Read(c, type)
  PROVE  ReadsHead(c) /\ Head(toServer[c]).type = type
<1>1. /\ toServer[c] \in Seq(Request) /\ toServer[c] # <<>>
      /\ toServer' = [toServer EXCEPT ![c] = Tail(@)]
      /\ Head(toServer[c]).type = type
  BY DEF Read, TypeOK
<1>2. /\ Tail(toServer[c]) \in Seq(Request) /\ Head(toServer[c]) \in Request
      /\ \A r : Holds(toServer[c], r) <=>
                  r = Head(toServer[c]) \/ Holds(Tail(toServer[c]), r)
      /\ \A r, q : Precedes(toServer[c], r, q) <=>
                     \/ Precedes(Tail(toServer[c]), r, q)
                     \/ r = Head(toServer[c]) /\ Holds(Tail(toServer[c]), q)
  BY <1>1, QueueTail
<1>3. /\ toServer'[c] = Tail(toServer[c])
      /\ \A d \in Conns : d # c => toServer'[d] = toServer[d]
      /\ toServer' \in [Conns -> Seq(Request)]
  BY <1>1, <1>2 DEF TypeOK
<1> QED
  BY <1>1, <1>2, <1>3 DEF ReadsHead

\* The types of the queues towards the pages.
LEMMA ArrivingType ==
  ASSUME TypeOK, NEW u \in Users
  PROVE  Arriving(u) \in Seq(Push) /\ cache[u] \in Seq(Copy) /\ cache[u] \in Seq(Push)
<1>1. cache[u] \in Seq(Copy) /\ cache[u] \in Seq(Push)
  BY DEF TypeOK, Push
<1>2. Arriving(u) \in Seq(Push)
  BY EmptySeq DEF TypeOK, Arriving
<1> QED
  BY <1>1, <1>2

\* A message reaches the pages on these connections, behind what is on its way.
Reaches(conns, m) ==
  /\ toClient' \in [Conns -> Seq(Push)]
  /\ \A c \in Conns : (\A u \in Users : sock[u] # c) => toClient'[c] = toClient[c]
  /\ \A u \in Users : \A x : Holds(Arriving(u)', x) <=>
       Holds(Arriving(u), x) \/ (sock[u] \in conns \ {None} /\ x = m)
  /\ \A u \in Users : \A x : Gets(u, x)' <=>
       Gets(u, x) \/ (sock[u] \in conns \ {None} /\ x = m)
  /\ \A u \in Users : \A a, b : GetsBefore(u, a, b)' =>
       GetsBefore(u, a, b) \/ (sock[u] \in conns \ {None} /\ Gets(u, a) /\ b = m)

\* That is what SendTo does.
LEMMA SendToEffect ==
  ASSUME TypeOK, NEW conns, NEW m \in Push, SendTo(conns, m), UNCHANGED <<sock, cache>>
  PROVE  Reaches(conns, m)
<1>1. toClient' \in [Conns -> Seq(Push)]
  <2>1. ASSUME NEW c \in Conns
        PROVE  toClient[c] \in Seq(Push) /\ Append(toClient[c], m) \in Seq(Push)
    BY <2>1, QueueAppend DEF TypeOK
  <2> QED
    BY <2>1 DEF SendTo, Enqueue
<1>2. \A c \in Conns : (\A u \in Users : sock[u] # c) => toClient'[c] = toClient[c]
  BY DEF SendTo
<1>3. ASSUME NEW u \in Users
      PROVE  /\ \A x : Holds(Arriving(u)', x) <=>
                  Holds(Arriving(u), x) \/ (sock[u] \in conns \ {None} /\ x = m)
             /\ \A a, b : Precedes(Arriving(u)', a, b) <=>
                  \/ Precedes(Arriving(u), a, b)
                  \/ sock[u] \in conns \ {None} /\ Holds(Arriving(u), a) /\ b = m
  <2>1. CASE sock[u] = None \/ sock[u] \notin conns
    <3>1. Arriving(u)' = Arriving(u)
      BY <2>1 DEF SendTo, Arriving, TypeOK
    <3> QED
      BY <2>1, <3>1
  <2>2. CASE sock[u] # None /\ sock[u] \in conns
    <3>1. Arriving(u)' = Append(Arriving(u), m)
      BY <2>2 DEF SendTo, Enqueue, Arriving, TypeOK
    <3>2. /\ \A a : Holds(Append(Arriving(u), m), a) <=> Holds(Arriving(u), a) \/ a = m
          /\ \A a, b : Precedes(Append(Arriving(u), m), a, b) <=>
                         Precedes(Arriving(u), a, b) \/ (Holds(Arriving(u), a) /\ b = m)
      BY ArrivingType, QueueAppend
    <3> QED
      BY <2>2, <3>1, <3>2
  <2> QED
    BY <2>1, <2>2
<1>4. ASSUME NEW u \in Users, NEW x
      PROVE  Gets(u, x)' <=> Gets(u, x) \/ (sock[u] \in conns \ {None} /\ x = m)
  BY <1>3 DEF Gets
<1>5. ASSUME NEW u \in Users, NEW a, NEW b, GetsBefore(u, a, b)'
      PROVE  GetsBefore(u, a, b) \/ (sock[u] \in conns \ {None} /\ Gets(u, a) /\ b = m)
  BY <1>3, <1>5 DEF Gets, GetsBefore
<1> QED
  BY <1>1, <1>2, <1>3, <1>4, <1>5 DEF Reaches

-----------------------------------------------------------------------------
(* Steps that bring nothing new to a page. *)

\* The rows that are left when the oldest has aged.
LEMMA AgedRows ==
  ASSUME TypeOK, rows' = rows \/ (rows # <<>> /\ rows' = Tail(rows))
  PROVE  /\ rows' \in Seq(Numbers)
         /\ \E d \in {0, 1} : \A i \in 1..Len(rows') :
              i + d \in 1..Len(rows) /\ rows'[i] = rows[i + d]
<1>1. rows \in Seq(Numbers) /\ Len(rows) \in Nat
  BY LenProperties DEF TypeOK
<1>2. CASE rows' = rows
  <2>1. \A i \in 1..Len(rows') : i + 0 \in 1..Len(rows) /\ rows'[i] = rows[i + 0]
    BY <1>1, <1>2
  <2> QED
    BY <1>1, <1>2, <2>1
<1>3. CASE rows # <<>> /\ rows' = Tail(rows)
  <2>1. /\ Tail(rows) \in Seq(Numbers)
        /\ Len(Tail(rows)) = Len(rows) - 1
        /\ \A i \in 1..Len(Tail(rows)) : Tail(rows)[i] = rows[i + 1]
    BY <1>1, <1>3, HeadTailProperties
  <2>2. \A i \in 1..Len(Tail(rows)) : i + 1 \in 1..Len(rows)
    BY <1>1, <2>1
  <2>3. \A i \in 1..Len(rows') : i + 1 \in 1..Len(rows) /\ rows'[i] = rows[i + 1]
    <3>1. rows' = Tail(rows)
      BY <1>3
    <3> HIDE <1>3
    <3> QED
      BY <2>1, <2>2, <3>1
  <2> QED
    BY <1>3, <2>1, <2>3
<1> QED
  BY <1>2, <1>3

\* Such a step sends no text and keeps the texts, in order.
Thins ==
  /\ texts' = texts
  /\ rows' = rows \/ (rows # <<>> /\ rows' = Tail(rows))
  /\ \A c \in Conns, r \in Request :
       r.type = "TEXT" /\ Holds(toServer'[c], r) => Holds(toServer[c], r)
  /\ \A c \in Conns, r, q \in Request :
       r.type = "TEXT" /\ q.type = "TEXT" /\ Precedes(toServer'[c], r, q) =>
         Precedes(toServer[c], r, q)
  /\ \A u \in Users, m \in Copy : Gets(u, m)' => Gets(u, m)
  /\ \A u \in Users, a, b \in Copy :
       GetsBefore(u, a, b)' => GetsBefore(u, a, b) /\ pulls[u] <= pulls'[u]

\* Such a step keeps the numbers and the order of the texts.
LEMMA ThinStep ==
  ASSUME IInv, TypeOK', Thins
  PROVE  Numbered' /\ Pending' /\ Handled' /\ Ordered'
<1> PICK d \in {0, 1} : \A i \in 1..Len(rows') :
           i + d \in 1..Len(rows) /\ rows'[i] = rows[i + d]
  BY AgedRows DEF IInv, Thins
<1> Len(rows) \in Nat /\ Len(rows') \in Nat
  BY LenProperties DEF IInv, TypeOK
<1>1. \A c \in Conns, n \in Nat : Sent(c, n)' => Sent(c, n)
  BY DEF Thins, Sent
<1>2. Numbered'
  BY <1>1 DEF IInv, Numbered, Thins
<1>3. Pending'
  <2>1. \A c \in Conns, n \in Nat :
          Sent(c, n)' => texts'[n].conn = c /\ \A i \in 1..Len(rows') : rows'[i] # n
    BY <1>1 DEF IInv, Pending, Thins
  <2>2. \A i, k \in 1..Len(rows') : rows'[i] = rows'[k] => i = k
    <3> SUFFICES ASSUME NEW i \in 1..Len(rows'), NEW k \in 1..Len(rows'), rows'[i] = rows'[k]
                 PROVE  i = k
      OBVIOUS
    <3>1. i + d = k + d
      BY DEF IInv, Pending
    <3> QED
      BY <3>1
  <2>3. \A c \in Conns, r, q \in Request :
          r.type = "TEXT" /\ q.type = "TEXT" /\ Precedes(toServer'[c], r, q) => r.n < q.n
    BY DEF IInv, Pending, Thins
  <2> QED
    BY <2>1, <2>2, <2>3 DEF Pending
<1>4. Handled'
  BY <1>1 DEF IInv, Handled, Thins
<1>5. Ordered'
  <2> SUFFICES ASSUME NEW u \in Users, NEW a \in Copy, NEW b \in Copy, GetsBefore(u, a, b)'
               PROVE  /\ /\ a.kind = "live" /\ b.kind = "live"
                         /\ texts'[a.n].conn = texts'[b.n].conn
                         => a.n < b.n
                      /\ pulls'[u] <= 1 =>
                           a # b /\ ("own" \in {a.kind, b.kind} => a.n # b.n)
    BY DEF Ordered
  <2>1. GetsBefore(u, a, b) /\ pulls[u] <= pulls'[u] /\ texts' = texts
    BY DEF Thins
  <2>2. pulls[u] \in Nat /\ pulls'[u] \in Nat
    BY DEF IInv, TypeOK
  <2> QED
    BY <2>1, <2>2 DEF IInv, Ordered
<1> QED
  BY <1>2, <1>3, <1>4, <1>5

\* The page leaves its connection, keeping or forgetting what it has.
LEMMA DisconnectEffect ==
  ASSUME IInv, NEW u \in Users, Disconnect(u),
         \A v \in Users : cache'[v] = cache[v] \/ (v = u /\ cache'[v] = <<>>)
  PROVE  /\ sock[u] \in Conns
         /\ sock' \in [Users -> Conns \cup {None}] /\ sock'[u] = None
         /\ \A v \in Users : v # u => sock'[v] = sock[v] /\ Arriving(v)' = Arriving(v)
         /\ toClient' \in [Conns -> Seq(Push)]
         /\ toClient'[sock[u]] = <<>>
         /\ \A c \in Conns : c # sock[u] => toClient'[c] = toClient[c]
         /\ orphans' \in SUBSET orphans
         /\ \A v \in Users : \A m : Holds(Arriving(v)', m) => Holds(Arriving(v), m)
         /\ \A v \in Users : \A m : Holds(cache'[v], m) => Holds(cache[v], m)
         /\ \A v \in Users : \A m : Gets(v, m)' => Gets(v, m)
         /\ \A v \in Users : \A a, b : GetsBefore(v, a, b)' => GetsBefore(v, a, b)
         /\ \A a, b : cache'[u] = <<>> => ~GetsBefore(u, a, b)'
<1>1. /\ sock[u] \in Conns
      /\ sock' \in [Users -> Conns \cup {None}] /\ sock'[u] = None
      /\ \A v \in Users : v # u => sock'[v] = sock[v]
      /\ toClient' \in [Conns -> Seq(Push)]
      /\ toClient'[sock[u]] = <<>>
      /\ \A c \in Conns : c # sock[u] => toClient'[c] = toClient[c]
      /\ orphans' \in SUBSET orphans
  BY EmptySeq DEF IInv, TypeOK, Disconnect
<1>2. \A v \in Users : v # u => sock[v] # sock[u]
  BY <1>1 DEF IInv, Owned, Uses
<1>3. \A v \in Users : v # u => Arriving(v)' = Arriving(v)
  BY <1>1, <1>2 DEF Arriving, IInv, TypeOK
<1>4. Arriving(u)' = <<>>
  BY <1>1 DEF Arriving
<1>5. \A m : ~Holds(<<>>, m) /\ \A a, b : ~Precedes(<<>>, a, b)
  BY QueueEmpty
<1>6. ASSUME NEW v \in Users, NEW m
      PROVE  /\ Holds(Arriving(v)', m) => Holds(Arriving(v), m)
             /\ Holds(cache'[v], m) => Holds(cache[v], m)
             /\ Gets(v, m)' => Gets(v, m)
  BY <1>3, <1>4, <1>5 DEF Gets
<1>7. ASSUME NEW v \in Users, NEW a, NEW b, GetsBefore(v, a, b)'
      PROVE  GetsBefore(v, a, b)
  BY <1>3, <1>4, <1>5, <1>7 DEF GetsBefore
<1>8. ASSUME NEW a, NEW b, cache'[u] = <<>>
      PROVE  ~GetsBefore(u, a, b)'
  BY <1>4, <1>5, <1>8 DEF GetsBefore
<1> QED
  BY <1>1, <1>3, <1>6, <1>7, <1>8

\* The page takes the next message h of its connection, and keeps it or not.
Takes(u, h, kept) ==
  /\ h \in Push /\ Holds(Arriving(u), h)
  /\ toClient' \in [Conns -> Seq(Push)] /\ cache' \in [Users -> Seq(Copy)]
  /\ \A c \in Conns : toClient[c] = <<>> => toClient'[c] = <<>>
  /\ \A v \in Users : v # u => Arriving(v)' = Arriving(v) /\ cache'[v] = cache[v]
  /\ \A m : Holds(Arriving(u), m) <=> m = h \/ Holds(Arriving(u)', m)
  /\ \A m : Holds(cache'[u], m) <=> Holds(cache[u], m) \/ (kept /\ m = h)
  /\ \A v \in Users : \A m : Gets(v, m)' => Gets(v, m)
  /\ \A v \in Users : \A m : Gets(v, m) => Gets(v, m)' \/ (v = u /\ m = h /\ ~kept)
  /\ \A v \in Users : \A a, b : GetsBefore(v, a, b)' => GetsBefore(v, a, b)

\* That is what onmessage does, the message being a text or the answer to LOGIN.
LEMMA TakeEffect ==
  ASSUME IInv, NEW u \in Users, sock[u] # None, toClient[sock[u]] # <<>>,
         toClient' = [toClient EXCEPT ![sock[u]] = Tail(@)], UNCHANGED sock,
         NEW kept \in BOOLEAN, kept => Head(toClient[sock[u]]) # Welcome,
         cache' = IF kept THEN [cache EXCEPT ![u] = Append(@, Head(toClient[sock[u]]))]
                          ELSE cache
  PROVE  Takes(u, Head(toClient[sock[u]]), kept)
<1> DEFINE h == Head(toClient[sock[u]])
           q == toClient[sock[u]]
<1>1. /\ sock[u] \in Conns /\ q \in Seq(Push) /\ cache[u] \in Seq(Copy)
      /\ Arriving(u) = q
  BY DEF IInv, TypeOK, Arriving
<1>2. /\ h \in Push /\ Tail(q) \in Seq(Push)
      /\ \A m : Holds(q, m) <=> m = h \/ Holds(Tail(q), m)
      /\ \A a, b : Precedes(q, a, b) <=> Precedes(Tail(q), a, b) \/ (a = h /\ Holds(Tail(q), b))
  BY <1>1, QueueTail
<1>3. /\ toClient' \in [Conns -> Seq(Push)]
      /\ Arriving(u)' = Tail(q)
      /\ \A c \in Conns : c # sock[u] => toClient'[c] = toClient[c]
  BY <1>1, <1>2 DEF IInv, TypeOK, Arriving
<1>4. \A v \in Users : v # u => sock[v] # sock[u]
  BY <1>1 DEF IInv, Owned, Uses
<1>5. \A v \in Users : v # u => Arriving(v)' = Arriving(v)
  BY <1>3, <1>4 DEF Arriving, IInv, TypeOK
<1>6. /\ cache' \in [Users -> Seq(Copy)]
      /\ \A v \in Users : v # u => cache'[v] = cache[v]
      /\ \A m : Holds(cache'[u], m) <=> Holds(cache[u], m) \/ (kept /\ m = h)
      /\ \A a, b : Precedes(cache'[u], a, b) <=>
           Precedes(cache[u], a, b) \/ (kept /\ Holds(cache[u], a) /\ b = h)
  <2>1. CASE ~kept
    BY <2>1 DEF IInv, TypeOK
  <2>2. CASE kept
    <3>1. h \in Copy
      BY <1>2, <2>2 DEF Push
    <3>2. /\ Append(cache[u], h) \in Seq(Copy)
          /\ \A a : Holds(Append(cache[u], h), a) <=> Holds(cache[u], a) \/ a = h
          /\ \A a, b : Precedes(Append(cache[u], h), a, b) <=>
               Precedes(cache[u], a, b) \/ (Holds(cache[u], a) /\ b = h)
      BY <1>1, <3>1, QueueAppend
    <3>3. cache'[u] = Append(cache[u], h)
      BY <2>2 DEF IInv, TypeOK
    <3> QED
      BY <2>2, <3>2, <3>3 DEF IInv, TypeOK
  <2> QED
    BY <2>1, <2>2
<1>7. ASSUME NEW v \in Users, NEW m
      PROVE  /\ Gets(v, m)' => Gets(v, m)
             /\ Gets(v, m) => Gets(v, m)' \/ (v = u /\ m = h /\ ~kept)
  <2>1. CASE v # u
    BY <1>5, <1>6, <2>1 DEF Gets
  <2>2. CASE v = u
    <3>1. Holds(Arriving(u), m) <=> m = h \/ Holds(Arriving(u)', m)
      BY <1>1, <1>2, <1>3
    <3>2. CASE ~kept
      BY <2>2, <3>1, <3>2 DEF Gets
    <3>3. CASE kept
      <4>1. Holds(cache'[u], m) <=> Holds(cache[u], m) \/ m = h
        BY <1>6, <3>3
      <4> QED
        BY <2>2, <3>1, <4>1 DEF Gets
    <3> QED
      BY <3>2, <3>3
  <2> QED
    BY <2>1, <2>2
<1>8. ASSUME NEW v \in Users, NEW a, NEW b, GetsBefore(v, a, b)'
      PROVE  GetsBefore(v, a, b)
  <2>1. CASE v # u
    BY <1>5, <1>6, <1>8, <2>1 DEF GetsBefore
  <2>2. CASE v = u
    <3>1. /\ \A m : Holds(Arriving(u), m) <=> m = h \/ Holds(Arriving(u)', m)
          /\ Precedes(Arriving(u), a, b) <=>
               Precedes(Arriving(u)', a, b) \/ (a = h /\ Holds(Arriving(u)', b))
          /\ \A m : Holds(cache'[u], m) <=> Holds(cache[u], m) \/ (kept /\ m = h)
          /\ Precedes(cache'[u], a, b) <=>
               Precedes(cache[u], a, b) \/ (kept /\ Holds(cache[u], a) /\ b = h)
      BY <1>1, <1>2, <1>3, <1>6
    <3> QED
      BY <1>8, <2>2, <3>1 DEF GetsBefore
  <2> QED
    BY <2>1, <2>2
<1>9. \A c \in Conns : toClient[c] = <<>> => toClient'[c] = <<>>
  BY <1>3
<1> QED
  BY <1>1, <1>2, <1>3, <1>5, <1>6, <1>7, <1>8, <1>9 DEF Takes

-----------------------------------------------------------------------------
(* The inductive invariant holds at first, and every step keeps it. *)

\* At first nobody is connected and nothing was sent.
LEMMA InitIInv == Init => IInv
<1> SUFFICES ASSUME Init PROVE IInv
  OBVIOUS
<1>1. \A a, b : ~Holds(<<>>, a) /\ ~Precedes(<<>>, a, b)
  BY QueueEmpty
<1>2. /\ \A c \in Conns : toServer[c] = <<>> /\ toClient[c] = <<>>
      /\ \A u \in Users : /\ cache[u] = <<>> /\ sock[u] = None /\ userSessions[u] = None
                          /\ pulls[u] = 0 /\ view[u] = "login"
      /\ rows = <<>> /\ texts = <<>> /\ used = {} /\ orphans = {}
  BY DEF Init
<1>3. Len(rows) = 0 /\ Len(texts) = 0
  BY <1>2, EmptySeq
<1>4. \A u \in Users : \A a, b : ~Gets(u, a) /\ ~GetsBefore(u, a, b) /\ Arriving(u) = <<>>
  BY <1>1, <1>2 DEF Gets, GetsBefore, Arriving
<1>5. TypeOK
  BY DEF Init, TypeOK
<1>6. Owned /\ Quiet
  BY <1>1, <1>2, NoneAssumption DEF Owned, Quiet, Uses
<1>7. Numbered /\ Pending /\ Handled
  <2>1. \A c \in Conns : \A n : ~Sent(c, n)
    BY <1>1, <1>2 DEF Sent
  <2>2. 1..Len(rows) = {} /\ 1..Len(texts) = {}
    BY <1>3
  <2>3. Numbered
    <3>1. \A u \in Users : \A m : ~Gets(u, m)
      BY <1>4
    <3>2. 0 <= MaxTexts
      BY MaxTextsAssumption
    <3> QED
      BY <1>3, <2>1, <2>2, <3>1, <3>2 DEF Numbered
  <2>4. Pending
    BY <1>1, <1>2, <2>1, <2>2 DEF Pending
  <2>5. Handled
    BY <1>4 DEF Handled
  <2> QED
    BY <2>3, <2>4, <2>5
<1>8. OwnTyped /\ OwnHere
  BY <1>1, <1>2, <1>4 DEF OwnTyped, OwnHere
<1>9. PullsAsked /\ PullFirst /\ Relogin
  BY <1>1, <1>2, <1>4 DEF PullsAsked, PullFirst, Relogin, Asked
<1>10. Ordered /\ Delivered
  BY <1>2, <1>3, <1>4 DEF Ordered, Delivered
<1> QED
  BY <1>5, <1>6, <1>7, <1>8, <1>9, <1>10 DEF IInv

\* A page connects: nothing waits on the new connection, in either direction.
LEMMA ConnectIInv ==
  ASSUME IInv, NEW u \in Users, NEW c \in Conns, Connect(u, c)
  PROVE  IInv'
<1> USE DEF IInv
<1>0. \A a, b : ~Holds(<<>>, a) /\ ~Precedes(<<>>, a, b)
  BY QueueEmpty
<1>1. /\ TypeOK'
      /\ sock[u] = None /\ c \notin used /\ c # None
      /\ sock'[u] = c
      /\ \A v \in Users : v # u => sock'[v] = sock[v]
      /\ used' = used \cup {c}
      /\ UNCHANGED <<userSessions, orphans, rows, toServer, toClient, view, cache, missed,
                     pulls, texts>>
  BY NoneAssumption DEF Connect, TypeOK
<1>2. /\ \A v \in Users : sock[v] # c /\ userSessions[v] # c /\ ~Uses(v, c)
      /\ toClient[c] = <<>> /\ c \notin orphans
      /\ \A r : ~Holds(toServer[c], r)
      /\ \A r, q : ~Precedes(toServer[c], r, q)
  <2>1. \A v \in Users : ~Uses(v, c)
    BY <1>1 DEF Owned
  <2>2. toServer[c] \in Seq(Request)
    BY DEF TypeOK
  <2>3. \A r : ~Holds(toServer[c], r)
    <3> SUFFICES ASSUME NEW r, Holds(toServer[c], r) PROVE FALSE
      OBVIOUS
    <3>1. r \in Request
      BY <2>2, QueueEmpty
    <3>2. r.user \in Users
      BY <3>1 DEF Request
    <3> QED
      BY <2>1, <3>1, <3>2 DEF Uses
  <2>4. \A r, q : Precedes(toServer[c], r, q) => Holds(toServer[c], r)
    BY <2>2, QueueEmpty
  <2> QED
    BY <1>1, <2>1, <2>3, <2>4 DEF Uses, Quiet, TypeOK
<1>3. \A v \in Users : Arriving(v)' = Arriving(v)
  BY <1>1, <1>2 DEF Arriving
<1>4. \A v \in Users : \A a, b :
        (Gets(v, a)' <=> Gets(v, a)) /\ (GetsBefore(v, a, b)' <=> GetsBefore(v, a, b))
  BY <1>1, <1>3 DEF Gets, GetsBefore
<1>5. Numbered' /\ Pending' /\ Handled' /\ Ordered'
  <2>1. \A v \in Users : pulls[v] <= pulls'[v]
    BY <1>1 DEF TypeOK
  <2>2. Thins
    BY <1>1, <1>4, <2>1 DEF Thins
  <2> QED
    BY <1>1, <2>2, ThinStep
<1>6. Owned'
  <2>1. \A v \in Users, d \in Conns : Uses(v, d)' => Uses(v, d) \/ (v = u /\ d = c)
    BY <1>1 DEF Uses
  <2> QED
    BY <1>1, <1>2, <2>1 DEF Owned
<1>7. Quiet'
  <2>1. ASSUME NEW d \in Conns, \A v \in Users : sock'[v] # d
        PROVE  toClient[d] = <<>>
    <3>1. \A v \in Users : sock[v] # d
      BY <1>1, <2>1, NoneAssumption
    <3> QED
      BY <3>1 DEF Quiet
  <2> QED
    BY <1>1, <1>2, <2>1 DEF Quiet, TypeOK
<1>8. OwnTyped'
  BY <1>1, <1>3 DEF OwnTyped
<1>9. \A v \in Users : \A type : Asked(v, type)' <=> Asked(v, type)
  BY <1>1, <1>2 DEF Asked
<1>10. OwnHere'
  <2>1. ~Asked(u, "LOGIN") /\ userSessions[u] # c
    BY <1>1, <1>2 DEF Asked
  <2> QED
    BY <1>1, <1>9, <2>1 DEF OwnHere
<1>11. PullsAsked'
  BY <1>1, <1>2, <1>4, <1>9 DEF PullsAsked
<1>12. PullFirst' /\ Relogin'
  BY <1>1, <1>2 DEF PullFirst, Relogin
<1>13. Delivered'
  BY <1>1, <1>2, <1>4, <1>9 DEF Delivered
<1> QED
  BY <1>1, <1>5, <1>6, <1>7, <1>8, <1>10, <1>11, <1>12, <1>13

\* A page asks to be logged in, when no such request of its waits.
LEMMA SubmitLoginIInv ==
  ASSUME IInv, NEW u \in Users, SubmitLogin(u)
  PROVE  IInv'
<1> USE DEF IInv
<1> DEFINE req == Asking(u, "LOGIN", 0)
<1>1. /\ sock[u] # None /\ view[u] = "login"
      /\ UNCHANGED <<userSessions, rows, toClient, connections, page, texts>>
      /\ UNCHANGED <<used, orphans, sock, view, cache, missed, pulls>>
      /\ Send(u, "LOGIN", 0)
      /\ \A i \in 1..Len(toServer[sock[u]]) : toServer[sock[u]][i].type # "LOGIN"
  BY DEF SubmitLogin, connections, page
<1>2. /\ req \in Request /\ req.type = "LOGIN" /\ req.user = u
      /\ toServer' \in [Conns -> Seq(Request)]
      /\ \A c \in Conns : c # sock[u] \/ c \in orphans => toServer'[c] = toServer[c]
      /\ \A c \in Conns : \A r : Holds(toServer'[c], r) <=>
           Holds(toServer[c], r) \/ (c = sock[u] /\ c \notin orphans /\ r = req)
      /\ \A c \in Conns : \A r, q : Precedes(toServer'[c], r, q) <=>
           \/ Precedes(toServer[c], r, q)
           \/ c = sock[u] /\ c \notin orphans /\ Holds(toServer[c], r) /\ q = req
  <2>1. req \in Request /\ req.type = "LOGIN" /\ req.user = u
    BY DEF Asking, Request
  <2>2. JoinsQueue(u, req)
    BY <1>1, <2>1, SendEffect
  <2> QED
    BY <2>1, <2>2 DEF JoinsQueue
<1>3. TypeOK'
  BY <1>1, <1>2 DEF TypeOK
<1>4. \A v \in Users : \A a, b :
        /\ Arriving(v)' = Arriving(v)
        /\ (Gets(v, a)' <=> Gets(v, a)) /\ (GetsBefore(v, a, b)' <=> GetsBefore(v, a, b))
  BY <1>1 DEF Gets, GetsBefore, Arriving
<1>5. /\ sock[u] \in Conns
      /\ \A v \in Users : v # u => sock[v] # sock[u]
      /\ \A v \in Users : sock[v] \in Conns \cup {None}
  BY <1>1 DEF Owned, Uses, TypeOK
<1>6. Numbered' /\ Pending' /\ Handled' /\ Ordered'
  <2>1. \A v \in Users : pulls[v] <= pulls'[v]
    BY <1>1 DEF TypeOK
  <2>2. Thins
    BY <1>1, <1>2, <1>4, <1>5, <2>1 DEF Thins
  <2> QED
    BY <1>3, <2>2, ThinStep
<1>7. Owned'
  <2>1. \A v \in Users, d \in Conns : Uses(v, d)' => Uses(v, d)
    BY <1>1, <1>2, <1>5 DEF Uses
  <2> QED
    BY <1>1, <2>1 DEF Owned
<1>8. Quiet'
  BY <1>1, <1>2 DEF Quiet, TypeOK
<1>9. OwnTyped'
  BY <1>1, <1>4 DEF OwnTyped
<1>10. \A v \in Users : \A type :
         Asked(v, type)' <=> Asked(v, type) \/ (v = u /\ type = "LOGIN" /\ sock[u] \notin orphans)
  BY <1>1, <1>2, <1>5 DEF Asked
<1>11. OwnHere'
  BY <1>1, <1>5, <1>10 DEF OwnHere, OwnTyped
<1>12. PullsAsked'
  <2>1. \A v \in Users : Asked(v, "PULL_MESSAGE")' <=> Asked(v, "PULL_MESSAGE")
    BY <1>10
  <2>2. ASSUME NEW v \in Users, sock[v] # None, NEW r \in Request, NEW q \in Request,
               q.type = "PULL_MESSAGE", Precedes(toServer'[sock[v]], r, q)
        PROVE  Precedes(toServer[sock[v]], r, q)
    BY <1>2, <1>5, <2>2
  <2> QED
    BY <1>1, <1>4, <2>1, <2>2 DEF PullsAsked
<1>13. PullFirst'
  BY <1>1, <1>2, <1>5 DEF PullFirst
<1>14. Relogin'
  <2>1. \A r \in Request : r.type = "LOGIN" => ~Holds(toServer[sock[u]], r)
    BY <1>1 DEF Holds
  <2> QED
    BY <1>1, <1>2, <1>5, <2>1 DEF Relogin
<1>15. Delivered'
  BY <1>1, <1>4, <1>10 DEF Delivered
<1> QED
  BY <1>3, <1>6, <1>7, <1>8, <1>9, <1>11, <1>12, <1>13, <1>14, <1>15

\* The user sends a text: its own copy goes into the cache, before what is on its
\* way, and the text waits behind what the page sent before.
LEMMA SendTextIInv ==
  ASSUME IInv, NEW u \in Users, NEW to \in (Users \ {u}) \cup {Everyone}, SendText(u, to)
  PROVE  IInv'
<1> USE DEF IInv
<1> DEFINE n == Len(texts) + 1
           req == Asking(u, "TEXT", n)
           own == [kind |-> "own", n |-> n]
<1>1. /\ view[u] = "chat" /\ Len(texts) \in Nat /\ n <= MaxTexts /\ n \in Numbers
      /\ texts' = Append(texts, [from |-> u, to |-> to, conn |-> sock[u]])
      /\ cache' = [cache EXCEPT ![u] = Append(@, own)]
      /\ Send(u, "TEXT", n)
      /\ UNCHANGED <<userSessions, rows, toClient, used, orphans, sock, view, missed, pulls>>
  <2>1. Len(texts) \in Nat
    BY LenProperties DEF TypeOK
  <2> QED
    BY <2>1, MaxTextsAssumption DEF SendText, connections, Numbers
<1>2. /\ req \in Request /\ req.type = "TEXT" /\ req.user = u /\ req.n = n
      /\ toServer' \in [Conns -> Seq(Request)]
      /\ \A c \in Conns : c # sock[u] \/ c \in orphans => toServer'[c] = toServer[c]
      /\ \A c \in Conns : \A r : Holds(toServer'[c], r) <=>
           Holds(toServer[c], r) \/ (c = sock[u] /\ c \notin orphans /\ r = req)
      /\ \A c \in Conns : \A r, q : Precedes(toServer'[c], r, q) <=>
           \/ Precedes(toServer[c], r, q)
           \/ c = sock[u] /\ c \notin orphans /\ Holds(toServer[c], r) /\ q = req
  <2>1. /\ req \in Request /\ req.type = "TEXT" /\ req.user = u /\ req.n = n
    BY <1>1 DEF Asking, Request
  <2>2. JoinsQueue(u, req)
    BY <1>1, <2>1, SendEffect
  <2> QED
    BY <2>1, <2>2 DEF JoinsQueue
<1>3. /\ own.kind = "own" /\ own.n = n /\ own \in Copy
      /\ \A v \in Users : sock[v] \in Conns \cup {None}
      /\ \A v \in Users : v # u /\ sock[v] # None => sock[v] # sock[u]
  BY <1>1 DEF Owned, Uses, TypeOK, Copy
<1>4. /\ texts' \in Seq([from : Users, to : Users \cup {Everyone}, conn : Conns \cup {None}])
      /\ Len(texts') = n
      /\ \A i \in 1..Len(texts) : texts'[i] = texts[i]
      /\ texts'[n] = [from |-> u, to |-> to, conn |-> sock[u]]
  <2> DEFINE T == [from : Users, to : Users \cup {Everyone}, conn : Conns \cup {None}]
             t == [from |-> u, to |-> to, conn |-> sock[u]]
  <2>1. t \in T /\ texts \in Seq(T)
    BY <1>3 DEF TypeOK
  <2> HIDE DEF T, t
  <2>2. /\ Append(texts, t) \in Seq(T)
        /\ Len(Append(texts, t)) = Len(texts) + 1
        /\ \A i \in 1..Len(texts) : Append(texts, t)[i] = texts[i]
        /\ Append(texts, t)[Len(texts) + 1] = t
    BY <2>1, AppendProperties
  <2> QED
    BY <1>1, <2>2 DEF T, t
<1>5. /\ cache' \in [Users -> Seq(Copy)]
      /\ \A v \in Users : v # u => cache'[v] = cache[v]
      /\ \A a : Holds(cache'[u], a) <=> Holds(cache[u], a) \/ a = own
      /\ \A a, b : Precedes(cache'[u], a, b) <=>
                     Precedes(cache[u], a, b) \/ (Holds(cache[u], a) /\ b = own)
  <2>1. cache[u] \in Seq(Copy) /\ cache'[u] = Append(cache[u], own)
    BY <1>1 DEF TypeOK
  <2>2. /\ Append(cache[u], own) \in Seq(Copy)
        /\ \A a : Holds(Append(cache[u], own), a) <=> Holds(cache[u], a) \/ a = own
        /\ \A a, b : Precedes(Append(cache[u], own), a, b) <=>
                       Precedes(cache[u], a, b) \/ (Holds(cache[u], a) /\ b = own)
    BY <1>3, <2>1, QueueAppend
  <2> QED
    BY <1>1, <2>1, <2>2 DEF TypeOK
<1>6. \A v \in Users : Arriving(v)' = Arriving(v)
  BY <1>1 DEF Arriving
<1>7. ASSUME NEW v \in Users, NEW a
      PROVE  Gets(v, a)' <=> Gets(v, a) \/ (v = u /\ a = own)
  BY <1>5, <1>6 DEF Gets
<1>8. ASSUME NEW v \in Users, NEW a, NEW b, GetsBefore(v, a, b)'
      PROVE  \/ GetsBefore(v, a, b)
             \/ v = u /\ Gets(u, a) /\ b = own
             \/ v = u /\ a = own /\ Gets(u, b)
  <2>1. CASE v # u
    BY <1>5, <1>6, <1>8, <2>1 DEF GetsBefore
  <2>2. CASE v = u
    BY <1>5, <1>6, <1>8, <2>2 DEF Gets, GetsBefore
  <2> QED
    BY <2>1, <2>2
<1>9. TypeOK'
  BY <1>1, <1>2, <1>4, <1>5 DEF TypeOK
<1>10. /\ \A v \in Users, m \in Copy : Gets(v, m) => m.n \in 1..Len(texts) /\ m.n < n
       /\ \A c \in Conns, k \in Nat : Sent(c, k) => k \in 1..Len(texts) /\ k < n
       /\ \A i \in 1..Len(rows) : rows[i] \in 1..Len(texts) /\ rows[i] < n
  BY <1>1 DEF Numbered
<1>11. \A c \in Conns, k \in Nat : Sent(c, k)' => Sent(c, k) \/ (c = sock[u] /\ k = n)
  BY <1>2, <1>3 DEF Sent
<1>12. Numbered'
  <2>1. \A i \in 1..Len(texts) : i \in 1..Len(texts')
    BY <1>1, <1>4
  <2>2. n \in 1..Len(texts') /\ Len(texts') <= MaxTexts
    BY <1>1, <1>4
  <2>3. \A i \in 1..Len(texts') : texts'[i].to # texts'[i].from
    <3> SUFFICES ASSUME NEW i \in 1..Len(texts') PROVE texts'[i].to # texts'[i].from
      OBVIOUS
    <3>1. CASE i \in 1..Len(texts)
      BY <1>4, <3>1 DEF Numbered
    <3>2. CASE i = n
      BY <1>4, <3>2, EveryoneAssumption
    <3> QED
      BY <1>1, <1>4, <3>1, <3>2
  <2>4. \A i \in 1..Len(rows') : rows'[i] \in 1..Len(texts')
    BY <1>1, <1>10, <2>1
  <2>5. \A c \in Conns, k \in Nat : Sent(c, k)' => k \in 1..Len(texts')
    BY <1>10, <1>11, <2>1, <2>2
  <2>6. \A v \in Users, m \in Copy : Gets(v, m)' => m.n \in 1..Len(texts')
    BY <1>3, <1>7, <1>10, <2>1, <2>2
  <2> QED
    BY <2>2, <2>3, <2>4, <2>5, <2>6 DEF Numbered
<1>13. Pending'
  <2>1. ASSUME NEW c \in Conns, NEW k \in Nat, Sent(c, k)'
        PROVE  texts'[k].conn = c /\ \A i \in 1..Len(rows) : rows[i] # k
    <3>1. CASE Sent(c, k)
      BY <1>4, <1>10, <3>1 DEF Pending
    <3>2. CASE c = sock[u] /\ k = n
      BY <1>1, <1>4, <1>10, <3>2
    <3> QED
      BY <1>11, <2>1, <3>1, <3>2
  <2>2. ASSUME NEW c \in Conns, NEW r \in Request, NEW q \in Request,
               r.type = "TEXT", q.type = "TEXT", Precedes(toServer'[c], r, q)
        PROVE  r.n < q.n
    <3>1. CASE Precedes(toServer[c], r, q)
      BY <2>2, <3>1 DEF Pending
    <3>2. CASE Holds(toServer[c], r) /\ q = req
      <4>1. r.n \in Nat
        BY DEF Request, Numbers
      <4> QED
        BY <1>2, <1>10, <2>2, <3>2, <4>1 DEF Sent
    <3> QED
      BY <1>2, <2>2, <3>1, <3>2
  <2> QED
    BY <1>1, <2>1, <2>2 DEF Pending
<1>14. Handled'
  <2> SUFFICES ASSUME NEW v \in Users, NEW m \in Copy, m.kind = "live", Gets(v, m)'
               PROVE  /\ texts'[m.n].conn \in Conns
                      /\ \A k \in Nat : Sent(texts[m.n].conn, k)' => m.n < k
    BY DEF Handled
  <2>1. Gets(v, m) /\ texts'[m.n] = texts[m.n] /\ m.n < n
    BY <1>3, <1>4, <1>7, <1>10
  <2>2. /\ texts[m.n].conn \in Conns
        /\ \A k \in Nat : Sent(texts[m.n].conn, k) => m.n < k
    BY <2>1 DEF Handled
  <2>3. ASSUME NEW k \in Nat, Sent(texts[m.n].conn, k)'
        PROVE  m.n < k
    <3>1. PICK r \in Request :
            r.type = "TEXT" /\ r.n = k /\ Holds(toServer'[texts[m.n].conn], r)
      BY <2>1, <2>3 DEF Sent
    <3>2. CASE Holds(toServer[texts[m.n].conn], r)
      BY <2>2, <3>1, <3>2 DEF Sent
    <3>3. CASE r = req
      BY <1>2, <2>1, <3>1, <3>3
    <3> QED
      BY <1>2, <2>2, <3>1, <3>2, <3>3
  <2> QED
    BY <2>1, <2>2, <2>3
<1>15. Owned'
  <2>1. \A v \in Users, d \in Conns : Uses(v, d)' => Uses(v, d)
    BY <1>1, <1>2, <1>3 DEF Uses
  <2> QED
    BY <1>1, <2>1 DEF Owned
<1>16. Quiet'
  BY <1>1, <1>2 DEF Quiet, TypeOK
<1>17. OwnTyped'
  <2> SUFFICES ASSUME NEW v \in Users, NEW m \in Copy, m.kind = "own"
               PROVE  /\ ~Holds(Arriving(v)', m)
                      /\ Holds(cache'[v], m) => texts'[m.n].from = v /\ view'[v] = "chat"
    BY DEF OwnTyped
  <2>1. ~Holds(Arriving(v)', m)
    BY <1>6 DEF OwnTyped
  <2>2. CASE Holds(cache[v], m)
    <3>1. Gets(v, m)
      BY <2>2 DEF Gets
    <3> QED
      BY <1>1, <1>4, <1>10, <2>1, <2>2, <3>1 DEF OwnTyped
  <2>3. CASE v = u /\ m = own
    BY <1>1, <1>3, <1>4, <2>1, <2>3
  <2> QED
    BY <1>5, <2>1, <2>2, <2>3
<1>18. ASSUME NEW v \in Users, NEW type \in {"LOGIN", "PULL_MESSAGE"}
       PROVE  Asked(v, type)' <=> Asked(v, type)
  BY <1>1, <1>2, <1>3 DEF Asked
<1>19. OwnHere'
  <2> SUFFICES ASSUME NEW v \in Users, NEW m \in Copy, m.kind = "own", Holds(cache'[v], m),
                      sock[v] # None, userSessions[v] = sock[v] \/ Asked(v, "LOGIN")
               PROVE  texts'[m.n].conn = sock[v]
    BY <1>1, <1>18 DEF OwnHere
  <2>1. CASE Holds(cache[v], m)
    <3>1. Gets(v, m)
      BY <2>1 DEF Gets
    <3> QED
      BY <1>4, <1>10, <2>1, <3>1 DEF OwnHere
  <2>2. CASE v = u /\ m = own
    BY <1>3, <1>4, <2>2
  <2> QED
    BY <1>5, <2>1, <2>2
<1>20. PullsAsked'
  <2>1. ASSUME NEW v \in Users, NEW m \in Copy, m.kind = "pulled"
        PROVE  Gets(v, m)' <=> Gets(v, m)
    BY <1>3, <1>7, <2>1
  <2>2. ASSUME NEW v \in Users, sock[v] # None, NEW r \in Request, NEW q \in Request,
               q.type = "PULL_MESSAGE", Precedes(toServer'[sock[v]], r, q)
        PROVE  Precedes(toServer[sock[v]], r, q)
    BY <1>2, <1>3, <2>2
  <2> QED
    BY <1>1, <1>18, <2>1, <2>2 DEF PullsAsked
<1>21. PullFirst'
  <2> SUFFICES ASSUME NEW v \in Users, NEW m \in Copy, NEW r \in Request,
                      m.kind = "own", Holds(cache'[v], m), sock[v] # None, pulls[v] <= 1,
                      r.type = "PULL_MESSAGE", Holds(toServer'[sock[v]], r)
               PROVE  \E q \in Request :
                        q.type = "TEXT" /\ q.n = m.n /\ Precedes(toServer'[sock[v]], r, q)
    BY <1>1 DEF PullFirst
  <2>1. Holds(toServer[sock[v]], r) /\ sock[v] \in Conns
    BY <1>2, <1>3
  <2>2. CASE Holds(cache[v], m)
    <3>1. PICK q \in Request :
            q.type = "TEXT" /\ q.n = m.n /\ Precedes(toServer[sock[v]], r, q)
      BY <2>1, <2>2 DEF PullFirst
    <3> QED
      BY <1>2, <2>1, <3>1
  <2>3. CASE v = u /\ m = own
    <3>1. sock[u] \notin orphans
      BY <2>1, <2>3, QueueEmpty DEF Quiet
    <3>2. Precedes(toServer'[sock[u]], r, req)
      BY <1>2, <2>1, <2>3, <3>1
    <3> QED
      BY <1>2, <1>3, <2>3, <3>2
  <2> QED
    BY <1>5, <2>2, <2>3
<1>22. Relogin'
  BY <1>1, <1>2, <1>3 DEF Relogin
<1>23. Ordered'
  <2> SUFFICES ASSUME NEW v \in Users, NEW a \in Copy, NEW b \in Copy, GetsBefore(v, a, b)'
               PROVE  /\ /\ a.kind = "live" /\ b.kind = "live"
                         /\ texts'[a.n].conn = texts'[b.n].conn
                         => a.n < b.n
                      /\ pulls[v] <= 1 =>
                           a # b /\ ("own" \in {a.kind, b.kind} => a.n # b.n)
    BY <1>1 DEF Ordered
  <2>1. CASE GetsBefore(v, a, b)
    <3>1. Gets(v, a) /\ Gets(v, b)
      BY <2>1, ArrivingType, QueueEmpty DEF GetsBefore, Gets
    <3> QED
      BY <1>4, <1>10, <2>1, <3>1 DEF Ordered
  <2>2. CASE Gets(u, a) /\ b = own
    BY <1>3, <1>10, <2>2
  <2>3. CASE a = own /\ Gets(u, b)
    BY <1>3, <1>10, <2>3
  <2> QED
    BY <1>8, <2>1, <2>2, <2>3
<1>24. Delivered'
  BY <1>1, <1>4, <1>7, <1>10, <1>18 DEF Delivered
<1> QED
  BY <1>9, <1>12, <1>13, <1>14, <1>15, <1>16, <1>17, <1>19, <1>20, <1>21, <1>22, <1>23, <1>24

\* A page leaves its connection, whatever it still sends there but a text.
LEMMA LeavingIInv ==
  ASSUME IInv, NEW u \in Users, Disconnect(u), NEW req,
         req.user = u, req.type = "LOGOUT",
         toServer' \in [Conns -> Seq(Request)],
         \A c \in Conns : c # sock[u] \/ c \in orphans => toServer'[c] = toServer[c],
         \A r : Holds(toServer'[sock[u]], r) => Holds(toServer[sock[u]], r) \/ r = req,
         \A r, q : Precedes(toServer'[sock[u]], r, q) =>
                     Precedes(toServer[sock[u]], r, q) \/ q = req,
         \/ UNCHANGED <<view, cache, missed, pulls>>
         \/ /\ view' = [view EXCEPT ![u] = "login"]
            /\ cache' = [cache EXCEPT ![u] = <<>>]
            /\ missed' = [missed EXCEPT ![u] = {}]
            /\ pulls' = [pulls EXCEPT ![u] = 0],
         UNCHANGED <<userSessions, rows, used, texts>>
  PROVE  IInv'
<1> USE DEF IInv
<1>1. /\ cache' \in [Users -> Seq(Copy)] /\ view' \in [Users -> {"login", "chat"}]
      /\ missed' \in [Users -> SUBSET Numbers] /\ pulls' \in [Users -> Nat]
      /\ \A v \in Users : v # u => /\ cache'[v] = cache[v] /\ view'[v] = view[v]
                                   /\ missed'[v] = missed[v] /\ pulls'[v] = pulls[v]
      /\ \/ cache'[u] = cache[u] /\ view'[u] = view[u] /\ pulls'[u] = pulls[u]
         \/ cache'[u] = <<>> /\ view'[u] = "login" /\ pulls'[u] = 0
  <2>1. CASE UNCHANGED <<view, cache, missed, pulls>>
    BY <2>1 DEF TypeOK
  <2>2. CASE /\ view' = [view EXCEPT ![u] = "login"]
             /\ cache' = [cache EXCEPT ![u] = <<>>]
             /\ missed' = [missed EXCEPT ![u] = {}]
             /\ pulls' = [pulls EXCEPT ![u] = 0]
    <3>1. cache' \in [Users -> Seq(Copy)] /\ cache'[u] = <<>>
      BY <2>2, EmptySeq DEF TypeOK
    <3>2. view' \in [Users -> {"login", "chat"}] /\ view'[u] = "login"
      BY <2>2 DEF TypeOK
    <3>3. missed' \in [Users -> SUBSET Numbers]
      BY <2>2 DEF TypeOK
    <3>4. pulls' \in [Users -> Nat] /\ pulls'[u] = 0
      BY <2>2 DEF TypeOK
    <3> QED
      BY <2>2, <3>1, <3>2, <3>3, <3>4 DEF TypeOK
  <2> QED
    BY <2>1, <2>2
<1>2. /\ sock[u] \in Conns
      /\ sock' \in [Users -> Conns \cup {None}] /\ sock'[u] = None
      /\ \A v \in Users : v # u => sock'[v] = sock[v] /\ Arriving(v)' = Arriving(v)
      /\ toClient' \in [Conns -> Seq(Push)]
      /\ toClient'[sock[u]] = <<>>
      /\ \A c \in Conns : c # sock[u] => toClient'[c] = toClient[c]
      /\ orphans' \in SUBSET orphans
      /\ \A v \in Users : \A m : Holds(Arriving(v)', m) => Holds(Arriving(v), m)
      /\ \A v \in Users : \A m : Holds(cache'[v], m) => Holds(cache[v], m)
      /\ \A v \in Users : \A m : Gets(v, m)' => Gets(v, m)
      /\ \A v \in Users : \A a, b : GetsBefore(v, a, b)' => GetsBefore(v, a, b)
      /\ \A a, b : cache'[u] = <<>> => ~GetsBefore(u, a, b)'
  <2>1. \A v \in Users : cache'[v] = cache[v] \/ (v = u /\ cache'[v] = <<>>)
    BY <1>1
  <2> QED
    BY <2>1, DisconnectEffect
<1>3. TypeOK'
  BY <1>1, <1>2 DEF TypeOK
<1>4. /\ \A v \in Users : v # u => sock[v] # sock[u]
      /\ \A v \in Users : v # u /\ sock[v] # None =>
           sock[v] \in Conns /\ toServer'[sock[v]] = toServer[sock[v]]
  BY <1>2 DEF Owned, Uses, TypeOK
<1>5. /\ \A c \in Conns, r \in Request :
           r.type # "LOGOUT" /\ Holds(toServer'[c], r) => Holds(toServer[c], r)
      /\ \A c \in Conns, r, q \in Request :
           q.type # "LOGOUT" /\ Precedes(toServer'[c], r, q) => Precedes(toServer[c], r, q)
  OBVIOUS
<1>6. Numbered' /\ Pending' /\ Handled' /\ Ordered'
  <2>1. ASSUME NEW v \in Users, NEW a \in Copy, NEW b \in Copy, GetsBefore(v, a, b)'
        PROVE  GetsBefore(v, a, b) /\ pulls[v] <= pulls'[v]
    <3>1. pulls[v] \in Nat
      BY DEF TypeOK
    <3>2. CASE v # u
      BY <1>1, <1>2, <2>1, <3>1, <3>2
    <3>3. CASE v = u
      BY <1>1, <1>2, <2>1, <3>1, <3>3
    <3> QED
      BY <3>2, <3>3
  <2>2. Thins
    BY <1>2, <1>5, <2>1 DEF Thins
  <2> QED
    BY <1>3, <2>2, ThinStep
<1>7. Owned'
  <2>1. ASSUME NEW v \in Users, NEW d \in Conns, Uses(v, d)'
        PROVE  Uses(v, d)
    <3>1. CASE sock'[v] = d
      BY <1>2, <3>1, NoneAssumption DEF Uses
    <3>2. CASE userSessions[v] = d
      BY <3>2 DEF Uses
    <3>3. CASE \E r \in Request : r.user = v /\ Holds(toServer'[d], r)
      <4>1. PICK r \in Request : r.user = v /\ Holds(toServer'[d], r)
        BY <3>3
      <4>2. Holds(toServer[d], r) \/ (d = sock[u] /\ r = req)
        BY <4>1
      <4> QED
        BY <4>1, <4>2 DEF Uses
    <3> QED
      BY <2>1, <3>1, <3>2, <3>3 DEF Uses
  <2> QED
    BY <2>1 DEF Owned
<1>8. Quiet'
  <2>1. ASSUME NEW d \in Conns, \A v \in Users : sock'[v] # d
        PROVE  toClient'[d] = <<>>
    <3>1. CASE d = sock[u]
      BY <1>2, <3>1
    <3>2. CASE d # sock[u]
      <4>1. \A v \in Users : sock[v] # d
        BY <1>2, <2>1, <3>2
      <4> QED
        BY <1>2, <3>2, <4>1 DEF Quiet
    <3> QED
      BY <3>1, <3>2
  <2>2. ASSUME NEW d \in orphans'
        PROVE  toServer'[d] = <<>> /\ \A v \in Users : userSessions[v] # d
    BY <1>2 DEF Quiet, TypeOK
  <2> QED
    BY <2>1, <2>2 DEF Quiet
<1>9. OwnTyped'
  <2>1. \A v \in Users : \A m : Holds(cache'[v], m) => view'[v] = view[v]
    BY <1>1, QueueEmpty
  <2> QED
    BY <1>2, <2>1 DEF OwnTyped
<1>10. ASSUME NEW v \in Users, NEW type
       PROVE  Asked(v, type)' <=> v # u /\ Asked(v, type)
  <2>1. CASE v = u
    BY <1>2, <2>1 DEF Asked
  <2>2. CASE v # u
    BY <1>2, <1>4, <2>2 DEF Asked
  <2> QED
    BY <2>1, <2>2
<1>16. \A v \in Users : sock'[v] # None =>
         /\ v # u /\ sock'[v] = sock[v] /\ toServer'[sock[v]] = toServer[sock[v]]
         /\ cache'[v] = cache[v] /\ view'[v] = view[v]
         /\ missed'[v] = missed[v] /\ pulls'[v] = pulls[v]
  BY <1>1, <1>2, <1>4
<1>11. OwnHere'
  BY <1>10, <1>16 DEF OwnHere
<1>12. PullsAsked'
  <2>1. ASSUME NEW v \in Users
        PROVE  /\ view'[v] = "chat" => pulls'[v] >= 1
               /\ pulls'[v] = 0 \/ (pulls'[v] = 1 /\ Asked(v, "PULL_MESSAGE")') =>
                    \A m \in Copy : m.kind = "pulled" => ~Gets(v, m)'
               /\ pulls'[v] = 0 => ~Asked(v, "PULL_MESSAGE")'
    <3>1. CASE v # u
      BY <1>1, <1>2, <1>10, <3>1 DEF PullsAsked
    <3>2. CASE v = u /\ cache'[u] = cache[u] /\ view'[u] = view[u] /\ pulls'[u] = pulls[u]
      BY <1>2, <1>10, <3>2 DEF PullsAsked
    <3>3. CASE v = u /\ cache'[u] = <<>> /\ view'[u] = "login" /\ pulls'[u] = 0
      <4>1. Arriving(u)' = <<>>
        BY <1>2 DEF Arriving
      <4>2. \A m : ~Gets(u, m)'
        BY <3>3, <4>1, QueueEmpty DEF Gets
      <4> QED
        BY <1>10, <3>3, <4>2
    <3> QED
      BY <1>1, <3>1, <3>2, <3>3
  <2>2. \A v \in Users, r, q \in Request :
          /\ pulls'[v] = 1 /\ sock'[v] # None
          /\ r.type = "PULL_MESSAGE" /\ q.type = "PULL_MESSAGE"
          => ~Precedes(toServer'[sock'[v]], r, q)
    BY <1>16 DEF PullsAsked
  <2> QED
    BY <2>1, <2>2 DEF PullsAsked
<1>13. PullFirst'
  BY <1>16 DEF PullFirst
<1>14. Relogin'
  BY <1>16 DEF Relogin
<1>15. Delivered'
  <2>1. ASSUME NEW v \in Users, v # u, NEW m
        PROVE  Gets(v, m)' <=> Gets(v, m)
    BY <1>1, <1>2, <2>1 DEF Gets
  <2> QED
    BY <1>10, <1>16, <2>1 DEF Delivered
<1> QED
  BY <1>3, <1>6, <1>7, <1>8, <1>9, <1>11, <1>12, <1>13, <1>14, <1>15

\* A page leaves its connection, with a LOGOUT if an id was typed.
LEMMA LeaveIInv ==
  ASSUME IInv, NEW u \in Users, NEW typed \in BOOLEAN, Leave(u, typed)
  PROVE  IInv'
<1> DEFINE req == Asking(u, "LOGOUT", 0)
<1>1. /\ Disconnect(u)
      /\ IF typed THEN Send(u, "LOGOUT", 0) ELSE UNCHANGED toServer
      /\ \/ UNCHANGED <<view, cache, missed, pulls>>
         \/ /\ view' = [view EXCEPT ![u] = "login"]
            /\ cache' = [cache EXCEPT ![u] = <<>>]
            /\ missed' = [missed EXCEPT ![u] = {}]
            /\ pulls' = [pulls EXCEPT ![u] = 0]
      /\ UNCHANGED <<userSessions, rows, used, texts>>
  BY DEF Leave
<1>2. /\ toServer' \in [Conns -> Seq(Request)]
      /\ \A c \in Conns : c # sock[u] \/ c \in orphans => toServer'[c] = toServer[c]
      /\ \A r : Holds(toServer'[sock[u]], r) => Holds(toServer[sock[u]], r) \/ r = req
      /\ \A r, q : Precedes(toServer'[sock[u]], r, q) =>
                     Precedes(toServer[sock[u]], r, q) \/ q = req
  <2>1. sock[u] \in Conns
    BY <1>1 DEF IInv, TypeOK, Disconnect
  <2>2. CASE typed
    <3>1. Send(u, "LOGOUT", 0) /\ req \in Request
      BY <1>1, <2>2 DEF Asking, Request
    <3>2. JoinsQueue(u, req)
      BY <3>1, SendEffect DEF IInv
    <3> QED
      BY <2>1, <3>2 DEF JoinsQueue
  <2>3. CASE ~typed
    BY <1>1, <2>1, <2>3 DEF IInv, TypeOK
  <2> QED
    BY <2>2, <2>3
<1>3. req.user = u /\ req.type = "LOGOUT"
  BY DEF Asking
<1> HIDE DEF req
<1> QED
  BY <1>1, <1>2, <1>3, LeavingIInv

\* A connection breaks; nothing is sent on it any more.
LEMMA DropIInv ==
  ASSUME IInv, NEW u \in Users, Drop(u)
  PROVE  IInv'
<1> DEFINE req == Asking(u, "LOGOUT", 0)
<1>1. /\ Disconnect(u)
      /\ UNCHANGED <<view, cache, missed, pulls>>
      /\ UNCHANGED <<userSessions, rows, used, texts>>
      /\ toServer' = toServer
  BY DEF Drop
<1>2. req.user = u /\ req.type = "LOGOUT" /\ toServer \in [Conns -> Seq(Request)]
  BY DEF IInv, TypeOK, Asking
<1> HIDE DEF req
<1> QED
  BY <1>1, <1>2, LeavingIInv

\* The page reads the next message: the answer to its LOGIN opens the chat and
\* makes it pull, a text goes into the cache, a torn one is missed.
LEMMA ReceiveIInv ==
  ASSUME IInv, NEW u \in Users, NEW torn \in BOOLEAN, Receive(u, torn)
  PROVE  IInv'
<1> USE DEF IInv
<1> DEFINE h == Head(toClient[sock[u]])
           req == Asking(u, "PULL_MESSAGE", 0)
           welcome == h = Welcome /\ ~torn
           kept == h # Welcome /\ ~torn
<1>1. /\ sock[u] # None /\ toClient[sock[u]] # <<>>
      /\ toClient' = [toClient EXCEPT ![sock[u]] = Tail(@)]
      /\ view' = IF welcome THEN [view EXCEPT ![u] = "chat"] ELSE view
      /\ pulls' = IF welcome THEN [pulls EXCEPT ![u] = @ + 1] ELSE pulls
      /\ IF welcome THEN Send(u, "PULL_MESSAGE", 0) ELSE UNCHANGED toServer
      /\ cache' = IF kept THEN [cache EXCEPT ![u] = Append(@, h)] ELSE cache
      /\ missed' = IF h # Welcome /\ torn THEN [missed EXCEPT ![u] = @ \cup {h.n}] ELSE missed
      /\ UNCHANGED <<userSessions, rows, used, orphans, sock, texts>>
  BY DEF Receive, connections, IsText
<1>2. /\ sock[u] \in Conns
      /\ \A v \in Users : sock[v] # None => sock[v] \in Conns
      /\ \A v \in Users : v # u => sock[v] # sock[u]
  BY <1>1 DEF Owned, Uses, TypeOK
<1>3. Takes(u, h, kept)
  BY <1>1, TakeEffect
<1>4. /\ h \in Push /\ (h # Welcome => h \in Copy /\ h.n \in Numbers)
      /\ \A m \in Copy : m # Welcome
  <2>1. \A m \in Copy : m.n \in Numbers /\ m # Welcome
    BY DEF Copy, Welcome, Numbers
  <2> QED
    BY <1>3, <2>1 DEF Takes, Push
<1>5. /\ toServer' \in [Conns -> Seq(Request)]
      /\ \A c \in Conns : c # sock[u] \/ c \in orphans => toServer'[c] = toServer[c]
      /\ ~welcome => toServer' = toServer
      /\ welcome => JoinsQueue(u, req)
      /\ req \in Request /\ req.type = "PULL_MESSAGE" /\ req.user = u
  <2>1. req \in Request /\ req.type = "PULL_MESSAGE" /\ req.user = u
    BY DEF Asking, Request
  <2>2. CASE welcome
    <3>1. JoinsQueue(u, req)
      BY <1>1, <2>1, <2>2, SendEffect
    <3> QED
      BY <2>1, <2>2, <3>1 DEF JoinsQueue
  <2>3. CASE ~welcome
    BY <1>1, <2>1, <2>3 DEF TypeOK
  <2> QED
    BY <2>2, <2>3
<1>6. /\ \A c \in Conns : \A r : Holds(toServer'[c], r) =>
           Holds(toServer[c], r) \/ (welcome /\ c = sock[u] /\ c \notin orphans /\ r = req)
      /\ \A c \in Conns : \A r, q : Precedes(toServer'[c], r, q) =>
           Precedes(toServer[c], r, q)
             \/ (welcome /\ c = sock[u] /\ Holds(toServer[c], r) /\ q = req)
  <2>1. CASE welcome
    BY <1>5, <2>1 DEF JoinsQueue
  <2>2. CASE ~welcome
    BY <1>5, <2>2
  <2> QED
    BY <2>1, <2>2
<1>7. /\ view' \in [Users -> {"login", "chat"}]
      /\ pulls' \in [Users -> Nat]
      /\ missed' \in [Users -> SUBSET Numbers]
      /\ \A v \in Users : v # u => /\ view'[v] = view[v] /\ pulls'[v] = pulls[v]
                                   /\ missed'[v] = missed[v]
      /\ IF welcome THEN view'[u] = "chat" /\ pulls'[u] = pulls[u] + 1
                    ELSE view'[u] = view[u] /\ pulls'[u] = pulls[u]
      /\ missed[u] \subseteq missed'[u]
      /\ h # Welcome /\ torn => h.n \in missed'[u]
  <2>1. view' \in [Users -> {"login", "chat"}] /\ pulls' \in [Users -> Nat]
    BY <1>1 DEF TypeOK
  <2>2. missed' \in [Users -> SUBSET Numbers]
    BY <1>1, <1>4 DEF TypeOK
  <2> QED
    BY <1>1, <2>1, <2>2 DEF TypeOK
<1>8. TypeOK'
  BY <1>1, <1>3, <1>5, <1>7 DEF TypeOK, Takes
<1> HIDE DEF h, req, welcome, kept
<1>9. Numbered' /\ Pending' /\ Handled' /\ Ordered'
  <2>1. \A v \in Users : pulls[v] <= pulls'[v]
    <3> SUFFICES ASSUME NEW v \in Users PROVE pulls[v] <= pulls'[v]
      OBVIOUS
    <3>1. pulls[v] \in Nat
      BY DEF TypeOK
    <3>2. pulls'[v] = pulls[v] \/ pulls'[v] = pulls[v] + 1
      BY <1>7
    <3> QED
      BY <3>1, <3>2
  <2>2. Thins
    BY <1>1, <1>3, <1>5, <1>6, <2>1 DEF Thins, Takes
  <2> QED
    BY <1>8, <2>2, ThinStep
<1>10. Owned'
  <2>1. \A v \in Users, d \in Conns : Uses(v, d)' => Uses(v, d)
    BY <1>1, <1>5, <1>6 DEF Uses
  <2> QED
    BY <1>1, <2>1 DEF Owned
<1>11. Quiet'
  BY <1>1, <1>3, <1>5 DEF Quiet, Takes, TypeOK
<1>12. \A v \in Users, m \in Copy : m.kind = "own" /\ Holds(cache'[v], m) => Holds(cache[v], m)
  BY <1>3 DEF Takes, OwnTyped
<1>13. OwnTyped'
  <2>1. \A v \in Users, m \in Copy : m.kind = "own" => ~Holds(Arriving(v)', m)
    BY <1>3 DEF Takes, OwnTyped
  <2>2. \A v \in Users : view[v] = "chat" => view'[v] = "chat"
    BY <1>7
  <2> QED
    BY <1>1, <1>12, <2>1, <2>2 DEF OwnTyped
<1>14. \A v \in Users : Asked(v, "LOGIN")' => Asked(v, "LOGIN")
  BY <1>1, <1>2, <1>5, <1>6 DEF Asked
<1>15. OwnHere'
  BY <1>1, <1>12, <1>14 DEF OwnHere
<1>16. ASSUME NEW v \in Users, v # u \/ ~welcome
       PROVE  /\ view'[v] = view[v] /\ pulls'[v] = pulls[v]
              /\ sock[v] # None => toServer'[sock[v]] = toServer[sock[v]]
  BY <1>2, <1>5, <1>7, <1>16
<1>17. welcome => /\ view'[u] = "chat" /\ pulls'[u] = pulls[u] + 1 /\ pulls[u] \in Nat
                  /\ pulls'[u] <= 1 => view[u] = "login" /\ pulls[u] = 0
  BY <1>7 DEF PullsAsked, TypeOK
<1>18. PullsAsked'
  <2>1. ASSUME NEW v \in Users
        PROVE  /\ view'[v] = "chat" => pulls'[v] >= 1
               /\ pulls'[v] = 0 \/ (pulls'[v] = 1 /\ Asked(v, "PULL_MESSAGE")') =>
                    \A m \in Copy : m.kind = "pulled" => ~Gets(v, m)'
               /\ pulls'[v] = 0 => ~Asked(v, "PULL_MESSAGE")'
    <3>1. \A m : Gets(v, m)' => Gets(v, m)
      BY <1>3 DEF Takes
    <3>2. CASE v # u \/ ~welcome
      <4>1. Asked(v, "PULL_MESSAGE")' <=> Asked(v, "PULL_MESSAGE")
        BY <1>1, <1>16, <3>2 DEF Asked
      <4> QED
        BY <1>16, <3>1, <3>2, <4>1 DEF PullsAsked
    <3>3. CASE v = u /\ welcome
      BY <1>17, <3>1, <3>3 DEF PullsAsked
    <3> QED
      BY <3>2, <3>3
  <2>2. ASSUME NEW v \in Users, NEW r \in Request, NEW q \in Request,
               pulls'[v] = 1, sock[v] # None, r.type = "PULL_MESSAGE", q.type = "PULL_MESSAGE",
               Precedes(toServer'[sock[v]], r, q)
        PROVE  FALSE
    <3>1. CASE v # u \/ ~welcome
      BY <1>16, <2>2, <3>1 DEF PullsAsked
    <3>2. CASE v = u /\ welcome
      <4>1. ~Holds(toServer[sock[u]], r)
        BY <1>17, <2>2, <3>2 DEF PullsAsked, Asked
      <4>2. ~Precedes(toServer[sock[u]], r, q)
        <5>1. toServer[sock[u]] \in Seq(Request)
          BY <1>2 DEF TypeOK
        <5> QED
          BY <4>1, <5>1, QueueEmpty
      <4> QED
        BY <1>2, <1>6, <2>2, <3>2, <4>1, <4>2
    <3> QED
      BY <3>1, <3>2
  <2> QED
    BY <1>1, <2>1, <2>2 DEF PullsAsked
<1>19. PullFirst'
  <2> SUFFICES ASSUME NEW v \in Users, NEW m \in Copy, NEW r \in Request,
                      m.kind = "own", Holds(cache'[v], m), sock[v] # None, pulls'[v] <= 1,
                      r.type = "PULL_MESSAGE", Holds(toServer'[sock[v]], r)
               PROVE  \E q \in Request :
                        q.type = "TEXT" /\ q.n = m.n /\ Precedes(toServer'[sock[v]], r, q)
    BY <1>1 DEF PullFirst
  <2>1. CASE v # u \/ ~welcome
    BY <1>12, <1>16, <2>1 DEF PullFirst
  <2>2. CASE v = u /\ welcome
    BY <1>12, <1>17, <2>2 DEF OwnTyped
  <2> QED
    BY <2>1, <2>2
<1>20. Relogin'
  <2> SUFFICES ASSUME NEW v \in Users, NEW r \in Request, sock[v] # None, r.type = "LOGIN"
               PROVE  /\ \A q \in Request : q.type = "LOGIN" => ~Precedes(toServer'[sock[v]], r, q)
                      /\ view'[v] = "chat" /\ Holds(toServer'[sock[v]], r) =>
                           \E q \in Request :
                             q.type = "PULL_MESSAGE" /\ Precedes(toServer'[sock[v]], r, q)
    BY <1>1 DEF Relogin
  <2>1. CASE v # u \/ ~welcome
    BY <1>16, <2>1 DEF Relogin
  <2>2. CASE v = u /\ welcome
    <3>1. \A q \in Request : q.type = "LOGIN" => ~Precedes(toServer'[sock[v]], r, q)
      BY <1>2, <1>5, <1>6, <2>2 DEF Relogin
    <3>2. ASSUME Holds(toServer'[sock[v]], r)
          PROVE  Precedes(toServer'[sock[v]], r, req)
      <4>1. Holds(toServer[sock[u]], r)
        BY <1>2, <1>5, <1>6, <2>2, <3>2
      <4>2. sock[u] \notin orphans
        <5>1. ~Holds(<<>>, r)
          BY QueueEmpty
        <5> QED
          BY <1>2, <4>1, <5>1 DEF Quiet
      <4> QED
        BY <1>2, <1>5, <2>2, <4>1, <4>2 DEF JoinsQueue
    <3> QED
      BY <1>5, <3>1, <3>2
  <2> QED
    BY <2>1, <2>2
<1>21. Delivered'
  <2> SUFFICES ASSUME NEW v \in Users, NEW i \in 1..Len(rows),
                      sock[v] # None, userSessions[v] = sock[v], view'[v] = "chat",
                      ~Asked(v, "PULL_MESSAGE")', texts[rows[i]].to = v
               PROVE  rows[i] \in missed'[v] \/ \E m \in Copy : m.n = rows[i] /\ Gets(v, m)'
    BY <1>1 DEF Delivered
  <2>1. CASE v # u \/ ~welcome
    <3>1. ~Asked(v, "PULL_MESSAGE") /\ view[v] = "chat"
      BY <1>1, <1>16, <2>1 DEF Asked
    <3>2. rows[i] \in missed[v] \/ \E m \in Copy : m.n = rows[i] /\ Gets(v, m)
      BY <3>1 DEF Delivered
    <3>3. ASSUME NEW m \in Copy, m.n = rows[i], Gets(v, m)
          PROVE  Gets(v, m)' \/ m.n \in missed'[v]
      <4>1. Gets(v, m)' \/ (v = u /\ m = h /\ ~kept)
        BY <1>3, <3>3 DEF Takes
      <4>2. m = h /\ ~kept => h # Welcome /\ torn
        BY <1>4 DEF kept
      <4> QED
        BY <1>7, <4>1, <4>2
    <3> QED
      BY <1>7, <3>2, <3>3
  <2>2. CASE v = u /\ welcome
    <3>1. sock[u] \notin orphans
      BY <1>2, <2>2 DEF Quiet
    <3>2. Holds(toServer'[sock[u]], req)
      BY <1>2, <1>5, <2>2, <3>1 DEF JoinsQueue
    <3> QED
      BY <1>1, <1>5, <2>2, <3>2 DEF Asked
  <2> QED
    BY <2>1, <2>2
<1> QED
  BY <1>8, <1>9, <1>10, <1>11, <1>13, <1>15, <1>18, <1>19, <1>20, <1>21

-----------------------------------------------------------------------------
(* The steps of the server. *)

\* What is true of any request read from c, as long as the page stays, a session
\* is bound only by a LOGIN, and a copy pulled only by a pull.
LEMMA ReadStep ==
  ASSUME IInv, NEW c \in Conns, ReadsHead(c),
         UNCHANGED <<used, orphans, sock, view, cache, pulls, texts>>,
         \A v \in Users :
           \/ userSessions'[v] = userSessions[v]
           \/ userSessions'[v] = None
           \/ /\ userSessions'[v] = c
              /\ Head(toServer[c]).type = "LOGIN" /\ Head(toServer[c]).user = v,
         \A v \in Users, m \in Copy :
           m.kind = "pulled" /\ Gets(v, m)' =>
             Gets(v, m) \/ (sock[v] = c /\ Head(toServer[c]).type = "PULL_MESSAGE")
  PROVE  /\ Owned' /\ OwnHere' /\ PullsAsked' /\ PullFirst' /\ Relogin'
         /\ \A d \in orphans : toServer'[d] = <<>> /\ \A v \in Users : userSessions'[v] # d
         /\ \A v \in Users : v # Head(toServer[c]).user => sock[v] # c
         /\ \A v \in Users : sock[v] # c \/ Head(toServer[c]).type # "PULL_MESSAGE" =>
              (Asked(v, "PULL_MESSAGE")' <=> Asked(v, "PULL_MESSAGE"))
<1> USE DEF IInv
<1> DEFINE h == Head(toServer[c])
<1>1. /\ h \in Request /\ h.user \in Users /\ toServer[c] # <<>>
      /\ Holds(toServer[c], h) /\ Uses(h.user, c)
      /\ \A d \in Conns : d # c => toServer'[d] = toServer[d]
      /\ \A d \in Conns : \A r : Holds(toServer'[d], r) => Holds(toServer[d], r)
      /\ \A d \in Conns : \A r, q : Precedes(toServer'[d], r, q) => Precedes(toServer[d], r, q)
  <2>1. h \in Request /\ h.user \in Users
    BY DEF ReadsHead, Request
  <2>2. Uses(h.user, c)
    BY <2>1 DEF ReadsHead, Uses
  <2> QED
    BY <2>1, <2>2 DEF ReadsHead
<1>2. /\ \A r : Holds(toServer[c], r) <=> r = h \/ Holds(toServer'[c], r)
      /\ \A r, q : Precedes(toServer[c], r, q) <=>
           Precedes(toServer'[c], r, q) \/ (r = h /\ Holds(toServer'[c], q))
  BY DEF ReadsHead
<1>3. /\ \A v \in Users : v # h.user => sock[v] # c
      /\ \A v \in Users : sock[v] # None => sock[v] \in Conns
      /\ c \notin orphans
  <2>1. \A v \in Users : v # h.user => sock[v] # c
    BY <1>1 DEF Owned, Uses
  <2> QED
    BY <1>1, <2>1 DEF Quiet, TypeOK
<1> HIDE DEF h
<1>4. Owned'
  <2>1. ASSUME NEW v \in Users, NEW d \in Conns, Uses(v, d)'
        PROVE  Uses(v, d)
    <3>1. CASE sock[v] = d \/ userSessions[v] = d
      BY <3>1 DEF Uses
    <3>2. CASE userSessions'[v] = d /\ userSessions'[v] # userSessions[v]
      <4>1. d = c /\ v = h.user
        BY <3>2, NoneAssumption DEF h
      <4> QED
        BY <1>1, <4>1
    <3>3. CASE \E r \in Request : r.user = v /\ Holds(toServer'[d], r)
      BY <1>1, <3>3 DEF Uses
    <3> QED
      BY <2>1, <3>1, <3>2, <3>3 DEF Uses
  <2> QED
    BY <2>1 DEF Owned
<1>5. \A v \in Users : \A type : Asked(v, type)' => Asked(v, type)
  BY <1>1, <1>3 DEF Asked
<1>6. OwnHere'
  <2> SUFFICES ASSUME NEW v \in Users, NEW m \in Copy, m.kind = "own", Holds(cache[v], m),
                      sock[v] # None, userSessions'[v] = sock[v] \/ Asked(v, "LOGIN")'
               PROVE  texts[m.n].conn = sock[v]
    BY DEF OwnHere
  <2>1. CASE userSessions[v] = sock[v] \/ Asked(v, "LOGIN")
    BY <2>1 DEF OwnHere
  <2>2. CASE userSessions'[v] = c /\ h.type = "LOGIN" /\ h.user = v /\ userSessions'[v] = sock[v]
    <3>1. Asked(v, "LOGIN")
      BY <1>1, <2>2 DEF Asked
    <3> QED
      BY <3>1 DEF OwnHere
  <2> QED
    BY <1>5, <2>1, <2>2 DEF h
<1>7. ASSUME NEW v \in Users, sock[v] # c \/ h.type # "PULL_MESSAGE"
      PROVE  Asked(v, "PULL_MESSAGE")' <=> Asked(v, "PULL_MESSAGE")
  <2>1. CASE sock[v] # c
    BY <1>1, <1>3, <2>1 DEF Asked
  <2>2. CASE sock[v] = c /\ h.type # "PULL_MESSAGE"
    BY <1>1, <1>2, <2>2 DEF Asked
  <2> QED
    BY <1>7, <2>1, <2>2
<1>8. PullsAsked'
  <2>1. ASSUME NEW v \in Users, NEW m \in Copy, m.kind = "pulled", Gets(v, m)',
               pulls[v] = 0 \/ (pulls[v] = 1 /\ Asked(v, "PULL_MESSAGE")')
        PROVE  FALSE
    <3>1. ~Gets(v, m)
      BY <1>5, <2>1 DEF PullsAsked
    <3>2. sock[v] = c /\ h.type = "PULL_MESSAGE" /\ c # None
      BY <2>1, <3>1, NoneAssumption DEF h
    <3>3. Asked(v, "PULL_MESSAGE")
      BY <1>1, <3>2 DEF Asked
    <3>4. pulls[v] = 1 /\ Asked(v, "PULL_MESSAGE")'
      BY <2>1, <3>3 DEF PullsAsked
    <3>5. PICK r \in Request : r.type = "PULL_MESSAGE" /\ Holds(toServer'[c], r)
      BY <3>2, <3>4 DEF Asked
    <3>6. Precedes(toServer[c], h, r)
      BY <1>2, <3>5
    <3> QED
      BY <1>1, <3>2, <3>4, <3>5, <3>6 DEF PullsAsked
  <2>2. ASSUME NEW v \in Users, NEW r \in Request, NEW q \in Request,
               pulls[v] = 1, sock[v] # None, r.type = "PULL_MESSAGE", q.type = "PULL_MESSAGE"
        PROVE  ~Precedes(toServer'[sock[v]], r, q)
    BY <1>1, <1>3, <2>2 DEF PullsAsked
  <2>3. \A v \in Users : /\ view[v] = "chat" => pulls[v] >= 1
                         /\ pulls[v] = 0 => ~Asked(v, "PULL_MESSAGE")'
    BY <1>5 DEF PullsAsked
  <2> QED
    BY <2>1, <2>2, <2>3 DEF PullsAsked
<1>9. PullFirst'
  <2> SUFFICES ASSUME NEW v \in Users, NEW m \in Copy, NEW r \in Request,
                      m.kind = "own", Holds(cache[v], m), sock[v] # None, pulls[v] <= 1,
                      r.type = "PULL_MESSAGE", Holds(toServer'[sock[v]], r)
               PROVE  \E q \in Request :
                        q.type = "TEXT" /\ q.n = m.n /\ Precedes(toServer'[sock[v]], r, q)
    BY DEF PullFirst
  <2>1. Holds(toServer[sock[v]], r) /\ sock[v] \in Conns
    BY <1>1, <1>3
  <2>2. PICK q \in Request :
          q.type = "TEXT" /\ q.n = m.n /\ Precedes(toServer[sock[v]], r, q)
    BY <2>1 DEF PullFirst
  <2>3. CASE sock[v] # c
    BY <1>1, <2>1, <2>2, <2>3
  <2>4. CASE sock[v] = c
    <3>1. pulls[v] = 1
      <4>1. Asked(v, "PULL_MESSAGE") /\ pulls[v] \in Nat
        BY <2>1 DEF Asked, TypeOK
      <4>2. pulls[v] # 0
        BY <4>1 DEF PullsAsked
      <4> QED
        BY <4>1, <4>2
    <3>2. ~Precedes(toServer[c], r, r)
      BY <2>4, <3>1 DEF PullsAsked
    <3>3. r # h
      BY <1>2, <2>4, <3>2
    <3> QED
      BY <1>2, <2>2, <2>4, <3>3
  <2> QED
    BY <2>3, <2>4
<1>10. Relogin'
  <2> SUFFICES ASSUME NEW v \in Users, NEW r \in Request, sock[v] # None, r.type = "LOGIN"
               PROVE  /\ \A q \in Request : q.type = "LOGIN" => ~Precedes(toServer'[sock[v]], r, q)
                      /\ view[v] = "chat" /\ Holds(toServer'[sock[v]], r) =>
                           \E q \in Request :
                             q.type = "PULL_MESSAGE" /\ Precedes(toServer'[sock[v]], r, q)
    BY DEF Relogin
  <2>1. \A q \in Request : q.type = "LOGIN" => ~Precedes(toServer[sock[v]], r, q)
    BY DEF Relogin
  <2>2. ASSUME view[v] = "chat", Holds(toServer'[sock[v]], r)
        PROVE  \E q \in Request : q.type = "PULL_MESSAGE" /\ Precedes(toServer'[sock[v]], r, q)
    <3>1. PICK q \in Request : q.type = "PULL_MESSAGE" /\ Precedes(toServer[sock[v]], r, q)
      BY <1>1, <1>3, <2>2 DEF Relogin
    <3>2. CASE sock[v] # c
      BY <1>1, <1>3, <3>1, <3>2
    <3>3. CASE sock[v] = c
      <4>1. r # h
        BY <1>2, <2>1, <2>2, <3>3
      <4> QED
        BY <1>2, <3>1, <3>3, <4>1
    <3> QED
      BY <3>2, <3>3
  <2> QED
    BY <1>1, <1>3, <2>1, <2>2
<1>11. ASSUME NEW d \in orphans
       PROVE  toServer'[d] = <<>> /\ \A v \in Users : userSessions'[v] # d
  <2>1. d \in Conns /\ d # c /\ d # None
    BY <1>3, NoneAssumption DEF TypeOK
  <2> QED
    BY <1>1, <2>1 DEF Quiet
<1> QED
  BY <1>3, <1>4, <1>6, <1>7, <1>8, <1>9, <1>10, <1>11 DEF h

\* The user of a LOGIN is bound, unless it is bound already: if its page is in the
\* chat, it has a pull behind this request.
LEMMA HandleLoginIInv ==
  ASSUME IInv, NEW c \in Conns, HandleLogin(c)
  PROVE  IInv'
<1> USE DEF IInv
<1> DEFINE h == Head(toServer[c])
<1>1. /\ Read(c, "LOGIN")
      /\ IF userSessions[h.user] = None
         THEN userSessions' = [userSessions EXCEPT ![h.user] = c] /\ SendTo({c}, Welcome)
         ELSE UNCHANGED <<userSessions, toClient>>
      /\ UNCHANGED <<rows, used, orphans, sock, view, cache, missed, pulls, texts>>
  BY DEF HandleLogin, connections, page
<1>2. ReadsHead(c) /\ h.type = "LOGIN" /\ h \in Request /\ h.user \in Users
  <2>1. ReadsHead(c) /\ h.type = "LOGIN"
    BY <1>1, ReadEffect
  <2> QED
    BY <2>1 DEF ReadsHead, Request
<1> HIDE DEF h
<1>3. /\ userSessions' \in [Users -> Conns \cup {None}]
      /\ \A v \in Users : \/ userSessions'[v] = userSessions[v]
                          \/ userSessions'[v] = c /\ v = h.user
  BY <1>1, <1>2 DEF TypeOK
<1>4. /\ toClient' \in [Conns -> Seq(Push)]
      /\ \A d \in Conns : (\A v \in Users : sock[v] # d) => toClient'[d] = toClient[d]
      /\ \A v \in Users, m \in Copy : Holds(Arriving(v)', m) <=> Holds(Arriving(v), m)
      /\ \A v \in Users, m \in Copy : Gets(v, m)' <=> Gets(v, m)
      /\ \A v \in Users, a, b \in Copy : GetsBefore(v, a, b)' => GetsBefore(v, a, b)
  <2>1. CASE userSessions[h.user] = None
    <3>1. Welcome \in Push /\ \A m \in Copy : m # Welcome
      BY DEF Push, Copy, Welcome, Numbers
    <3>2. Reaches({c}, Welcome)
      BY <1>1, <2>1, <3>1, SendToEffect
    <3> QED
      BY <3>1, <3>2 DEF Reaches
  <2>2. CASE userSessions[h.user] # None
    <3>1. toClient' = toClient /\ sock' = sock /\ cache' = cache
      BY <1>1, <2>2
    <3> QED
      BY <3>1 DEF Gets, GetsBefore, Arriving, TypeOK
  <2> QED
    BY <2>1, <2>2
<1>5. TypeOK'
  BY <1>1, <1>2, <1>3, <1>4 DEF TypeOK, ReadsHead
<1>6. /\ Owned' /\ OwnHere' /\ PullsAsked' /\ PullFirst' /\ Relogin'
      /\ \A d \in orphans : toServer'[d] = <<>> /\ \A v \in Users : userSessions'[v] # d
      /\ \A v \in Users : v # h.user => sock[v] # c
      /\ \A v \in Users : sock[v] # c \/ h.type # "PULL_MESSAGE" =>
           (Asked(v, "PULL_MESSAGE")' <=> Asked(v, "PULL_MESSAGE"))
  BY <1>1, <1>2, <1>3, <1>4, ReadStep DEF h
<1>7. Numbered' /\ Pending' /\ Handled' /\ Ordered'
  <2>1. \A v \in Users : pulls[v] <= pulls'[v]
    BY <1>1 DEF TypeOK
  <2>2. Thins
    BY <1>1, <1>2, <1>4, <2>1 DEF Thins, ReadsHead
  <2> QED
    BY <1>5, <2>2, ThinStep
<1>8. Quiet'
  BY <1>1, <1>4, <1>6 DEF Quiet
<1>9. OwnTyped'
  BY <1>1, <1>4 DEF OwnTyped
<1>10. Delivered'
  <2> SUFFICES ASSUME NEW v \in Users, NEW i \in 1..Len(rows),
                      sock[v] # None, userSessions'[v] = sock[v], view[v] = "chat",
                      ~Asked(v, "PULL_MESSAGE")', texts[rows[i]].to = v
               PROVE  rows[i] \in missed[v] \/ \E m \in Copy : m.n = rows[i] /\ Gets(v, m)'
    BY <1>1 DEF Delivered
  <2>1. CASE userSessions'[v] = userSessions[v]
    <3>1. ~Asked(v, "PULL_MESSAGE")
      BY <1>2, <1>6
    <3>2. rows[i] \in missed[v] \/ \E m \in Copy : m.n = rows[i] /\ Gets(v, m)
      BY <2>1, <3>1 DEF Delivered
    <3> QED
      BY <1>4, <3>2
  <2>2. CASE userSessions'[v] = c /\ v = h.user
    <3>1. Holds(toServer[c], h) /\ h.type = "LOGIN" /\ sock[v] = c
      BY <1>2, <2>2 DEF ReadsHead, h
    <3>2. PICK q \in Request : q.type = "PULL_MESSAGE" /\ Precedes(toServer[c], h, q)
      BY <1>2, <3>1 DEF Relogin
    <3>3. Holds(toServer[c], q)
      <4>1. toServer[c] \in Seq(Request)
        BY DEF TypeOK
      <4> QED
        BY <3>2, <4>1, QueueEmpty
    <3>4. Asked(v, "PULL_MESSAGE")
      BY <3>1, <3>2, <3>3 DEF Asked
    <3> QED
      BY <1>2, <1>6, <3>4
  <2> QED
    BY <1>3, <2>1, <2>2
<1> QED
  BY <1>5, <1>6, <1>7, <1>8, <1>9, <1>10

\* A user is logged out.
LEMMA HandleLogoutIInv ==
  ASSUME IInv, NEW c \in Conns, HandleLogout(c)
  PROVE  IInv'
<1> USE DEF IInv
<1> DEFINE h == Head(toServer[c])
<1>1. /\ Read(c, "LOGOUT")
      /\ userSessions' = [userSessions EXCEPT ![h.user] = None]
      /\ UNCHANGED <<rows, toClient, used, orphans, sock, view, cache, missed, pulls, texts>>
  BY DEF HandleLogout, connections, page
<1>2. ReadsHead(c) /\ h.type = "LOGOUT"
  BY <1>1, ReadEffect
<1> HIDE DEF h
<1>3. /\ userSessions' \in [Users -> Conns \cup {None}]
      /\ \A v \in Users : userSessions'[v] \in {userSessions[v], None}
  BY <1>1 DEF TypeOK
<1>4. \A v \in Users : \A a, b :
        /\ Arriving(v)' = Arriving(v)
        /\ (Gets(v, a)' <=> Gets(v, a)) /\ (GetsBefore(v, a, b)' <=> GetsBefore(v, a, b))
  BY <1>1 DEF Gets, GetsBefore, Arriving
<1>5. TypeOK'
  BY <1>1, <1>2, <1>3 DEF TypeOK, ReadsHead
<1>6. /\ Owned' /\ OwnHere' /\ PullsAsked' /\ PullFirst' /\ Relogin'
      /\ \A d \in orphans : toServer'[d] = <<>> /\ \A v \in Users : userSessions'[v] # d
      /\ \A v \in Users : sock[v] # c \/ h.type # "PULL_MESSAGE" =>
           (Asked(v, "PULL_MESSAGE")' <=> Asked(v, "PULL_MESSAGE"))
  BY <1>1, <1>2, <1>3, <1>4, ReadStep DEF h
<1>7. Numbered' /\ Pending' /\ Handled' /\ Ordered'
  <2>1. \A v \in Users : pulls[v] <= pulls'[v]
    BY <1>1 DEF TypeOK
  <2>2. Thins
    BY <1>1, <1>2, <1>4, <2>1 DEF Thins, ReadsHead
  <2> QED
    BY <1>5, <2>2, ThinStep
<1>8. Quiet'
  BY <1>1, <1>6 DEF Quiet
<1>9. OwnTyped'
  BY <1>1, <1>4 DEF OwnTyped
<1>10. Delivered'
  BY <1>1, <1>2, <1>3, <1>4, <1>6 DEF Delivered
<1> QED
  BY <1>5, <1>6, <1>7, <1>8, <1>9, <1>10

\* The types of the parts of a text.
LEMMA TextType ==
  ASSUME TypeOK, NEW i \in 1..Len(texts)
  PROVE  /\ texts[i].from \in Users /\ texts[i].to \in Users \cup {Everyone}
         /\ texts[i].conn \in Conns \cup {None}
<1> DEFINE T == [from : Users, to : Users \cup {Everyone}, conn : Conns \cup {None}]
<1>1. texts \in Seq(T)
  BY DEF TypeOK
<1> HIDE DEF T
<1>2. texts[i] \in T
  BY <1>1
<1> QED
  BY <1>2 DEF T

\* The text n is read from c and goes live, stored or not, to the pages on these
\* connections, none of which has it as its own.
GoesLive(c, n, conns) ==
  /\ ReadsHead(c) /\ Head(toServer[c]).type = "TEXT" /\ n = Head(toServer[c]).n
  /\ Reaches(conns, Copied("live", n))
  /\ UNCHANGED <<sock, view, cache, pulls, texts>>
  /\ rows' = rows \/ rows' = Append(rows, n)
  /\ \A v \in Users, m \in Copy :
       sock[v] \in conns \ {None} /\ m.kind = "own" /\ Holds(cache[v], m) => m.n # n

\* What is true after that.
KeepsOrder ==
  /\ rows' \in Seq(Numbers)
  /\ Numbered' /\ Pending' /\ Handled' /\ OwnTyped' /\ Ordered'
  /\ \A d \in Conns : (\A v \in Users : sock[v] # d) => toClient'[d] = <<>>
  /\ \A v \in Users, m \in Copy : m.kind = "pulled" /\ Gets(v, m)' => Gets(v, m)

\* A text that goes live leaves the numbers and the order of the copies right.
LEMMA LiveStep ==
  ASSUME IInv, NEW c \in Conns, NEW n, NEW conns, GoesLive(c, n, conns)
  PROVE  KeepsOrder
<1> USE DEF IInv
<1>0. /\ ReadsHead(c) /\ Head(toServer[c]).type = "TEXT" /\ n = Head(toServer[c]).n
      /\ Reaches(conns, Copied("live", n))
      /\ UNCHANGED <<sock, view, cache, pulls, texts>>
      /\ rows' = rows \/ rows' = Append(rows, n)
      /\ \A v \in Users, m \in Copy :
           sock[v] \in conns \ {None} /\ m.kind = "own" /\ Holds(cache[v], m) => m.n # n
  BY DEF GoesLive
<1> DEFINE h == Head(toServer[c])
           live == Copied("live", n)
<1>1. /\ h \in Request /\ h.type = "TEXT" /\ h.n = n
      /\ Holds(toServer[c], h)
      /\ \A d \in Conns : d # c => toServer'[d] = toServer[d]
      /\ \A d \in Conns : \A r : Holds(toServer'[d], r) => Holds(toServer[d], r)
      /\ \A d \in Conns : \A r, q : Precedes(toServer'[d], r, q) => Precedes(toServer[d], r, q)
      /\ \A r : Holds(toServer'[c], r) => Precedes(toServer[c], h, r)
  BY <1>0 DEF ReadsHead
<1>2. /\ \A v \in Users : \A x : Gets(v, x)' <=>
           Gets(v, x) \/ (sock[v] \in conns \ {None} /\ x = live)
      /\ \A v \in Users : \A x : Holds(Arriving(v)', x) <=>
           Holds(Arriving(v), x) \/ (sock[v] \in conns \ {None} /\ x = live)
      /\ \A v \in Users : \A a, b : GetsBefore(v, a, b)' =>
           GetsBefore(v, a, b) \/ (sock[v] \in conns \ {None} /\ Gets(v, a) /\ b = live)
      /\ \A d \in Conns : (\A v \in Users : sock[v] # d) => toClient'[d] = toClient[d]
  BY <1>0 DEF Reaches
<1>3. live.kind = "live" /\ live.n = n
  BY DEF Copied
<1> HIDE DEF h, live
<1>4. /\ Len(texts) \in Nat /\ Len(texts) <= MaxTexts /\ MaxTexts \in Nat
      /\ rows \in Seq(Numbers) /\ Len(rows) \in Nat
  BY LenProperties, MaxTextsAssumption DEF Numbered, TypeOK
<1>5. /\ Sent(c, n) /\ n \in Nat
      /\ n \in 1..Len(texts) /\ n \in Numbers
      /\ texts[n].conn = c
      /\ \A i \in 1..Len(rows) : rows[i] # n
  <2>1. h.n \in Nat
    BY <1>1 DEF Request, Numbers
  <2>2. Sent(c, n) /\ n \in Nat
    BY <1>1, <2>1 DEF Sent
  <2> QED
    BY <1>4, <2>2 DEF Numbered, Pending, Numbers
<1>6. /\ rows' \in Seq(Numbers) /\ Len(rows') \in Nat
      /\ \/ rows' = rows
         \/ /\ Len(rows') = Len(rows) + 1 /\ rows'[Len(rows) + 1] = n
            /\ \A i \in 1..Len(rows) : rows'[i] = rows[i]
  BY <1>0, <1>4, <1>5, AppendProperties
<1>7. \A i \in 1..Len(rows') : (i \in 1..Len(rows) /\ rows'[i] = rows[i]) \/
                               (i = Len(rows) + 1 /\ rows'[i] = n)
  BY <1>4, <1>6
<1>8. \A d \in Conns, k \in Nat : Sent(d, k)' => Sent(d, k)
  BY <1>1 DEF Sent
<1>9. Numbered'
  BY <1>0, <1>2, <1>3, <1>5, <1>7, <1>8 DEF Numbered
<1>10. Pending'
  <2>1. ASSUME NEW d \in Conns, NEW k \in Nat, Sent(d, k)'
        PROVE  k # n
    <3> SUFFICES ASSUME k = n PROVE FALSE
      OBVIOUS
    <3>1. PICK r \in Request : r.type = "TEXT" /\ r.n = n /\ Holds(toServer'[d], r)
      BY <2>1 DEF Sent
    <3>2. d = c
      BY <1>5, <1>8, <2>1 DEF Pending
    <3>3. Precedes(toServer[c], h, r)
      BY <1>1, <3>1, <3>2
    <3>4. h.n < r.n
      BY <1>1, <3>1, <3>3 DEF Pending
    <3> QED
      BY <1>1, <1>5, <3>1, <3>4
  <2>2. \A d \in Conns, k \in Nat : Sent(d, k)' =>
          texts[k].conn = d /\ \A i \in 1..Len(rows') : rows'[i] # k
    BY <1>0, <1>7, <1>8, <2>1 DEF Pending
  <2>3. \A i, k \in 1..Len(rows') : rows'[i] = rows'[k] => i = k
    BY <1>5, <1>7 DEF Pending
  <2>4. \A d \in Conns, r, q \in Request :
          r.type = "TEXT" /\ q.type = "TEXT" /\ Precedes(toServer'[d], r, q) => r.n < q.n
    BY <1>1 DEF Pending
  <2> QED
    BY <1>0, <2>2, <2>3, <2>4 DEF Pending
<1>11. Handled'
  <2> SUFFICES ASSUME NEW v \in Users, NEW m \in Copy, m.kind = "live", Gets(v, m)'
               PROVE  /\ texts[m.n].conn \in Conns
                      /\ \A k \in Nat : Sent(texts[m.n].conn, k)' => m.n < k
    BY <1>0 DEF Handled
  <2>1. CASE Gets(v, m)
    BY <1>0, <1>8, <2>1 DEF Handled
  <2>2. CASE m = live
    <3>1. ASSUME NEW k \in Nat, Sent(c, k)'
          PROVE  n < k
      <4>1. PICK r \in Request : r.type = "TEXT" /\ r.n = k /\ Holds(toServer'[c], r)
        BY <3>1 DEF Sent
      <4>2. Precedes(toServer[c], h, r)
        BY <1>1, <4>1
      <4> QED
        BY <1>1, <4>1, <4>2 DEF Pending
    <3>2. m.n = n /\ texts[m.n].conn = c
      BY <1>3, <1>5, <2>2
    <3> QED
      BY <1>0, <3>1, <3>2
  <2> QED
    BY <1>0, <1>2, <2>1, <2>2
<1>12. OwnTyped'
  BY <1>0, <1>2, <1>3 DEF OwnTyped
<1>13. Ordered'
  <2> SUFFICES ASSUME NEW v \in Users, NEW a \in Copy, NEW b \in Copy, GetsBefore(v, a, b)'
               PROVE  /\ /\ a.kind = "live" /\ b.kind = "live"
                         /\ texts[a.n].conn = texts[b.n].conn
                         => a.n < b.n
                      /\ pulls[v] <= 1 =>
                           a # b /\ ("own" \in {a.kind, b.kind} => a.n # b.n)
    BY <1>0 DEF Ordered
  <2>1. CASE GetsBefore(v, a, b)
    BY <2>1 DEF Ordered
  <2>2. CASE sock[v] \in conns \ {None} /\ Gets(v, a) /\ b = live
    <3>1. a.n \in Nat
      BY DEF Copy, Numbers
    <3>2. a.kind = "live" /\ texts[a.n].conn = c => a.n < n
      BY <1>5, <2>2 DEF Handled
    <3>3. a.kind = "own" => a.n # n
      BY <1>0, <2>2 DEF Gets, OwnTyped
    <3>4. a # b
      BY <1>3, <1>5, <2>2, <3>1, <3>2
    <3> QED
      BY <1>3, <1>5, <2>2, <3>2, <3>3, <3>4
  <2> QED
    BY <1>2, <2>1, <2>2
<1>14. /\ \A d \in Conns : (\A v \in Users : sock[v] # d) => toClient'[d] = <<>>
       /\ \A v \in Users, m \in Copy : m.kind = "pulled" /\ Gets(v, m)' => Gets(v, m)
  BY <1>2, <1>3 DEF Quiet
<1> QED
  BY <1>6, <1>9, <1>10, <1>11, <1>12, <1>13, <1>14 DEF KeepsOrder

\* A text for one user, who is not the sender.
LEMMA HandleTextIInv ==
  ASSUME IInv, NEW c \in Conns, NEW stored \in BOOLEAN, HandleText(c, stored)
  PROVE  IInv'
<1> USE DEF IInv
<1> DEFINE h == Head(toServer[c])
<1>1. /\ Read(c, "TEXT")
      /\ texts[h.n].to # Everyone
      /\ rows' = IF stored THEN Append(rows, h.n) ELSE rows
      /\ SendTo({userSessions[texts[h.n].to]}, Copied("live", h.n))
      /\ UNCHANGED <<userSessions, used, orphans, sock, view, cache, missed, pulls, texts>>
  BY DEF HandleText, connections, page, Copied
<1>2. ReadsHead(c) /\ h.type = "TEXT" /\ h \in Request /\ h.n \in Nat /\ Holds(toServer[c], h)
  <2>1. ReadsHead(c) /\ h.type = "TEXT"
    BY <1>1, ReadEffect
  <2>2. h \in Request /\ Holds(toServer[c], h)
    BY <2>1 DEF ReadsHead
  <2> HIDE DEF h
  <2>3. h.n \in Nat
    BY <2>2 DEF Request, Numbers
  <2> QED
    BY <2>1, <2>2, <2>3
<1> HIDE DEF h
<1> PICK n \in Nat : n = h.n
  BY <1>2
<1> DEFINE conns == {userSessions[texts[n].to]}
<1>3. /\ n \in 1..Len(texts) /\ n \in Numbers
      /\ texts[n].to \in Users /\ texts[n].from \in Users /\ texts[n].to # texts[n].from
  <2>1. Len(texts) \in Nat /\ Len(texts) <= MaxTexts /\ MaxTexts \in Nat
    BY LenProperties, MaxTextsAssumption DEF Numbered, TypeOK
  <2>2. n \in 1..Len(texts)
    BY <1>2 DEF Numbered, Sent
  <2>3. texts[n].to \in Users \cup {Everyone} /\ texts[n].from \in Users
    BY <2>2, TextType
  <2> QED
    BY <1>1, <2>1, <2>2, <2>3 DEF Numbered, Numbers
<1>4. Copied("live", n) \in Push
  BY <1>3 DEF Copied, Push, Copy
<1>5. Reaches(conns, Copied("live", n))
  BY <1>1, <1>4, SendToEffect
<1>6. ASSUME NEW v \in Users, sock[v] \in conns \ {None}
      PROVE  v = texts[n].to
  BY <1>3, <1>6 DEF Owned, Uses, TypeOK
<1>7. \A v \in Users, m \in Copy :
        sock[v] \in conns \ {None} /\ m.kind = "own" /\ Holds(cache[v], m) => m.n # n
  BY <1>3, <1>6 DEF OwnTyped
<1> HIDE DEF conns
<1>8. /\ rows' \in Seq(Numbers)
      /\ Numbered' /\ Pending' /\ Handled' /\ OwnTyped' /\ Ordered'
      /\ \A d \in Conns : (\A v \in Users : sock[v] # d) => toClient'[d] = <<>>
      /\ \A v \in Users, m \in Copy :
           m.kind = "pulled" /\ Gets(v, m)' => Gets(v, m)
  <2>1. n = Head(toServer[c]).n /\ Head(toServer[c]).type = "TEXT"
    BY <1>2 DEF h
  <2>2. /\ UNCHANGED <<sock, view, cache, pulls, texts>>
        /\ rows' = rows \/ rows' = Append(rows, n)
    BY <1>1
  <2>3. GoesLive(c, n, conns)
    BY <1>2, <1>5, <1>7, <2>1, <2>2 DEF GoesLive
  <2>4. KeepsOrder
    BY <2>3, LiveStep
  <2> QED
    BY <2>4 DEF KeepsOrder
<1>9. TypeOK'
  BY <1>1, <1>2, <1>5, <1>8 DEF TypeOK, ReadsHead, Reaches
<1>10. /\ Owned' /\ OwnHere' /\ PullsAsked' /\ PullFirst' /\ Relogin'
       /\ \A d \in orphans : toServer'[d] = <<>> /\ \A v \in Users : userSessions'[v] # d
       /\ \A v \in Users : sock[v] # c \/ h.type # "PULL_MESSAGE" =>
            (Asked(v, "PULL_MESSAGE")' <=> Asked(v, "PULL_MESSAGE"))
  BY <1>1, <1>2, <1>8, ReadStep DEF h
<1>11. Quiet'
  BY <1>1, <1>8, <1>10 DEF Quiet
<1>12. Delivered'
  <2> SUFFICES ASSUME NEW v \in Users, NEW i \in 1..Len(rows'),
                      sock[v] # None, userSessions[v] = sock[v], view[v] = "chat",
                      ~Asked(v, "PULL_MESSAGE")', texts[rows'[i]].to = v
               PROVE  rows'[i] \in missed[v] \/ \E m \in Copy : m.n = rows'[i] /\ Gets(v, m)'
    BY <1>1 DEF Delivered
  <2>1. CASE i \in 1..Len(rows) /\ rows'[i] = rows[i]
    <3>1. rows[i] \in missed[v] \/ \E m \in Copy : m.n = rows[i] /\ Gets(v, m)
      BY <1>2, <1>10, <2>1 DEF Delivered
    <3> QED
      BY <1>5, <2>1, <3>1 DEF Reaches
  <2>2. CASE rows'[i] = n
    <3>1. sock[v] \in conns \ {None}
      BY <2>2 DEF conns
    <3>2. Gets(v, Copied("live", n))'
      BY <1>5, <3>1 DEF Reaches
    <3>3. Copied("live", n) \in Copy /\ Copied("live", n).n = n
      BY <1>3 DEF Copied, Copy
    <3> QED
      BY <2>2, <3>2, <3>3
  <2>3. (i \in 1..Len(rows) /\ rows'[i] = rows[i]) \/ rows'[i] = n
    <3>1. rows \in Seq(Numbers) /\ Len(rows) \in Nat /\ n \in Numbers
      BY <1>3, LenProperties DEF TypeOK
    <3>2. /\ Len(Append(rows, n)) = Len(rows) + 1
          /\ \A k \in 1..Len(rows) : Append(rows, n)[k] = rows[k]
          /\ Append(rows, n)[Len(rows) + 1] = n
      BY <3>1, AppendProperties
    <3> QED
      BY <1>1, <3>1, <3>2
  <2> QED
    BY <2>1, <2>2, <2>3
<1> QED
  BY <1>8, <1>9, <1>10, <1>11, <1>12

\* A text for everybody else: the sender's own session is left out, and it is the
\* one of the connection the text was read from.
LEMMA HandleGroupIInv ==
  ASSUME IInv, NEW c \in Conns, HandleGroup(c)
  PROVE  IInv'
<1> USE DEF IInv
<1> DEFINE h == Head(toServer[c])
<1>1. /\ Read(c, "TEXT")
      /\ SendTo(Group(c), Copied("live", h.n))
      /\ UNCHANGED <<rows, userSessions, used, orphans, sock, view, cache, missed, pulls, texts>>
  BY DEF HandleGroup, connections, page, Copied
<1>2. ReadsHead(c) /\ h.type = "TEXT" /\ h \in Request /\ h.n \in Nat /\ Holds(toServer[c], h)
  <2>1. ReadsHead(c) /\ h.type = "TEXT"
    BY <1>1, ReadEffect
  <2>2. h \in Request /\ Holds(toServer[c], h)
    BY <2>1 DEF ReadsHead
  <2> HIDE DEF h
  <2>3. h.n \in Nat
    BY <2>2 DEF Request, Numbers
  <2> QED
    BY <2>1, <2>2, <2>3
<1> HIDE DEF h
<1> PICK n \in Nat : n = h.n
  BY <1>2
<1> DEFINE conns == Group(c)
<1>3. n \in 1..Len(texts) /\ n \in Numbers /\ texts[n].conn = c
  <2>1. Len(texts) \in Nat /\ Len(texts) <= MaxTexts /\ MaxTexts \in Nat
    BY LenProperties, MaxTextsAssumption DEF Numbered, TypeOK
  <2>2. n \in 1..Len(texts) /\ texts[n].conn = c
    BY <1>2 DEF Numbered, Pending, Sent
  <2> QED
    BY <2>1, <2>2 DEF Numbers
<1>4. Copied("live", n) \in Push
  BY <1>3 DEF Copied, Push, Copy
<1>5. Reaches(conns, Copied("live", n))
  BY <1>1, <1>4, SendToEffect
<1>6. ASSUME NEW v \in Users, sock[v] \in conns \ {None}
      PROVE  userSessions[v] = sock[v] /\ sock[v] # c /\ sock[v] # None
  <2>1. PICK w \in Users : userSessions[w] = sock[v]
    BY <1>6 DEF Group
  <2>2. sock[v] \in Conns
    BY <1>6 DEF TypeOK
  <2>3. v = w
    BY <2>1, <2>2 DEF Owned, Uses
  <2> QED
    BY <1>6, <2>1, <2>3 DEF Group
<1>7. \A v \in Users, m \in Copy :
        sock[v] \in conns \ {None} /\ m.kind = "own" /\ Holds(cache[v], m) => m.n # n
  BY <1>3, <1>6 DEF OwnHere
<1> HIDE DEF conns
<1>8. /\ rows' \in Seq(Numbers)
      /\ Numbered' /\ Pending' /\ Handled' /\ OwnTyped' /\ Ordered'
      /\ \A d \in Conns : (\A v \in Users : sock[v] # d) => toClient'[d] = <<>>
      /\ \A v \in Users, m \in Copy :
           m.kind = "pulled" /\ Gets(v, m)' => Gets(v, m)
  <2>1. n = Head(toServer[c]).n /\ Head(toServer[c]).type = "TEXT"
    BY <1>2 DEF h
  <2>2. /\ UNCHANGED <<sock, view, cache, pulls, texts>>
        /\ rows' = rows \/ rows' = Append(rows, n)
    BY <1>1
  <2>3. GoesLive(c, n, conns)
    BY <1>2, <1>5, <1>7, <2>1, <2>2 DEF GoesLive
  <2>4. KeepsOrder
    BY <2>3, LiveStep
  <2> QED
    BY <2>4 DEF KeepsOrder
<1>9. TypeOK'
  BY <1>1, <1>2, <1>5, <1>8 DEF TypeOK, ReadsHead, Reaches
<1>10. /\ Owned' /\ OwnHere' /\ PullsAsked' /\ PullFirst' /\ Relogin'
       /\ \A d \in orphans : toServer'[d] = <<>> /\ \A v \in Users : userSessions'[v] # d
       /\ \A v \in Users : sock[v] # c \/ h.type # "PULL_MESSAGE" =>
            (Asked(v, "PULL_MESSAGE")' <=> Asked(v, "PULL_MESSAGE"))
  BY <1>1, <1>2, <1>8, ReadStep DEF h
<1>11. Quiet'
  BY <1>1, <1>8, <1>10 DEF Quiet
<1>12. Delivered'
  BY <1>1, <1>2, <1>5, <1>10 DEF Delivered, Reaches
<1> QED
  BY <1>8, <1>9, <1>10, <1>11, <1>12

-----------------------------------------------------------------------------
(* The answers to a pull. *)

\* The copies are those of the rows that were read, each once.
AnswersPull(got, copies) ==
  /\ copies \in Seq(Push)
  /\ \A x : Holds(copies, x) <=> \E i \in got : x = Copied("pulled", rows[i])
  /\ \A a, b : Precedes(copies, a, b) => a # b /\ Holds(copies, a) /\ Holds(copies, b)

\* That is so in whatever order the query returns the rows.
LEMMA PullAnswer ==
  ASSUME TypeOK, Pending, NEW u \in Users, NEW got \in SUBSET Recent(u),
         NEW order \in Bijection(1..Cardinality(got), got)
  PROVE  AnswersPull(got, [i \in DOMAIN order |-> Copied("pulled", rows[order[i]])])
<1> DEFINE N == Cardinality(got)
           copies == [i \in DOMAIN order |-> Copied("pulled", rows[order[i]])]
<1>1. /\ rows \in Seq(Numbers) /\ Len(rows) \in Nat
      /\ DOMAIN rows = 1..Len(rows)
      /\ got \in SUBSET (1..Len(rows))
  BY LenProperties DEF TypeOK, Recent
<1>2. N \in Nat
  <2>1. IsFiniteSet(1..Len(rows))
    BY <1>1, FS_Interval
  <2>2. IsFiniteSet(got)
    BY <1>1, <2>1, FS_Subset
  <2> QED
    BY <2>2, FS_CardinalityType
<1> HIDE DEF N
<1>3. /\ order \in [1..N -> got]
      /\ \A i, k \in 1..N : order[i] = order[k] => i = k
      /\ \A j \in got : \E i \in 1..N : order[i] = j
  BY DEF N, Bijection, Injection, Surjection, IsInjective
<1>4. \A i \in 1..N : order[i] \in got /\ order[i] \in 1..Len(rows)
                      /\ rows[order[i]] \in Numbers
  <2> TAKE i \in 1..N
  <2>1. order[i] \in got
    BY <1>3
  <2>2. order[i] \in 1..Len(rows)
    BY <1>1, <2>1
  <2> QED
    BY <1>1, <2>1, <2>2
<1>5. /\ copies = [i \in 1..N |-> Copied("pulled", rows[order[i]])]
      /\ \A i \in 1..N : copies[i] = Copied("pulled", rows[order[i]])
      /\ \A i \in 1..N : copies[i].n = rows[order[i]]
  BY <1>3 DEF Copied
<1>6. copies \in Seq(Push) /\ Len(copies) = N
  <2>1. \A i \in 1..N : Copied("pulled", rows[order[i]]) \in Push
    BY <1>4 DEF Copied, Push, Copy
  <2>2. copies \in [1..N -> Push]
    BY <1>5, <2>1
  <2> QED
    BY <1>2, <2>2
<1> HIDE DEF copies
<1>7. ASSUME NEW x
      PROVE  Holds(copies, x) <=> \E i \in got : x = Copied("pulled", rows[i])
  <2>1. Holds(copies, x) <=> \E k \in 1..N : copies[k] = x
    BY <1>6 DEF Holds
  <2>2. ASSUME NEW k \in 1..N, copies[k] = x
        PROVE  \E i \in got : x = Copied("pulled", rows[i])
    BY <1>4, <1>5, <2>2
  <2>3. ASSUME NEW i \in got, x = Copied("pulled", rows[i])
        PROVE  \E k \in 1..N : copies[k] = x
    <3>1. PICK k \in 1..N : order[k] = i
      BY <1>3
    <3> QED
      BY <1>5, <2>3, <3>1
  <2> QED
    BY <2>1, <2>2, <2>3
<1>8. ASSUME NEW a, NEW b, Precedes(copies, a, b)
      PROVE  a # b /\ Holds(copies, a) /\ Holds(copies, b)
  <2>1. PICK i \in 1..N, k \in 1..N : i < k /\ copies[i] = a /\ copies[k] = b
    BY <1>6, <1>8 DEF Precedes
  <2>2. Holds(copies, a) /\ Holds(copies, b)
    BY <1>6, <2>1 DEF Holds
  <2>3. order[i] # order[k]
    BY <1>2, <1>3, <2>1
  <2>4. rows[order[i]] # rows[order[k]]
    BY <1>4, <2>3 DEF Pending
  <2> QED
    BY <1>5, <2>1, <2>2, <2>4
<1>9. AnswersPull(got, copies)
  BY <1>6, <1>7, <1>8 DEF AnswersPull
<1> QED
  BY <1>9 DEF copies

\* The copies arrive at u's page, behind what is on its way, unless the page has gone;
\* the rows that were not read are missed.
Answered(u, c, copies) ==
  /\ toClient' \in [Conns -> Seq(Push)]
  /\ missed' \in [Users -> SUBSET Numbers]
  /\ \A d \in Conns : (\A v \in Users : sock[v] # d) => toClient'[d] = toClient[d]
  /\ \A v \in Users : missed[v] \in SUBSET missed'[v]
  /\ \A v \in Users : \A x : Holds(Arriving(v)', x) =>
       Holds(Arriving(v), x) \/ (v = u /\ sock[u] = c /\ Holds(copies, x))
  /\ \A v \in Users : \A x : Gets(v, x)' =>
       Gets(v, x) \/ (v = u /\ sock[u] = c /\ Holds(copies, x))
  /\ \A v \in Users : \A x : Gets(v, x) => Gets(v, x)'
  /\ \A v \in Users : \A a, b : GetsBefore(v, a, b)' =>
       \/ GetsBefore(v, a, b)
       \/ /\ v = u /\ sock[u] = c
          /\ Precedes(copies, a, b) \/ (Gets(u, a) /\ Holds(copies, b))
  /\ sock[u] = c =>
       \A i \in Recent(u) : \A x :
         x = Copied("pulled", rows[i]) => rows[i] \in missed'[u] \/ Gets(u, x)'

\* That is what HandlePull does to the pages.
LEMMA PullEffect ==
  ASSUME IInv, NEW c \in Conns, NEW u \in Users, NEW got \in SUBSET Recent(u), NEW copies,
         AnswersPull(got, copies),
         \A v \in Users : sock[v] = c => v = u,
         UNCHANGED <<sock, cache>>,
         IF sock[u] # c THEN UNCHANGED <<toClient, missed>>
         ELSE /\ toClient' = [toClient EXCEPT ![c] = @ \o copies]
              /\ missed' = [missed EXCEPT ![u] = @ \cup {rows[i] : i \in Recent(u) \ got}]
  PROVE  Answered(u, c, copies)
<1> USE DEF IInv
<1>1. CASE sock[u] # c
  <2>1. toClient' = toClient
    BY <1>1
  <2>2. \A v \in Users : Arriving(v)' = Arriving(v) /\ cache'[v] = cache[v]
    BY <2>1 DEF Arriving
  <2>3. /\ \A v \in Users : \A x : Gets(v, x)' <=> Gets(v, x)
        /\ \A v \in Users : \A a, b : GetsBefore(v, a, b)' <=> GetsBefore(v, a, b)
    BY <2>2 DEF Gets, GetsBefore
  <2> QED
    BY <1>1, <2>1, <2>2, <2>3 DEF Answered, TypeOK
<1>2. CASE sock[u] = c
  <2>1. /\ toClient' = [toClient EXCEPT ![c] = toClient[c] \o copies]
        /\ missed' = [missed EXCEPT ![u] = @ \cup {rows[i] : i \in Recent(u) \ got}]
        /\ toClient[c] \in Seq(Push) /\ copies \in Seq(Push)
    BY <1>2 DEF TypeOK, AnswersPull
  <2>2. /\ toClient[c] \o copies \in Seq(Push)
        /\ \A a : Holds(toClient[c] \o copies, a) <=>
                    Holds(toClient[c], a) \/ Holds(copies, a)
        /\ \A a, b : Precedes(toClient[c] \o copies, a, b) <=>
             \/ Precedes(toClient[c], a, b) \/ Precedes(copies, a, b)
             \/ (Holds(toClient[c], a) /\ Holds(copies, b))
    BY <2>1, QueueConcat
  <2>3. /\ toClient' \in [Conns -> Seq(Push)]
        /\ toClient'[c] = toClient[c] \o copies
        /\ \A d \in Conns : d # c => toClient'[d] = toClient[d]
    BY <2>1, <2>2 DEF TypeOK
  <2>4. /\ Arriving(u) = toClient[c] /\ Arriving(u)' = toClient[c] \o copies
        /\ \A v \in Users : cache'[v] = cache[v] /\ (v # u => Arriving(v)' = Arriving(v))
    BY <1>2, <2>3, NoneAssumption DEF Arriving, TypeOK
  <2>5. \A x : Holds(Arriving(u)', x) <=> Holds(Arriving(u), x) \/ Holds(copies, x)
    BY <2>2, <2>4
  <2>6. ASSUME NEW v \in Users, NEW x
        PROVE  /\ Holds(Arriving(v)', x) => Holds(Arriving(v), x) \/ (v = u /\ Holds(copies, x))
               /\ Gets(v, x)' => Gets(v, x) \/ (v = u /\ Holds(copies, x))
               /\ Gets(v, x) => Gets(v, x)'
    <3>1. CASE v = u
      BY <2>4, <2>5, <3>1 DEF Gets
    <3>2. CASE v # u
      BY <2>4, <3>2 DEF Gets
    <3> QED
      BY <3>1, <3>2
  <2>7. ASSUME NEW v \in Users, NEW a, NEW b, GetsBefore(v, a, b)'
        PROVE  \/ GetsBefore(v, a, b)
               \/ v = u /\ (Precedes(copies, a, b) \/ (Gets(u, a) /\ Holds(copies, b)))
    <3>1. CASE v = u
      BY <2>2, <2>4, <2>5, <2>7, <3>1 DEF Gets, GetsBefore
    <3>2. CASE v # u
      BY <2>4, <2>7, <3>2 DEF GetsBefore
    <3> QED
      BY <3>1, <3>2
  <2>8. \A x : Holds(copies, x) => Gets(u, x)'
    BY <2>5 DEF Gets
  <2>9. /\ missed' \in [Users -> SUBSET Numbers]
        /\ \A v \in Users : missed[v] \in SUBSET missed'[v]
        /\ \A i \in Recent(u) \ got : rows[i] \in missed'[u]
    <3>1. {rows[i] : i \in Recent(u) \ got} \in SUBSET Numbers
      BY DEF TypeOK, Recent
    <3> QED
      BY <2>1, <3>1 DEF TypeOK
  <2>10. ASSUME NEW i \in Recent(u), NEW x, x = Copied("pulled", rows[i])
         PROVE  rows[i] \in missed'[u] \/ Gets(u, x)'
    <3>1. CASE i \in got
      <4>1. Holds(copies, x)
        BY <2>10, <3>1 DEF AnswersPull
      <4> QED
        BY <2>8, <4>1
    <3>2. CASE i \notin got
      BY <2>9, <3>2
    <3> QED
      BY <3>1, <3>2
  <2> QED
    BY <1>2, <2>3, <2>6, <2>7, <2>9, <2>10 DEF Answered
<1> QED
  BY <1>1, <1>2

\* The history of a user is pulled: what was stored is on its page then, and what is
\* pulled is not what was typed there.
LEMMA HandlePullIInv ==
  ASSUME IInv, NEW c \in Conns, HandlePull(c)
  PROVE  IInv'
<1> USE DEF IInv
<1> DEFINE h == Head(toServer[c])
<1>1. /\ Read(c, "PULL_MESSAGE")
      /\ UNCHANGED <<userSessions, rows, used, orphans, sock, view, cache, pulls, texts>>
  BY DEF HandlePull, connections
<1>2. ReadsHead(c) /\ h.type = "PULL_MESSAGE" /\ h \in Request /\ Holds(toServer[c], h)
  <2>1. ReadsHead(c) /\ h.type = "PULL_MESSAGE"
    BY <1>1, ReadEffect
  <2> QED
    BY <2>1 DEF ReadsHead
<1> HIDE DEF h
<1> PICK u \in Users : u = h.user
  BY <1>2 DEF Request
<1>3. \A v \in Users : sock[v] = c => v = u
  BY <1>2 DEF Owned, Uses
<1>4. PICK got \in SUBSET Recent(u) :
        \E order \in Bijection(1..Cardinality(got), got) :
          IF sock[u] # c THEN UNCHANGED <<toClient, missed>>
          ELSE /\ toClient' = [toClient EXCEPT ![c] =
                    @ \o [i \in DOMAIN order |-> Copied("pulled", rows[order[i]])]]
               /\ missed' = [missed EXCEPT ![u] = @ \cup {rows[i] : i \in Recent(u) \ got}]
  <2>1. CASE sock[u] # c
    <3> DEFINE none == [i \in {} |-> 0]
    <3>1. none \in Bijection(1..Cardinality({}), {})
      BY FS_EmptySet DEF Bijection, Injection, Surjection, IsInjective
    <3>2. UNCHANGED <<toClient, missed>>
      BY <2>1 DEF HandlePull, h
    <3> QED
      BY <2>1, <3>1, <3>2
  <2>2. CASE sock[u] = c
    BY <2>2 DEF HandlePull, Copied, h
  <2> QED
    BY <2>1, <2>2
<1> PICK order \in Bijection(1..Cardinality(got), got) :
      IF sock[u] # c THEN UNCHANGED <<toClient, missed>>
      ELSE /\ toClient' = [toClient EXCEPT ![c] =
                @ \o [i \in DOMAIN order |-> Copied("pulled", rows[order[i]])]]
           /\ missed' = [missed EXCEPT ![u] = @ \cup {rows[i] : i \in Recent(u) \ got}]
  BY <1>4
<1> DEFINE copies == [i \in DOMAIN order |-> Copied("pulled", rows[order[i]])]
<1>5. AnswersPull(got, copies)
  BY PullAnswer
<1>6. Answered(u, c, copies)
  <2>1. IF sock[u] # c THEN UNCHANGED <<toClient, missed>>
        ELSE /\ toClient' = [toClient EXCEPT ![c] = @ \o copies]
             /\ missed' = [missed EXCEPT ![u] = @ \cup {rows[i] : i \in Recent(u) \ got}]
    OBVIOUS
  <2> HIDE DEF copies
  <2> QED
    BY <1>1, <1>3, <1>5, <2>1, PullEffect
<1> HIDE DEF copies
<1>7. \A i \in Recent(u) : i \in 1..Len(rows)
  BY DEF Recent, TypeOK
<1>8. ASSUME NEW x, Holds(copies, x)
      PROVE  x.kind = "pulled" /\ \E i \in 1..Len(rows) : x.n = rows[i]
  <2>1. PICK i \in Recent(u) : x = Copied("pulled", rows[i])
    BY <1>5, <1>8 DEF AnswersPull
  <2> QED
    BY <1>7, <2>1 DEF Copied
<1>9. /\ \A d \in Conns : \A r : Holds(toServer'[d], r) => Holds(toServer[d], r)
      /\ \A d \in Conns : \A r, q : Precedes(toServer'[d], r, q) => Precedes(toServer[d], r, q)
      /\ toServer' \in [Conns -> Seq(Request)]
  BY <1>2 DEF ReadsHead
<1>10. TypeOK'
  BY <1>1, <1>6, <1>9 DEF TypeOK, Answered
<1>11. /\ Owned' /\ OwnHere' /\ PullsAsked' /\ PullFirst' /\ Relogin'
       /\ \A d \in orphans : toServer'[d] = <<>> /\ \A v \in Users : userSessions'[v] # d
       /\ \A v \in Users : v # h.user => sock[v] # c
       /\ \A v \in Users : sock[v] # c \/ h.type # "PULL_MESSAGE" =>
            (Asked(v, "PULL_MESSAGE")' <=> Asked(v, "PULL_MESSAGE"))
  <2>1. \A v \in Users, m \in Copy :
          m.kind = "pulled" /\ Gets(v, m)' =>
            Gets(v, m) \/ (sock[v] = c /\ h.type = "PULL_MESSAGE")
    BY <1>2, <1>6 DEF Answered
  <2> QED
    BY <1>1, <1>2, <2>1, ReadStep DEF h
<1>12. \A d \in Conns, n \in Nat : Sent(d, n)' => Sent(d, n)
  BY <1>9 DEF Sent
<1>13. Numbered'
  <2>1. \A v \in Users, m \in Copy : Gets(v, m)' => m.n \in 1..Len(texts)
    BY <1>6, <1>8 DEF Answered, Numbered
  <2> QED
    BY <1>1, <1>12, <2>1 DEF Numbered
<1>14. Pending'
  BY <1>1, <1>9, <1>12 DEF Pending
<1>15. Handled'
  <2>1. \A v \in Users, m \in Copy : m.kind = "live" /\ Gets(v, m)' => Gets(v, m)
    BY <1>6, <1>8 DEF Answered
  <2> QED
    BY <1>1, <1>12, <2>1 DEF Handled
<1>16. OwnTyped'
  <2>1. \A v \in Users, m \in Copy :
          m.kind = "own" /\ Holds(Arriving(v)', m) => Holds(Arriving(v), m)
    BY <1>6, <1>8 DEF Answered
  <2> QED
    BY <1>1, <2>1 DEF OwnTyped
<1>17. Quiet'
  BY <1>1, <1>6, <1>11 DEF Quiet, Answered
<1>18. Ordered'
  <2> SUFFICES ASSUME NEW v \in Users, NEW a \in Copy, NEW b \in Copy, GetsBefore(v, a, b)'
               PROVE  /\ /\ a.kind = "live" /\ b.kind = "live"
                         /\ texts[a.n].conn = texts[b.n].conn
                         => a.n < b.n
                      /\ pulls[v] <= 1 =>
                           a # b /\ ("own" \in {a.kind, b.kind} => a.n # b.n)
    BY <1>1 DEF Ordered
  <2>1. CASE GetsBefore(v, a, b)
    BY <2>1 DEF Ordered
  <2>2. CASE Precedes(copies, a, b)
    <3>1. a # b /\ Holds(copies, a) /\ Holds(copies, b)
      BY <1>5, <2>2 DEF AnswersPull
    <3> QED
      BY <1>8, <3>1
  <2>3. CASE v = u /\ sock[u] = c /\ Gets(u, a) /\ Holds(copies, b)
    <3>1. b.kind = "pulled"
      BY <1>8, <2>3
    <3>2. ASSUME pulls[u] <= 1
          PROVE  a.kind # "pulled"
      <4>1. Asked(u, "PULL_MESSAGE") /\ pulls[u] \in Nat
        BY <1>2, <2>3, NoneAssumption DEF Asked, TypeOK
      <4>2. pulls[u] = 1
        BY <3>2, <4>1 DEF PullsAsked
      <4> QED
        BY <2>3, <4>1, <4>2 DEF PullsAsked
    <3>3. ASSUME pulls[u] <= 1, a.kind = "own"
          PROVE  a.n # b.n
      <4>1. Holds(cache[u], a)
        BY <2>3, <3>3 DEF Gets, OwnTyped
      <4>2. sock[u] # None /\ Holds(toServer[sock[u]], h)
        BY <1>2, <2>3, NoneAssumption
      <4>3. PICK q \in Request : q.type = "TEXT" /\ q.n = a.n /\ Precedes(toServer[sock[u]], h, q)
        BY <1>2, <3>3, <4>1, <4>2 DEF PullFirst
      <4>4. Holds(toServer[c], q)
        <5>1. toServer[c] \in Seq(Request)
          BY DEF TypeOK
        <5> QED
          BY <2>3, <4>3, <5>1, QueueEmpty
      <4>5. a.n \in Nat
        BY DEF Copy, Numbers
      <4>6. Sent(c, a.n)
        BY <4>3, <4>4 DEF Sent
      <4>7. \A i \in 1..Len(rows) : rows[i] # a.n
        BY <4>5, <4>6 DEF Pending
      <4> QED
        BY <1>8, <2>3, <4>7
    <3> QED
      BY <2>3, <3>1, <3>2, <3>3
  <2> QED
    BY <1>6, <2>1, <2>2, <2>3 DEF Answered
<1>19. Delivered'
  <2> SUFFICES ASSUME NEW v \in Users, NEW i \in 1..Len(rows),
                      sock[v] # None, userSessions[v] = sock[v], view[v] = "chat",
                      ~Asked(v, "PULL_MESSAGE")', texts[rows[i]].to = v
               PROVE  rows[i] \in missed'[v] \/ \E m \in Copy : m.n = rows[i] /\ Gets(v, m)'
    BY <1>1 DEF Delivered
  <2>1. CASE sock[v] # c
    <3>1. rows[i] \in missed[v] \/ \E m \in Copy : m.n = rows[i] /\ Gets(v, m)
      BY <1>11, <2>1 DEF Delivered
    <3> QED
      BY <1>6, <3>1 DEF Answered
  <2>2. CASE sock[v] = c
    <3>1. v = u /\ i \in Recent(u)
      <4>1. rows \in Seq(Numbers)
        BY DEF TypeOK
      <4> QED
        BY <1>3, <2>2, <4>1 DEF Recent
    <3>2. PICK m : m = Copied("pulled", rows[i])
      OBVIOUS
    <3>3. rows[i] \in missed'[u] \/ Gets(u, m)'
      BY <1>6, <2>2, <3>1, <3>2 DEF Answered
    <3>4. m \in Copy /\ m.n = rows[i]
      BY <3>2 DEF Copied, Copy, TypeOK
    <3> QED
      BY <3>1, <3>3, <3>4
  <2> QED
    BY <2>1, <2>2
<1> QED
  BY <1>10, <1>11, <1>13, <1>14, <1>15, <1>16, <1>17, <1>18, <1>19

-----------------------------------------------------------------------------
(* The steps of the surroundings. *)

\* What waits on a connection without a page is lost.
LEMMA LoseIInv ==
  ASSUME IInv, NEW c \in Conns, Lose(c)
  PROVE  IInv'
<1> USE DEF IInv
<1>1. /\ \A v \in Users : sock[v] # c
      /\ toServer' = [toServer EXCEPT ![c] = <<>>]
      /\ UNCHANGED <<userSessions, rows, toClient, used, orphans, sock, view, cache, missed,
                     pulls, texts>>
  BY DEF Lose, connections, page
<1>2. /\ toServer' \in [Conns -> Seq(Request)]
      /\ toServer'[c] = <<>>
      /\ \A d \in Conns : d # c => toServer'[d] = toServer[d]
  BY <1>1, EmptySeq DEF TypeOK
<1>3. /\ \A a : ~Holds(<<>>, a)
      /\ \A a, b : ~Precedes(<<>>, a, b)
  BY QueueEmpty
<1>4. /\ \A d \in Conns : \A r : Holds(toServer'[d], r) => Holds(toServer[d], r)
      /\ \A d \in Conns : \A r, q : Precedes(toServer'[d], r, q) => Precedes(toServer[d], r, q)
      /\ \A v \in Users : sock[v] # None => toServer'[sock[v]] = toServer[sock[v]]
  BY <1>1, <1>2, <1>3 DEF TypeOK
<1>5. \A v \in Users : \A a, b :
        /\ Arriving(v)' = Arriving(v)
        /\ (Gets(v, a)' <=> Gets(v, a)) /\ (GetsBefore(v, a, b)' <=> GetsBefore(v, a, b))
  BY <1>1 DEF Gets, GetsBefore, Arriving
<1>6. \A v \in Users :
        /\ Asked(v, "LOGIN")' <=> Asked(v, "LOGIN")
        /\ Asked(v, "PULL_MESSAGE")' <=> Asked(v, "PULL_MESSAGE")
  BY <1>1, <1>4 DEF Asked
<1>7. TypeOK'
  BY <1>1, <1>2 DEF TypeOK
<1>8. Numbered' /\ Pending' /\ Handled' /\ Ordered'
  <2>1. \A v \in Users : pulls[v] <= pulls'[v]
    BY <1>1 DEF TypeOK
  <2>2. Thins
    BY <1>1, <1>4, <1>5, <2>1 DEF Thins
  <2> QED
    BY <1>7, <2>2, ThinStep
<1>9. Owned'
  <2>1. \A d \in Conns, v \in Users : Uses(v, d)' => Uses(v, d)
    BY <1>1, <1>4 DEF Uses
  <2> QED
    BY <1>1, <2>1 DEF Owned
<1>10. Quiet'
  BY <1>1, <1>2 DEF Quiet
<1>11. OwnTyped'
  BY <1>1, <1>5 DEF OwnTyped
<1>12. OwnHere'
  BY <1>1, <1>6 DEF OwnHere
<1>13. PullsAsked'
  BY <1>1, <1>4, <1>5, <1>6 DEF PullsAsked
<1>14. PullFirst'
  BY <1>1, <1>4 DEF PullFirst
<1>15. Relogin'
  BY <1>1, <1>4 DEF Relogin
<1>16. Delivered'
  BY <1>1, <1>5, <1>6 DEF Delivered
<1> QED
  BY <1>7, <1>8, <1>9, <1>10, <1>11, <1>12, <1>13, <1>14, <1>15, <1>16

\* The oldest row ages.
LEMMA AgeIInv ==
  ASSUME IInv, Age
  PROVE  IInv'
<1> USE DEF IInv
<1>1. /\ rows # <<>> /\ rows' = Tail(rows)
      /\ UNCHANGED <<userSessions, toServer, toClient, used, orphans, sock, view, cache, missed,
                     pulls, texts>>
  BY DEF Age, connections, page
<1>2. /\ rows' \in Seq(Numbers)
      /\ \E d \in {0, 1} : \A i \in 1..Len(rows') :
           i + d \in 1..Len(rows) /\ rows'[i] = rows[i + d]
  BY <1>1, AgedRows
<1>3. \A v \in Users : \A a, b :
        /\ Arriving(v)' = Arriving(v)
        /\ (Gets(v, a)' <=> Gets(v, a)) /\ (GetsBefore(v, a, b)' <=> GetsBefore(v, a, b))
  BY <1>1 DEF Gets, GetsBefore, Arriving
<1>4. \A v \in Users :
        /\ Asked(v, "LOGIN")' <=> Asked(v, "LOGIN")
        /\ Asked(v, "PULL_MESSAGE")' <=> Asked(v, "PULL_MESSAGE")
  BY <1>1 DEF Asked
<1>5. TypeOK'
  BY <1>1, <1>2 DEF TypeOK
<1>6. Numbered' /\ Pending' /\ Handled' /\ Ordered'
  <2>1. \A v \in Users : pulls[v] <= pulls'[v]
    BY <1>1 DEF TypeOK
  <2>2. Thins
    BY <1>1, <1>3, <2>1 DEF Thins
  <2> QED
    BY <1>5, <2>2, ThinStep
<1>7. Owned' /\ Quiet'
  BY <1>1 DEF Owned, Quiet, Uses
<1>8. OwnTyped' /\ OwnHere'
  BY <1>1, <1>3, <1>4 DEF OwnTyped, OwnHere
<1>9. PullsAsked'
  BY <1>1, <1>3, <1>4 DEF PullsAsked
<1>10. PullFirst' /\ Relogin'
  BY <1>1 DEF PullFirst, Relogin
<1>11. Delivered'
  <2> SUFFICES ASSUME NEW v \in Users, NEW i \in 1..Len(rows'),
                      sock[v] # None, userSessions[v] = sock[v], view[v] = "chat",
                      ~Asked(v, "PULL_MESSAGE"), texts[rows'[i]].to = v
               PROVE  rows'[i] \in missed[v] \/ \E m \in Copy : m.n = rows'[i] /\ Gets(v, m)
    BY <1>1, <1>3, <1>4 DEF Delivered
  <2>1. PICK k \in 1..Len(rows) : rows'[i] = rows[k]
    BY <1>2
  <2> QED
    BY <2>1 DEF Delivered
<1> QED
  BY <1>5, <1>6, <1>7, <1>8, <1>9, <1>10, <1>11

\* The server is started anew: the queues are gone, and a page keeps its connection
\* at most as an orphan.
LEMMA RestartIInv ==
  ASSUME IInv, Restart
  PROVE  IInv'
<1> USE DEF IInv
<1>1. /\ userSessions' = [v \in Users |-> None]
      /\ toServer' = [c \in Conns |-> <<>>]
      /\ toClient' = [c \in Conns |-> <<>>]
      /\ orphans' = {sock'[v] : v \in Users} \ {None}
      /\ sock' \in [Users -> Conns \cup {None}]
      /\ \A v \in Users : sock'[v] \in {sock[v], None}
      /\ UNCHANGED <<rows, used, view, cache, missed, pulls, texts>>
  BY DEF Restart, TypeOK
<1>2. /\ \A a : ~Holds(<<>>, a)
      /\ \A a, b : ~Precedes(<<>>, a, b)
  BY QueueEmpty
<1>3. /\ \A d \in Conns : \A r : ~Holds(toServer'[d], r)
      /\ \A d \in Conns : \A r, q : ~Precedes(toServer'[d], r, q)
  BY <1>1, <1>2
<1>4. \A v \in Users : Arriving(v)' = <<>>
  BY <1>1 DEF Arriving, TypeOK
<1>5. /\ \A v \in Users : \A a : Gets(v, a)' <=> Holds(cache[v], a)
      /\ \A v \in Users : \A a, b : GetsBefore(v, a, b)' <=> Precedes(cache[v], a, b)
  BY <1>1, <1>2, <1>4 DEF Gets, GetsBefore
<1>6. \A v \in Users : ~Asked(v, "LOGIN")' /\ ~Asked(v, "PULL_MESSAGE")'
  BY <1>1, <1>3 DEF Asked
<1>7. TypeOK'
  <2>1. orphans' \in SUBSET used
    BY <1>1 DEF TypeOK, Owned, Uses
  <2>2. /\ toServer' \in [Conns -> Seq(Request)]
        /\ toClient' \in [Conns -> Seq(Push)]
        /\ userSessions' \in [Users -> Conns \cup {None}]
    BY <1>1, EmptySeq
  <2> QED
    BY <1>1, <2>1, <2>2 DEF TypeOK
<1>8. Numbered' /\ Pending' /\ Handled' /\ Ordered'
  <2>1. \A v \in Users : pulls[v] <= pulls'[v]
    BY <1>1 DEF TypeOK
  <2>2. Thins
    BY <1>1, <1>3, <1>5, <2>1 DEF Thins, Gets, GetsBefore
  <2> QED
    BY <1>7, <2>2, ThinStep
<1>9. Owned'
  <2>1. \A d \in Conns, v \in Users : Uses(v, d)' => Uses(v, d)
    BY <1>1, <1>3, NoneAssumption DEF Uses
  <2> QED
    BY <1>1, <2>1 DEF Owned
<1>10. Quiet'
  BY <1>1, NoneAssumption DEF Quiet
<1>11. OwnTyped' /\ OwnHere'
  BY <1>1, <1>2, <1>4, <1>6 DEF OwnTyped, OwnHere
<1>12. PullsAsked'
  BY <1>1, <1>3, <1>5, <1>6 DEF PullsAsked, Gets
<1>13. PullFirst' /\ Relogin'
  BY <1>1, <1>3 DEF PullFirst, Relogin
<1>14. Delivered'
  BY <1>1 DEF Delivered
<1> QED
  BY <1>7, <1>8, <1>9, <1>10, <1>11, <1>12, <1>13, <1>14

-----------------------------------------------------------------------------
(* The theorems. *)

\* Every step of the system keeps the invariant.
LEMMA NextIInv == IInv /\ [Next]_vars => IInv'
<1> SUFFICES ASSUME IInv, [Next]_vars PROVE IInv'
  OBVIOUS
<1>1. CASE UNCHANGED vars
  <2>1. UNCHANGED <<userSessions, rows, toServer, toClient, used, orphans, sock, view, cache,
                    missed, pulls, texts>>
    BY <1>1 DEF vars, connections, page
  <2>2. /\ \A u \in Users : \A a, b :
             /\ Arriving(u)' = Arriving(u)
             /\ (Gets(u, a)' <=> Gets(u, a)) /\ (GetsBefore(u, a, b)' <=> GetsBefore(u, a, b))
        /\ \A u \in Users : \A type : Asked(u, type)' <=> Asked(u, type)
        /\ \A c : (\A n : Sent(c, n)' <=> Sent(c, n)) /\ \A u : Uses(u, c)' <=> Uses(u, c)
    BY <2>1 DEF Gets, GetsBefore, Arriving, Asked, Sent, Uses
  <2>3. TypeOK' /\ Owned' /\ Quiet'
    BY <2>1, <2>2 DEF IInv, TypeOK, Owned, Quiet
  <2>4. Numbered' /\ Pending' /\ Handled'
    BY <2>1, <2>2 DEF IInv, Numbered, Pending, Handled
  <2>5. OwnTyped' /\ OwnHere' /\ PullFirst' /\ Relogin'
    BY <2>1, <2>2 DEF IInv, OwnTyped, OwnHere, PullFirst, Relogin
  <2>6. PullsAsked'
    BY <2>1, <2>2 DEF IInv, PullsAsked
  <2>7. Ordered' /\ Delivered'
    BY <2>1, <2>2 DEF IInv, Ordered, Delivered
  <2> QED
    BY <2>3, <2>4, <2>5, <2>6, <2>7 DEF IInv
<1>2. ASSUME NEW u \in Users, PageStep(u)
      PROVE  IInv'
  BY <1>2, ConnectIInv, SubmitLoginIInv, SendTextIInv, LeaveIInv, DropIInv, ReceiveIInv
     DEF PageStep
<1>3. ASSUME NEW c \in Conns, Handle(c) \/ Lose(c)
      PROVE  IInv'
  BY <1>3, HandleLoginIInv, HandleTextIInv, HandleGroupIInv, HandlePullIInv, HandleLogoutIInv,
     LoseIInv DEF Handle
<1> QED
  BY <1>1, <1>2, <1>3, AgeIInv, RestartIInv DEF Next

\* What a page holds or will receive, in order, is what it gets.
LEMMA ArrivedIsGot ==
  ASSUME TypeOK, NEW u \in Users
  PROVE  /\ Arrived(u) \in Seq(Push)
         /\ \A x : Holds(Arrived(u), x) <=> Gets(u, x)
         /\ \A a, b : Precedes(Arrived(u), a, b) <=> GetsBefore(u, a, b)
<1>1. Arrived(u) = cache[u] \o Arriving(u)
  BY DEF Arrived, Arriving
<1>2. cache[u] \in Seq(Push) /\ Arriving(u) \in Seq(Push)
  BY ArrivingType
<1> QED
  BY <1>1, <1>2, QueueConcat DEF Gets, GetsBefore

\* Copies are told from the answer to LOGIN by their kind or number, and of two
\* that differ in place, one comes first.
LEMMA TwoCopies ==
  ASSUME TypeOK, NEW u \in Users, NEW i \in 1..Len(Arrived(u)), NEW k \in 1..Len(Arrived(u))
  PROVE  /\ Arrived(u)[i].kind # "welcome" \/ Arrived(u)[i].n # 0 => Arrived(u)[i] \in Copy
         /\ i < k => GetsBefore(u, Arrived(u)[i], Arrived(u)[k])
         /\ i < k \/ k < i \/ i = k
<1>1. Arrived(u) \in Seq(Push) /\ Len(Arrived(u)) \in Nat
  BY ArrivedIsGot, LenProperties
<1>2. Arrived(u)[i] \in Push
  BY <1>1
<1>3. Precedes(Arrived(u), Arrived(u)[i], Arrived(u)[k]) <=>
        GetsBefore(u, Arrived(u)[i], Arrived(u)[k])
  BY ArrivedIsGot
<1>4. i < k => Precedes(Arrived(u), Arrived(u)[i], Arrived(u)[k])
  BY DEF Precedes
<1> QED
  BY <1>1, <1>2, <1>3, <1>4 DEF Push, Welcome

\* The inductive invariant says that nothing stored is missing on a page.
LEMMA DeliveredNoGap == IInv => NoGap
<1> SUFFICES ASSUME IInv, NEW u \in Users, NEW c, c = sock[u],
                    c # None, userSessions[u] = c, view[u] = "chat",
                    \A i \in 1..Len(toServer[c]) : toServer[c][i].type # "PULL_MESSAGE",
                    NEW i \in 1..Len(rows), texts[rows[i]].to = u
             PROVE  rows[i] \in missed[u] \cup {Arrived(u)[k].n : k \in 1..Len(Arrived(u))}
  BY DEF NoGap
<1>1. ~Asked(u, "PULL_MESSAGE")
  BY DEF Asked, Holds
<1>2. rows[i] \in missed[u] \/ \E m \in Copy : m.n = rows[i] /\ Gets(u, m)
  BY <1>1 DEF IInv, Delivered
<1>3. \A m : Gets(u, m) => \E k \in 1..Len(Arrived(u)) : Arrived(u)[k] = m
  BY ArrivedIsGot DEF IInv, Holds
<1> QED
  BY <1>2, <1>3

\* The inductive invariant says that the user's own texts are shown once.
LEMMA OrderedOwnOnce == IInv => OwnOnce
<1> SUFFICES ASSUME IInv, NEW u \in Users,
                    NEW i \in 1..Len(Arrived(u)), NEW k \in 1..Len(Arrived(u)),
                    pulls[u] <= 1, Arrived(u)[i].kind = "own",
                    Arrived(u)[i].n = Arrived(u)[k].n
             PROVE  i = k
  BY DEF OwnOnce
<1>1. TypeOK
  BY DEF IInv
<1>2. Arrived(u)[i] \in Copy
  BY <1>1, TwoCopies
<1>3. Arrived(u)[k].n # 0
  BY <1>2 DEF Copy, Numbers
<1>4. Arrived(u)[k] \in Copy
  BY <1>1, <1>3, TwoCopies
<1>5. ~(i < k) /\ ~(k < i)
  BY <1>1, <1>2, <1>4, TwoCopies DEF IInv, Ordered
<1> QED
  BY <1>1, <1>5, TwoCopies

\* The inductive invariant says that no copy is shown twice.
LEMMA OrderedOnce == IInv => OnceEachWay
<1> SUFFICES ASSUME IInv, NEW u \in Users,
                    NEW i \in 1..Len(Arrived(u)), NEW k \in 1..Len(Arrived(u)),
                    pulls[u] <= 1, Arrived(u)[i] # Welcome, Arrived(u)[i] = Arrived(u)[k]
             PROVE  i = k
  BY DEF OnceEachWay
<1>1. TypeOK
  BY DEF IInv
<1>2. Arrived(u)[i] \in Copy
  <2>1. Arrived(u) \in Seq(Push)
    BY <1>1, ArrivedIsGot
  <2> QED
    BY <2>1 DEF Push
<1>3. ~(i < k) /\ ~(k < i)
  BY <1>1, <1>2, TwoCopies DEF IInv, Ordered
<1> QED
  BY <1>1, <1>3, TwoCopies

\* The inductive invariant says that live copies come in the order of sending.
LEMMA OrderedInOrder == IInv => InOrder
<1> SUFFICES ASSUME IInv, NEW u \in Users,
                    NEW i \in 1..Len(Arrived(u)), NEW k \in 1..Len(Arrived(u)), i < k,
                    Arrived(u)[i].kind = "live", Arrived(u)[k].kind = "live",
                    texts[Arrived(u)[i].n].conn = texts[Arrived(u)[k].n].conn
             PROVE  Arrived(u)[i].n < Arrived(u)[k].n
  BY DEF InOrder
<1>1. TypeOK
  BY DEF IInv
<1>2. Arrived(u)[i] \in Copy /\ Arrived(u)[k] \in Copy
  BY <1>1, TwoCopies
<1> QED
  BY <1>1, <1>2, TwoCopies DEF IInv, Ordered

\* The inductive invariant holds in every reachable state.
THEOREM Invariance == Spec => []IInv
<1> QED
  BY InitIInv, NextIInv, PTL DEF Spec

\* The registry, the table, the queues and the pages are always well formed.
THEOREM TypeCorrect == Spec => []TypeOK
<1> QED
  BY Invariance, PTL DEF IInv

\* For any number of users, connections and texts, over breaks and restarts: a page
\* that is logged in and whose pull was read has, or is about to get, everything
\* stored for its user within the day, but for torn frames and a failed query.
THEOREM NothingIsMissing == Spec => []NoGap
<1> QED
  BY Invariance, DeliveredNoGap, PTL

\* A page that pulled once shows what its user typed on it once.
THEOREM OwnTextsShownOnce == Spec => []OwnOnce
<1> QED
  BY Invariance, OrderedOwnOnce, PTL

\* A page that pulled once shows each live, and each pulled, copy once.
THEOREM CopiesShownOnce == Spec => []OnceEachWay
<1> QED
  BY Invariance, OrderedOnce, PTL

\* Live texts sent over one connection arrive in the order they were sent.
THEOREM LiveInOrder == Spec => []InOrder
<1> QED
  BY Invariance, OrderedInOrder, PTL
=============================================================================
