-------------------------- MODULE LoginServiceProofs --------------------------
(***************************************************************************)
(* Theorems about LoginService, for any pages, sessions, users and bounds. *)
(***************************************************************************)
EXTENDS LoginService, SequenceTheorems, TLAPS

NoClose(q) == \A i \in 1..Len(q) : q[i] # CloseFrame
CloseLast(q) == \A i \in 1..Len(q) : q[i] = CloseFrame => i = Len(q)
Has(q, type) == \E i \in 1..Len(q) : q[i].type = type

\* A session that was not accepted yet is unknown everywhere.
Fresh ==
  \A s \in Sessions : status[s] = "none" =>
    /\ toServer[s] = <<>> /\ closeOp[s] = "none" /\ ~Bound(s)
    /\ \A p \in Pages : sock[p] # s
    /\ \A u \in Users : <<u, s>> \notin granted

\* Each page has a connection of its own, and its close frame is the last
\* thing it sends on it.
PagesSeparate ==
  /\ \A p \in Pages : open[p] => sock[p] \in Sessions /\ NoClose(toServer[sock[p]])
  /\ \A p, r \in Pages : sock[p] = sock[r] /\ sock[p] # None => p = r
  /\ \A s \in Sessions : CloseLast(toServer[s])

\* The stream follows the close operation, and no orphan is read.
Closing ==
  \A s \in Sessions :
    /\ reading[s] => status[s] # "orphaned"
    /\ closeOp[s] = "done" => status[s] = "closed"
    /\ status[s] = "closing" => closeOp[s] # "none"

WillSend(p, s) == sock[p] = s /\ open[p] /\ userId[p] # None

\* Over a connection that holds, whoever was or may be bound to a session will
\* be followed by a LOGOUT: it is on its way, or the page has yet to leave.
WillLogout ==
  \A s \in Sessions :
    /\ status[s] = "open" /\ s \notin broken /\ closeOp[s] = "none"
    /\ Bound(s) \/ Has(toServer[s], "LOGIN")
    => Has(toServer[s], "LOGOUT") \/ \E p \in Pages : WillSend(p, s)

\* The inductive invariant.
IInv ==
  /\ TypeOK /\ Fresh /\ PagesSeparate /\ Closing /\ WillLogout
  /\ OnlineIsBound /\ Released

-----------------------------------------------------------------------------
\* What an empty channel holds.
LEMMA EmptyChannel ==
  /\ <<>> \in Seq(Message) /\ NoClose(<<>>) /\ CloseLast(<<>>)
  /\ \A type : ~Has(<<>>, type)
<1>1. <<>> \in Seq(Message) /\ Len(<<>>) = 0
  BY EmptySeq
<1> QED
  BY <1>1 DEF NoClose, CloseLast, Has

\* A login is added to a channel whose page has not left.
LEMMA ChannelLogin ==
  ASSUME NEW q \in Seq(Message), NEW u \in Users, NoClose(q)
  PROVE  LET new == Append(q, Login(u))
         IN  /\ new \in Seq(Message) /\ NoClose(new) /\ CloseLast(new)
             /\ \A type : Has(q, type) => Has(new, type)
<1> DEFINE new == Append(q, Login(u))
<1>1. Login(u) \in Message /\ Login(u) # CloseFrame
  BY DEF Login, Message, CloseFrame
<1>2. /\ new \in Seq(Message) /\ Len(new) = Len(q) + 1
      /\ \A i \in 1..Len(q) : new[i] = q[i]
      /\ new[Len(q) + 1] = Login(u)
  BY <1>1, AppendProperties
<1>3. Len(q) \in Nat
  BY LenProperties
<1> HIDE DEF new
<1>4. NoClose(new)
  BY <1>1, <1>2, <1>3 DEF NoClose
<1>5. CloseLast(new)
  BY <1>4 DEF NoClose, CloseLast
<1>6. \A type : Has(q, type) => Has(new, type)
  BY <1>2, <1>3 DEF Has
<1> QED
  BY <1>2, <1>4, <1>5, <1>6 DEF new

\* A close frame is added to a channel whose page has not left.
LEMMA ChannelClose ==
  ASSUME NEW q \in Seq(Message), NoClose(q)
  PROVE  LET new == q \o <<CloseFrame>>
         IN  /\ new \in Seq(Message) /\ CloseLast(new)
             /\ \A type : Has(q, type) => Has(new, type)
             /\ Has(new, "LOGIN") => Has(q, "LOGIN")
<1> DEFINE new == q \o <<CloseFrame>>
<1>1. CloseFrame \in Message /\ CloseFrame.type # "LOGIN"
  BY DEF Message, CloseFrame
<1>2. new = Append(q, CloseFrame)
  BY <1>1, AppendIsConcat
<1>3. /\ new \in Seq(Message) /\ Len(new) = Len(q) + 1
      /\ \A i \in 1..Len(q) : new[i] = q[i]
      /\ new[Len(q) + 1] = CloseFrame
  BY <1>1, <1>2, AppendProperties
<1>4. Len(q) \in Nat
  BY LenProperties
<1> HIDE DEF new
<1>5. CloseLast(new)
  BY <1>3, <1>4 DEF CloseLast, NoClose
<1>6. \A type : Has(q, type) => Has(new, type)
  BY <1>3, <1>4 DEF Has
<1>7. Has(new, "LOGIN") => Has(q, "LOGIN")
  BY <1>1, <1>3, <1>4 DEF Has
<1> QED
  BY <1>3, <1>5, <1>6, <1>7 DEF new

\* A logout is added to a channel whose page has not left.
LEMMA ChannelLogout ==
  ASSUME NEW q \in Seq(Message), NEW u \in Users, NoClose(q)
  PROVE  LET new == q \o <<Logout(u)>>
         IN  /\ new \in Seq(Message) /\ NoClose(new) /\ Has(new, "LOGOUT")
             /\ \A type : Has(q, type) => Has(new, type)
             /\ Has(new, "LOGIN") => Has(q, "LOGIN")
<1> DEFINE new == q \o <<Logout(u)>>
<1>1. /\ Logout(u) \in Message /\ Logout(u) # CloseFrame
      /\ Logout(u).type = "LOGOUT"
  BY DEF Logout, Message, CloseFrame
<1>2. new = Append(q, Logout(u))
  BY <1>1, AppendIsConcat
<1>3. /\ new \in Seq(Message) /\ Len(new) = Len(q) + 1
      /\ \A i \in 1..Len(q) : new[i] = q[i]
      /\ new[Len(q) + 1] = Logout(u)
  BY <1>1, <1>2, AppendProperties
<1>4. Len(q) \in Nat
  BY LenProperties
<1> HIDE DEF new
<1>5. NoClose(new)
  BY <1>1, <1>3, <1>4 DEF NoClose
<1>6. Has(new, "LOGOUT") /\ \A type : Has(q, type) => Has(new, type)
  BY <1>1, <1>3, <1>4 DEF Has
<1>7. Has(new, "LOGIN") => Has(q, "LOGIN")
  BY <1>1, <1>3, <1>4 DEF Has
<1> QED
  BY <1>3, <1>5, <1>6, <1>7 DEF new

\* The first message of a channel is read.
LEMMA ChannelRead ==
  ASSUME NEW q \in Seq(Message), q # <<>>
  PROVE  /\ Head(q) \in Message /\ Tail(q) \in Seq(Message)
         /\ NoClose(q) => NoClose(Tail(q)) /\ Head(q) # CloseFrame
         /\ CloseLast(q) => CloseLast(Tail(q))
         /\ \A type : Has(Tail(q), type) => Has(q, type)
         /\ \A type : Has(q, type) => Has(Tail(q), type) \/ Head(q).type = type
         /\ Has(q, Head(q).type)
         /\ CloseLast(q) /\ Head(q) = CloseFrame => Tail(q) = <<>> /\ ~Has(q, "LOGOUT")
<1>1. /\ Head(q) \in Message /\ Tail(q) \in Seq(Message) /\ Head(q) = q[1]
      /\ Len(Tail(q)) = Len(q) - 1 /\ Len(q) \in Nat /\ Len(q) >= 1
      /\ \A i \in 1..Len(Tail(q)) : Tail(q)[i] = q[i + 1]
  BY HeadTailProperties, LenProperties, EmptySeq
<1>2. NoClose(q) => NoClose(Tail(q)) /\ Head(q) # CloseFrame
  BY <1>1 DEF NoClose
<1>3. ASSUME CloseLast(q) PROVE CloseLast(Tail(q))
  <2> SUFFICES ASSUME NEW i \in 1..Len(Tail(q)), Tail(q)[i] = CloseFrame
               PROVE  i = Len(Tail(q))
    BY DEF CloseLast
  <2>1. i + 1 \in 1..Len(q) /\ q[i + 1] = CloseFrame
    BY <1>1
  <2>2. i + 1 = Len(q)
    BY <1>3, <2>1 DEF CloseLast
  <2>3. i \in Int /\ Len(q) \in Int /\ Len(Tail(q)) = Len(q) - 1
    BY <1>1
  <2> QED
    BY <2>2, <2>3
<1>4. \A type : Has(Tail(q), type) => Has(q, type)
  BY <1>1 DEF Has
<1>5. ASSUME NEW type, Has(q, type), Head(q).type # type PROVE Has(Tail(q), type)
  <2>1. PICK i \in 1..Len(q) : q[i].type = type
    BY <1>5 DEF Has
  <2>2. i # 1 /\ i - 1 \in 1..Len(Tail(q))
    BY <1>1, <1>5, <2>1
  <2>3. Tail(q)[i - 1] = q[i]
    BY <1>1, <2>1, <2>2
  <2> QED
    BY <2>1, <2>2, <2>3 DEF Has
<1>6. Has(q, Head(q).type)
  BY <1>1 DEF Has
<1>7. ASSUME CloseLast(q), Head(q) = CloseFrame PROVE Tail(q) = <<>> /\ ~Has(q, "LOGOUT")
  <2>1. Len(q) = 1
    <3>1. 1 \in 1..Len(q) /\ q[1] = CloseFrame
      BY <1>1, <1>7
    <3> QED
      BY <1>7, <3>1 DEF CloseLast
  <2>2. CloseFrame.type # "LOGOUT"
    BY DEF CloseFrame
  <2>3. Tail(q) = <<>>
    <3>1. \A r \in Seq(Message) : Len(r) = 0 => r = <<>>
      BY EmptySeq
    <3>2. Len(Tail(q)) = 0
      BY <1>1, <2>1
    <3> QED
      BY <1>1, <3>1, <3>2
  <2> QED
    BY <1>1, <1>7, <2>1, <2>2, <2>3 DEF Has
<1> QED
  BY <1>1, <1>2, <1>3, <1>4, <1>5, <1>6, <1>7

\* The initial states satisfy the inductive invariant.
LEMMA InitIInv == Init => IInv
<1> SUFFICES ASSUME Init PROVE IInv
  OBVIOUS
<1>1. \A S : <<>> \in Seq(S)
  BY EmptySeq
<1>2. TypeOK
  BY <1>1 DEF Init, TypeOK
<1>3. \A s \in Sessions : ~Bound(s)
  BY NoneAssumption DEF Init, Bound
<1>4. Fresh
  BY <1>3, NoneAssumption DEF Init, Fresh
<1>5. PagesSeparate
  BY EmptyChannel DEF Init, PagesSeparate
<1>6. Closing /\ WillLogout /\ OnlineIsBound /\ Released
  BY DEF Init, Closing, WillLogout, OnlineIsBound, Released
<1> QED
  BY <1>2, <1>4, <1>5, <1>6 DEF IInv

-----------------------------------------------------------------------------
\* What the pages do leaves the registry alone.
LEMMA ConnectIInv ==
  ASSUME IInv, NEW p \in Pages, NEW s \in Sessions, Connect(p, s)
  PROVE  IInv'
<1>1. /\ status[s] = "none" /\ status' = [status EXCEPT ![s] = "open"]
      /\ reading' = [reading EXCEPT ![s] = TRUE]
      /\ sock' = [sock EXCEPT ![p] = s] /\ open' = [open EXCEPT ![p] = TRUE]
      /\ UNCHANGED <<closeOp, userSessions, granted, foreign, toServer, toClient, broken,
                     restarts, userId, view>>
      /\ sock[p] # None => sock[p] \in broken \/ status[sock[p]] # "open"
  BY DEF Connect, Ended, registry, network
<1>2. TypeOK'
  <2>1. status' \in [Sessions -> {"none", "open", "closing", "closed", "orphaned"}]
    BY <1>1 DEF IInv, TypeOK
  <2>2. reading' \in [Sessions -> BOOLEAN] /\ open' \in [Pages -> BOOLEAN]
    BY <1>1 DEF IInv, TypeOK
  <2>3. sock' \in [Pages -> Sessions \cup {None}]
    BY <1>1 DEF IInv, TypeOK
  <2> QED
    BY <1>1, <2>1, <2>2, <2>3 DEF IInv, TypeOK
<1>3. /\ toServer[s] = <<>> /\ ~Bound(s) /\ closeOp[s] = "none"
      /\ \A r \in Pages : sock[r] # s
      /\ \A u \in Users : <<u, s>> \notin granted
  BY <1>1 DEF IInv, Fresh
<1>4. \A t \in Sessions : Bound(t)' = Bound(t)
  BY <1>1 DEF Bound
<1>5. /\ \A t \in Sessions : status'[t] = IF t = s THEN "open" ELSE status[t]
      /\ \A r \in Pages : sock'[r] = (IF r = p THEN s ELSE sock[r])
      /\ \A r \in Pages : open'[r] = (IF r = p THEN TRUE ELSE open[r])
  BY <1>1 DEF IInv, TypeOK
<1>6. Fresh'
  BY <1>1, <1>4, <1>5 DEF IInv, Fresh
<1>7. PagesSeparate'
  <2>1. \A r \in Pages : open'[r] => sock'[r] \in Sessions /\ NoClose(toServer[sock'[r]])
    BY <1>3, <1>5, EmptyChannel DEF IInv, PagesSeparate
  <2>2. \A r, t \in Pages : sock'[r] = sock'[t] /\ sock'[r] # None => r = t
    BY <1>3, <1>5 DEF IInv, PagesSeparate
  <2> QED
    BY <1>1, <2>1, <2>2 DEF IInv, PagesSeparate
<1>8. Closing'
  BY <1>1, <1>5 DEF IInv, Closing
<1>9. WillLogout'
  <2> SUFFICES ASSUME NEW t \in Sessions, status'[t] = "open", t \notin broken, closeOp[t] = "none",
                      Bound(t) \/ Has(toServer[t], "LOGIN")
               PROVE  Has(toServer[t], "LOGOUT") \/ \E r \in Pages : WillSend(r, t)'
    BY <1>1, <1>4 DEF WillLogout
  <2>1. t # s
    BY <1>3, EmptyChannel
  <2>2. Has(toServer[t], "LOGOUT") \/ \E r \in Pages : WillSend(r, t)
    BY <1>5, <2>1 DEF IInv, WillLogout
  <2>3. ASSUME NEW r \in Pages, WillSend(r, t) PROVE WillSend(r, t)'
    <3>1. r # p
      BY <1>1, <1>5, <2>1, <2>3, NoneAssumption DEF WillSend
    <3> QED
      BY <1>1, <1>5, <2>3, <3>1 DEF WillSend
  <2> QED
    BY <2>2, <2>3
<1>10. OnlineIsBound' /\ Released'
  BY <1>1, <1>3, <1>4, <1>5 DEF IInv, OnlineIsBound, Released
<1> QED
  BY <1>2, <1>6, <1>7, <1>8, <1>9, <1>10 DEF IInv

LEMMA SubmitLoginIInv ==
  ASSUME IInv, NEW p \in Pages, NEW u \in Users, SubmitLogin(p, u)
  PROVE  IInv'
<1> DEFINE new == Append(toServer[sock[p]], Login(u))
<1>1. /\ userId' = [userId EXCEPT ![p] = u]
      /\ toServer' = IF open[p] THEN [toServer EXCEPT ![sock[p]] = new] ELSE toServer
      /\ UNCHANGED <<status, reading, closeOp, userSessions, granted, foreign, toClient,
                     broken, restarts, sock, open, view>>
  BY DEF SubmitLogin, server, registry
<1>2. sock[p] \in Sessions
  BY DEF SubmitLogin, IInv, TypeOK
<1>3. open[p] => /\ new \in Seq(Message) /\ NoClose(new) /\ CloseLast(new)
                 /\ \A type : Has(toServer[sock[p]], type) => Has(new, type)
  BY <1>2, ChannelLogin DEF IInv, TypeOK, PagesSeparate
<1> HIDE DEF new
<1>4. \A t \in Sessions : toServer'[t] = IF open[p] /\ t = sock[p] THEN new ELSE toServer[t]
  BY <1>1, <1>2 DEF IInv, TypeOK
<1>5. \A r \in Pages : userId'[r] = IF r = p THEN u ELSE userId[r]
  BY <1>1 DEF IInv, TypeOK
<1>6. TypeOK'
  <2>1. toServer' \in [Sessions -> Seq(Message)]
    BY <1>1, <1>3 DEF IInv, TypeOK
  <2>2. userId' \in [Pages -> Users \cup {None}]
    BY <1>1 DEF IInv, TypeOK
  <2> QED
    BY <1>1, <2>1, <2>2 DEF IInv, TypeOK
<1>7. \A t \in Sessions : Bound(t)' = Bound(t)
  BY <1>1 DEF Bound
<1>8. Fresh'
  BY <1>1, <1>4, <1>7 DEF IInv, Fresh
<1>9. PagesSeparate'
  BY <1>1, <1>3, <1>4 DEF IInv, PagesSeparate
<1>10. Closing'
  BY <1>1 DEF IInv, Closing
<1>11. WillLogout'
  <2> SUFFICES ASSUME NEW t \in Sessions, status[t] = "open", t \notin broken, closeOp[t] = "none",
                      Bound(t) \/ Has(toServer'[t], "LOGIN")
               PROVE  Has(toServer'[t], "LOGOUT") \/ \E r \in Pages : WillSend(r, t)'
    BY <1>1, <1>7 DEF WillLogout
  <2>1. \A r \in Pages : WillSend(r, t) => WillSend(r, t)'
    BY <1>1, <1>5, NoneAssumption DEF WillSend
  <2>2. CASE open[p] /\ t = sock[p]
    BY <1>1, <1>5, <2>2, NoneAssumption DEF WillSend
  <2>3. CASE ~(open[p] /\ t = sock[p])
    BY <1>4, <2>1, <2>3 DEF IInv, WillLogout
  <2> QED
    BY <2>2, <2>3
<1>12. OnlineIsBound' /\ Released'
  BY <1>1, <1>7 DEF IInv, OnlineIsBound, Released
<1> QED
  BY <1>6, <1>8, <1>9, <1>10, <1>11, <1>12 DEF IInv

LEMMA ReceiveIInv ==
  ASSUME IInv, NEW p \in Pages, Receive(p)
  PROVE  IInv'
<1>1. /\ open[p] /\ toClient[sock[p]] # <<>>
      /\ view' = [view EXCEPT ![p] = IF Head(toClient[sock[p]]) = "success" THEN "chat" ELSE @]
      /\ toClient' = [toClient EXCEPT ![sock[p]] = Tail(@)]
      /\ UNCHANGED <<status, reading, closeOp, userSessions, granted, foreign, toServer,
                     broken, restarts, sock, open, userId>>
  BY DEF Receive, server, registry
<1>2. sock[p] \in Sessions
  BY <1>1 DEF IInv, PagesSeparate
<1>3. TypeOK'
  <2>1. Tail(toClient[sock[p]]) \in Seq({"success", "fail"})
    BY <1>1, <1>2, HeadTailProperties DEF IInv, TypeOK
  <2>2. view' \in [Pages -> {"login", "chat", "gone"}]
    BY <1>1 DEF IInv, TypeOK
  <2> QED
    BY <1>1, <2>1, <2>2 DEF IInv, TypeOK
<1>4. \A t \in Sessions : Bound(t)' = Bound(t)
  BY <1>1 DEF Bound
<1>5. \A r \in Pages, t \in Sessions : WillSend(r, t)' = WillSend(r, t)
  BY <1>1 DEF WillSend
<1>6. Fresh' /\ PagesSeparate' /\ Closing' /\ WillLogout'
  BY <1>1, <1>4, <1>5 DEF IInv, Fresh, PagesSeparate, Closing, WillLogout
<1>7. OnlineIsBound' /\ Released'
  BY <1>1, <1>4 DEF IInv, OnlineIsBound, Released
<1> QED
  BY <1>3, <1>6, <1>7 DEF IInv

LEMMA UnloadIInv ==
  ASSUME IInv, NEW p \in Pages, Unload(p)
  PROVE  IInv'
<1> DEFINE bye == (IF userId[p] = None THEN <<>> ELSE <<Logout(userId[p])>>)
           old == toServer[sock[p]]
           new == old \o bye \o <<CloseFrame>>
<1>1. /\ toServer' = IF ~open[p] THEN toServer ELSE [toServer EXCEPT ![sock[p]] = new]
      /\ open' = [open EXCEPT ![p] = FALSE]
      /\ UNCHANGED <<status, reading, closeOp, userSessions, granted, foreign, toClient,
                     broken, restarts, sock, userId>>
  BY DEF Unload, Goodbye, server, registry
<1>2. open[p] => sock[p] \in Sessions
  BY DEF IInv, PagesSeparate
<1>3. open[p] => /\ new \in Seq(Message) /\ CloseLast(new)
                 /\ \A type : Has(old, type) => Has(new, type)
                 /\ Has(new, "LOGIN") => Has(old, "LOGIN")
                 /\ userId[p] # None => Has(new, "LOGOUT")
  <2> SUFFICES ASSUME open[p]
               PROVE  /\ new \in Seq(Message) /\ CloseLast(new)
                      /\ \A type : Has(old, type) => Has(new, type)
                      /\ Has(new, "LOGIN") => Has(old, "LOGIN")
                      /\ userId[p] # None => Has(new, "LOGOUT")
    OBVIOUS
  <2>1. old \in Seq(Message) /\ NoClose(old)
    BY <1>2 DEF IInv, TypeOK, PagesSeparate
  <2>2. CASE userId[p] = None
    <3>1. old \o bye = old
      BY <2>1, <2>2, ConcatEmptySeq
    <3> HIDE DEF old, bye
    <3> QED
      BY <2>1, <2>2, <3>1, ChannelClose
  <2>3. CASE userId[p] # None
    <3> DEFINE mid == old \o <<Logout(userId[p])>>
    <3>1. userId[p] \in Users
      BY <2>3 DEF IInv, TypeOK
    <3> HIDE DEF old
    <3>2. /\ mid \in Seq(Message) /\ NoClose(mid) /\ Has(mid, "LOGOUT")
          /\ \A type : Has(old, type) => Has(mid, type)
          /\ Has(mid, "LOGIN") => Has(old, "LOGIN")
      BY <2>1, <3>1, ChannelLogout
    <3>3. new = mid \o <<CloseFrame>>
      BY <2>3
    <3> HIDE DEF mid, new
    <3> QED
      BY <3>2, <3>3, ChannelClose
  <2> QED
    BY <2>2, <2>3
<1> HIDE DEF new
<1>4. \A t \in Sessions : toServer'[t] = IF open[p] /\ t = sock[p] THEN new ELSE toServer[t]
  BY <1>1, <1>2 DEF IInv, TypeOK
<1>5. \A r \in Pages : open'[r] = (r # p /\ open[r])
  BY <1>1 DEF IInv, TypeOK
<1>6. TypeOK'
  <2>1. toServer' \in [Sessions -> Seq(Message)]
    BY <1>1, <1>3 DEF IInv, TypeOK
  <2>2. open' \in [Pages -> BOOLEAN] /\ view' \in [Pages -> {"login", "chat", "gone"}]
    BY DEF Unload, IInv, TypeOK
  <2> QED
    BY <1>1, <2>1, <2>2 DEF IInv, TypeOK
<1>7. \A t \in Sessions : Bound(t)' = Bound(t)
  BY <1>1 DEF Bound
<1>8. Fresh'
  BY <1>1, <1>4, <1>7 DEF IInv, Fresh
<1>9. PagesSeparate'
  <2>1. ASSUME NEW r \in Pages, open'[r]
        PROVE  sock[r] \in Sessions /\ NoClose(toServer'[sock[r]])
    <3>1. r # p /\ open[r] /\ sock[r] \in Sessions /\ NoClose(toServer[sock[r]])
      BY <1>5, <2>1 DEF IInv, PagesSeparate
    <3>2. sock[r] # sock[p]
      BY <3>1, NoneAssumption DEF IInv, PagesSeparate
    <3> QED
      BY <1>4, <3>1, <3>2
  <2>2. \A t \in Sessions : CloseLast(toServer'[t])
    BY <1>3, <1>4 DEF IInv, PagesSeparate
  <2> QED
    BY <1>1, <2>1, <2>2 DEF IInv, PagesSeparate
<1>10. Closing'
  BY <1>1 DEF IInv, Closing
<1>11. WillLogout'
  <2> SUFFICES ASSUME NEW t \in Sessions, status[t] = "open", t \notin broken, closeOp[t] = "none",
                      Bound(t) \/ Has(toServer'[t], "LOGIN")
               PROVE  Has(toServer'[t], "LOGOUT") \/ \E r \in Pages : WillSend(r, t)'
    BY <1>1, <1>7 DEF WillLogout
  <2>1. Has(toServer[t], "LOGOUT") \/ \E r \in Pages : WillSend(r, t)
    BY <1>3, <1>4 DEF IInv, WillLogout
  <2>2. Has(toServer[t], "LOGOUT") => Has(toServer'[t], "LOGOUT")
    BY <1>3, <1>4
  <2>3. ASSUME NEW r \in Pages, WillSend(r, t)
        PROVE  Has(toServer'[t], "LOGOUT") \/ WillSend(r, t)'
    <3>1. CASE r = p
      BY <1>3, <1>4, <2>3, <3>1 DEF WillSend
    <3>2. CASE r # p
      BY <1>1, <1>5, <2>3, <3>2 DEF WillSend
    <3> QED
      BY <3>1, <3>2
  <2> QED
    BY <2>1, <2>2, <2>3
<1>12. OnlineIsBound' /\ Released'
  BY <1>1, <1>7 DEF IInv, OnlineIsBound, Released
<1> QED
  BY <1>6, <1>8, <1>9, <1>10, <1>11, <1>12 DEF IInv

LEMMA DropIInv ==
  ASSUME IInv, NEW p \in Pages, Drop(p)
  PROVE  IInv'
<1>1. /\ sock[p] # None /\ broken' = broken \cup {sock[p]}
      /\ open' = [open EXCEPT ![p] = FALSE]
      /\ UNCHANGED <<status, reading, closeOp, userSessions, granted, foreign, toServer,
                     toClient, restarts, sock, userId>>
  BY DEF Drop, server, registry
<1>2. sock[p] \in Sessions
  BY <1>1 DEF IInv, TypeOK
<1>3. \A r \in Pages : open'[r] = (r # p /\ open[r])
  BY <1>1 DEF IInv, TypeOK
<1>4. TypeOK'
  <2>1. view' \in [Pages -> {"login", "chat", "gone"}] /\ open' \in [Pages -> BOOLEAN]
    BY DEF Drop, IInv, TypeOK
  <2> QED
    BY <1>1, <1>2, <2>1 DEF IInv, TypeOK
<1>5. \A t \in Sessions : Bound(t)' = Bound(t)
  BY <1>1 DEF Bound
<1>6. Fresh' /\ PagesSeparate' /\ Closing'
  BY <1>1, <1>3, <1>5 DEF IInv, Fresh, PagesSeparate, Closing
<1>7. WillLogout'
  <2> SUFFICES ASSUME NEW t \in Sessions, status[t] = "open", t \notin broken', closeOp[t] = "none",
                      Bound(t) \/ Has(toServer[t], "LOGIN")
               PROVE  Has(toServer[t], "LOGOUT") \/ \E r \in Pages : WillSend(r, t)'
    BY <1>1, <1>5 DEF WillLogout
  <2>1. Has(toServer[t], "LOGOUT") \/ \E r \in Pages : WillSend(r, t)
    BY <1>1 DEF IInv, WillLogout
  <2>2. \A r \in Pages : WillSend(r, t) => WillSend(r, t)'
    BY <1>1, <1>3 DEF WillSend
  <2> QED
    BY <2>1, <2>2
<1>8. OnlineIsBound' /\ Released'
  BY <1>1, <1>5 DEF IInv, OnlineIsBound, Released
<1> QED
  BY <1>4, <1>6, <1>7, <1>8 DEF IInv

-----------------------------------------------------------------------------
\* What reading one message from s does to the channels.
LEMMA ReadFacts ==
  ASSUME IInv, NEW s \in Sessions, toServer[s] # <<>>,
         toServer' = [toServer EXCEPT ![s] = Tail(@)]
  PROVE  /\ Head(toServer[s]) \in Message
         /\ status[s] # "none"
         /\ toServer' \in [Sessions -> Seq(Message)]
         /\ \A t \in Sessions : t # s => toServer'[t] = toServer[t]
         /\ toServer'[s] = Tail(toServer[s])
         /\ UNCHANGED <<sock, open>> => PagesSeparate'
         /\ \A t \in Sessions : \A type : Has(toServer'[t], type) => Has(toServer[t], type)
         /\ \A t \in Sessions : \A type :
              Has(toServer[t], type) =>
                Has(toServer'[t], type) \/ (t = s /\ type = Head(toServer[s]).type)
         /\ Has(toServer[s], Head(toServer[s]).type)
<1>1. toServer \in [Sessions -> Seq(Message)] /\ toServer[s] \in Seq(Message)
  BY DEF IInv, TypeOK
<1>2. /\ Head(toServer[s]) \in Message /\ Tail(toServer[s]) \in Seq(Message)
      /\ NoClose(toServer[s]) => NoClose(Tail(toServer[s]))
      /\ CloseLast(toServer[s]) => CloseLast(Tail(toServer[s]))
      /\ \A type : Has(Tail(toServer[s]), type) => Has(toServer[s], type)
      /\ \A type : Has(toServer[s], type) =>
                     Has(Tail(toServer[s]), type) \/ Head(toServer[s]).type = type
      /\ Has(toServer[s], Head(toServer[s]).type)
  BY <1>1, ChannelRead
<1>3. \A t \in Sessions : toServer'[t] = IF t = s THEN Tail(toServer[s]) ELSE toServer[t]
  BY <1>1
<1>4. toServer' \in [Sessions -> Seq(Message)]
  BY <1>1, <1>2
<1>5. UNCHANGED <<sock, open>> => PagesSeparate'
  BY <1>2, <1>3 DEF IInv, PagesSeparate
<1>6. status[s] # "none"
  BY DEF IInv, Fresh
<1> QED
  BY <1>2, <1>3, <1>4, <1>5, <1>6

\* Nothing that a page may still send changes when the pages do nothing.
LEMMA SameWillSend ==
  ASSUME UNCHANGED pages
  PROVE  \A p \in Pages, t \in Sessions : WillSend(p, t)' = WillSend(p, t)
BY DEF pages, WillSend

LEMMA HandleLoginIInv ==
  ASSUME IInv, NEW s \in Sessions, NEW auth \in BOOLEAN, HandleLogin(s, auth)
  PROVE  IInv'
<1> DEFINE u == Head(toServer[s]).user
           accepted == auth /\ userSessions[u] = None
           answer == IF accepted THEN "success" ELSE "fail"
<1>1. /\ toServer[s] # <<>> /\ toServer' = [toServer EXCEPT ![s] = Tail(@)]
      /\ Head(toServer[s]).type = "LOGIN"
      /\ status[s] = "open" \/ (status[s] = "closing" /\ closeOp[s] = "running")
      /\ userSessions' = [userSessions EXCEPT ![u] = IF accepted THEN s ELSE @]
      /\ granted' = IF accepted THEN granted \cup {<<u, s>>} ELSE granted
      /\ toClient' = [toClient EXCEPT ![s] = Append(@, answer)]
      /\ reading' = [reading EXCEPT ![s] = status'[s] = "open"]
      /\ UNCHANGED <<status, closeOp, foreign, broken, restarts, sock, open, userId, view>>
  BY DEF HandleLogin, Accepts, Read, ReadAgain, pages
<1>2. /\ Head(toServer[s]) \in Message /\ toServer' \in [Sessions -> Seq(Message)]
      /\ \A t \in Sessions : t # s => toServer'[t] = toServer[t]
      /\ PagesSeparate'
      /\ \A t \in Sessions : \A type : Has(toServer'[t], type) => Has(toServer[t], type)
      /\ \A t \in Sessions : Has(toServer[t], "LOGOUT") => Has(toServer'[t], "LOGOUT")
      /\ Has(toServer[s], "LOGIN")
  BY <1>1, ReadFacts, ZenonT(60)
<1>3. u \in Users
  BY <1>1, <1>2 DEF Message, CloseFrame
<1> HIDE DEF u
<1>4. TypeOK'
  <2>1. userSessions' \in [Users -> Sessions \cup {None}]
    BY <1>1 DEF IInv, TypeOK
  <2>2. toClient' \in [Sessions -> Seq({"success", "fail"})]
    <3>1. answer \in {"success", "fail"} /\ toClient[s] \in Seq({"success", "fail"})
      BY DEF IInv, TypeOK
    <3> HIDE DEF answer
    <3>2. Append(toClient[s], answer) \in Seq({"success", "fail"})
      BY <3>1, AppendProperties
    <3> QED
      BY <1>1, <3>2 DEF IInv, TypeOK
  <2>3. granted' \in SUBSET (Users \X Sessions)
    BY <1>1, <1>3 DEF IInv, TypeOK
  <2>4. reading' \in [Sessions -> BOOLEAN]
    BY <1>1 DEF IInv, TypeOK
  <2> QED
    BY <1>1, <1>2, <2>1, <2>2, <2>3, <2>4 DEF IInv, TypeOK
<1>5. \A w \in Users : userSessions'[w] = IF w = u /\ accepted THEN s ELSE userSessions[w]
  BY <1>1, <1>3 DEF IInv, TypeOK
<1>6. \A t \in Sessions : t # s => (Bound(t)' <=> Bound(t))
  BY <1>5, NoneAssumption DEF Bound
<1>7. Fresh'
  <2> SUFFICES ASSUME NEW t \in Sessions, status[t] = "none"
               PROVE  /\ toServer'[t] = <<>> /\ closeOp[t] = "none" /\ ~Bound(t)'
                      /\ \A p \in Pages : sock[p] # t
                      /\ \A w \in Users : <<w, t>> \notin granted'
    BY <1>1 DEF Fresh
  <2>1. t # s
    BY <1>1
  <2> QED
    BY <1>1, <1>2, <1>6, <2>1 DEF IInv, Fresh
<1>8. Closing'
  BY <1>1 DEF IInv, Closing
<1>9. WillLogout'
  <2> SUFFICES ASSUME NEW t \in Sessions, status[t] = "open", t \notin broken, closeOp[t] = "none",
                      Bound(t)' \/ Has(toServer'[t], "LOGIN")
               PROVE  Has(toServer'[t], "LOGOUT") \/ \E p \in Pages : WillSend(p, t)'
    BY <1>1 DEF WillLogout
  <2>1. Bound(t) \/ Has(toServer[t], "LOGIN")
    BY <1>2, <1>6
  <2>2. Has(toServer[t], "LOGOUT") \/ \E p \in Pages : WillSend(p, t)
    BY <2>1 DEF IInv, WillLogout
  <2> QED
    BY <1>1, <1>2, <2>2, SameWillSend DEF pages
<1>10. OnlineIsBound'
  BY <1>1, <1>3, <1>5, NoneAssumption DEF IInv, OnlineIsBound
<1>11. Released'
  <2> SUFFICES ASSUME NEW t \in Sessions, status[t] = "closed",
                      closeOp[t] = "done" \/ (closeOp[t] = "none" /\ t \notin broken)
               PROVE  ~Bound(t)'
    BY <1>1 DEF Released
  <2> QED
    BY <1>1, <1>6 DEF IInv, Released
<1> QED
  BY <1>2, <1>4, <1>7, <1>8, <1>9, <1>10, <1>11 DEF IInv

LEMMA HandleLogoutIInv ==
  ASSUME IInv, NEW s \in Sessions, NEW writing \in BOOLEAN, HandleLogout(s, writing)
  PROVE  IInv'
<1> DEFINE u == Head(toServer[s]).user
<1>1. /\ toServer[s] # <<>> /\ toServer' = [toServer EXCEPT ![s] = Tail(@)]
      /\ Head(toServer[s]).type = "LOGOUT"
      /\ status[s] = "open" \/ (status[s] = "closing" /\ closeOp[s] = "running")
      /\ userSessions' = [userSessions EXCEPT ![u] = None]
      /\ granted' = granted \ {<<u, s>>}
      /\ foreign' = IF <<u, s>> \in granted THEN foreign ELSE foreign \cup {u}
      /\ closeOp[s] = "none"
      /\ closeOp' = [closeOp EXCEPT ![s] = IF writing THEN "queued" ELSE "running"]
      /\ status' = [status EXCEPT ![s] = IF writing THEN @ ELSE "closing"]
      /\ reading' = [reading EXCEPT ![s] = status'[s] = "open"]
      /\ UNCHANGED <<toClient, broken, restarts, sock, open, userId, view>>
  BY DEF HandleLogout, Close, Read, ReadAgain, pages
<1>2. /\ Head(toServer[s]) \in Message /\ toServer' \in [Sessions -> Seq(Message)]
      /\ \A t \in Sessions : t # s => toServer'[t] = toServer[t]
      /\ PagesSeparate'
  BY <1>1, ReadFacts
<1>3. u \in Users
  BY <1>1, <1>2 DEF Message, CloseFrame
<1> HIDE DEF u
<1>4. TypeOK'
  <2>1. userSessions' \in [Users -> Sessions \cup {None}]
    BY <1>1 DEF IInv, TypeOK
  <2>2. status' \in [Sessions -> {"none", "open", "closing", "closed", "orphaned"}]
    BY <1>1 DEF IInv, TypeOK
  <2>3. closeOp' \in [Sessions -> {"none", "queued", "running", "done"}]
    BY <1>1 DEF IInv, TypeOK
  <2>4. reading' \in [Sessions -> BOOLEAN]
    BY <1>1 DEF IInv, TypeOK
  <2>5. granted' \in SUBSET (Users \X Sessions) /\ foreign' \in SUBSET Users
    BY <1>1, <1>3 DEF IInv, TypeOK
  <2> QED
    BY <1>1, <1>2, <2>1, <2>2, <2>3, <2>4, <2>5 DEF IInv, TypeOK
<1>5. /\ \A t \in Sessions : t # s => reading'[t] = reading[t]
      /\ status'[s] \in {"open", "closing"} /\ closeOp'[s] \in {"queued", "running"}
      /\ \A t \in Sessions : t # s => status'[t] = status[t] /\ closeOp'[t] = closeOp[t]
      /\ \A w \in Users : userSessions'[w] = IF w = u THEN None ELSE userSessions[w]
  BY <1>1, <1>3 DEF IInv, TypeOK
<1>6. \A t \in Sessions : Bound(t)' => Bound(t)
  BY <1>5, NoneAssumption DEF Bound
<1>7. Fresh'
  BY <1>1, <1>2, <1>5, <1>6 DEF IInv, Fresh
<1>8. Closing'
  BY <1>5 DEF IInv, Closing
<1>9. WillLogout'
  <2> SUFFICES ASSUME NEW t \in Sessions,
                      status'[t] = "open", t \notin broken, closeOp'[t] = "none",
                      Bound(t)' \/ Has(toServer'[t], "LOGIN")
               PROVE  Has(toServer'[t], "LOGOUT") \/ \E p \in Pages : WillSend(p, t)'
    BY <1>1 DEF WillLogout
  <2>1. t # s /\ toServer'[t] = toServer[t] /\ status[t] = "open" /\ closeOp[t] = "none"
    BY <1>2, <1>5
  <2>2. Has(toServer[t], "LOGOUT") \/ \E p \in Pages : WillSend(p, t)
    BY <1>6, <2>1 DEF IInv, WillLogout
  <2> QED
    BY <1>1, <2>1, <2>2, SameWillSend DEF pages
<1>10. OnlineIsBound'
  <2> SUFFICES ASSUME NEW w \in Users, NEW t \in Sessions,
                      <<w, t>> \in granted', w \notin foreign', status'[t] \in {"open", "closing"}
               PROVE  userSessions'[w] = t
    BY DEF OnlineIsBound
  <2>1. userSessions[w] = t
    BY <1>1, <1>5 DEF IInv, OnlineIsBound
  <2>2. CASE w = u
    <3>1. <<u, s>> \in granted /\ u \notin foreign
      BY <1>1, <2>2
    <3>2. userSessions[u] = s
      BY <1>1, <1>3, <3>1 DEF IInv, OnlineIsBound
    <3> QED
      BY <1>1, <2>1, <2>2, <3>2
  <2> QED
    BY <1>5, <2>1, <2>2
<1>11. Released'
  BY <1>1, <1>5, <1>6 DEF IInv, Released
<1> QED
  BY <1>2, <1>4, <1>7, <1>8, <1>9, <1>10, <1>11 DEF IInv

LEMMA HandleCloseIInv ==
  ASSUME IInv, NEW s \in Sessions, HandleClose(s)
  PROVE  IInv'
<1>1. /\ reading[s] /\ toServer[s] # <<>> /\ toServer' = [toServer EXCEPT ![s] = Tail(@)]
      /\ Head(toServer[s]) = CloseFrame
      /\ status' = [status EXCEPT ![s] = "closed"]
      /\ reading' = [reading EXCEPT ![s] = FALSE]
      /\ UNCHANGED <<closeOp, userSessions, granted, foreign, toClient, broken, restarts,
                     sock, open, userId, view>>
  BY DEF HandleClose, Stop, registry, pages
<1>2. /\ status[s] # "none" /\ toServer' \in [Sessions -> Seq(Message)]
      /\ \A t \in Sessions : t # s => toServer'[t] = toServer[t]
      /\ PagesSeparate'
  BY <1>1, ReadFacts
<1>3. TypeOK'
  <2>1. status' \in [Sessions -> {"none", "open", "closing", "closed", "orphaned"}]
    BY <1>1 DEF IInv, TypeOK
  <2>2. reading' \in [Sessions -> BOOLEAN]
    BY <1>1 DEF IInv, TypeOK
  <2> QED
    BY <1>1, <1>2, <2>1, <2>2 DEF IInv, TypeOK
<1>4. \A t \in Sessions : status'[t] = IF t = s THEN "closed" ELSE status[t]
  BY <1>1 DEF IInv, TypeOK
<1>5. \A t \in Sessions : Bound(t)' = Bound(t)
  BY <1>1 DEF Bound
<1>6. Fresh' /\ Closing'
  BY <1>1, <1>2, <1>4, <1>5 DEF IInv, Fresh, Closing
<1>7. WillLogout'
  <2> SUFFICES ASSUME NEW t \in Sessions, status'[t] = "open", t \notin broken, closeOp[t] = "none",
                      Bound(t) \/ Has(toServer'[t], "LOGIN")
               PROVE  Has(toServer'[t], "LOGOUT") \/ \E p \in Pages : WillSend(p, t)'
    BY <1>1, <1>5 DEF WillLogout
  <2>1. t # s /\ toServer'[t] = toServer[t] /\ status[t] = "open"
    BY <1>2, <1>4
  <2> QED
    BY <1>1, <2>1, SameWillSend DEF pages, IInv, WillLogout
<1>8. OnlineIsBound'
  BY <1>1, <1>4 DEF IInv, OnlineIsBound
<1>9. Released'
  <2>1. ASSUME closeOp[s] = "none", s \notin broken PROVE ~Bound(s)
    <3>1. CASE status[s] = "closed"
      BY <2>1, <3>1 DEF IInv, Released
    <3>2. CASE status[s] = "open"
      <4>1. ~Has(toServer[s], "LOGOUT") /\ ~NoClose(toServer[s])
        BY <1>1, ChannelRead DEF IInv, TypeOK, PagesSeparate
      <4>2. ~\E p \in Pages : WillSend(p, s)
        BY <4>1 DEF WillSend, IInv, PagesSeparate
      <4> QED
        BY <2>1, <3>2, <4>1, <4>2 DEF IInv, WillLogout
    <3> QED
      BY <1>1, <1>2, <2>1, <3>1, <3>2 DEF IInv, TypeOK, Closing
  <2>2. closeOp[s] = "done" => ~Bound(s)
    BY DEF IInv, Closing, Released
  <2> QED
    BY <1>1, <1>4, <1>5, <2>1, <2>2 DEF IInv, Released
<1> QED
  BY <1>2, <1>3, <1>6, <1>7, <1>8, <1>9 DEF IInv

LEMMA ReadFailsIInv ==
  ASSUME IInv, NEW s \in Sessions, ReadFails(s)
  PROVE  IInv'
<1>1. /\ s \in broken \/ status[s] = "closed"
      /\ status' = [status EXCEPT ![s] = "closed"]
      /\ reading' = [reading EXCEPT ![s] = FALSE]
      /\ UNCHANGED <<closeOp, userSessions, granted, foreign, toServer, toClient, broken,
                     restarts, sock, open, userId, view>>
  BY DEF ReadFails, Stop, registry, network, pages
<1>2. TypeOK'
  <2>1. status' \in [Sessions -> {"none", "open", "closing", "closed", "orphaned"}]
    BY <1>1 DEF IInv, TypeOK
  <2>2. reading' \in [Sessions -> BOOLEAN]
    BY <1>1 DEF IInv, TypeOK
  <2> QED
    BY <1>1, <2>1, <2>2 DEF IInv, TypeOK
<1>3. \A t \in Sessions : status'[t] = IF t = s THEN "closed" ELSE status[t]
  BY <1>1 DEF IInv, TypeOK
<1>4. \A t \in Sessions : Bound(t)' = Bound(t)
  BY <1>1 DEF Bound
<1>5. Fresh' /\ PagesSeparate' /\ Closing'
  BY <1>1, <1>3, <1>4 DEF IInv, Fresh, PagesSeparate, Closing
<1>6. WillLogout'
  BY <1>1, <1>3, <1>4, SameWillSend DEF pages, IInv, WillLogout
<1>7. OnlineIsBound'
  BY <1>1, <1>3 DEF IInv, OnlineIsBound
<1>8. Released'
  <2>1. closeOp[s] = "done" => ~Bound(s)
    BY DEF IInv, Closing, Released
  <2> QED
    BY <1>1, <1>3, <1>4, <2>1 DEF IInv, Released
<1> QED
  BY <1>2, <1>5, <1>6, <1>7, <1>8 DEF IInv

LEMMA CloseStartIInv ==
  ASSUME IInv, NEW s \in Sessions, CloseStart(s)
  PROVE  IInv'
<1>1. /\ closeOp[s] = "queued"
      /\ closeOp' = [closeOp EXCEPT ![s] = "running"]
      /\ status' = [status EXCEPT ![s] = IF @ = "open" THEN "closing" ELSE @]
      /\ UNCHANGED <<reading, userSessions, granted, foreign, toServer, toClient, broken,
                     restarts, sock, open, userId, view>>
  BY DEF CloseStart, registry, network, pages
<1>2. TypeOK'
  <2>1. status' \in [Sessions -> {"none", "open", "closing", "closed", "orphaned"}]
    BY <1>1 DEF IInv, TypeOK
  <2>2. closeOp' \in [Sessions -> {"none", "queued", "running", "done"}]
    BY <1>1 DEF IInv, TypeOK
  <2> QED
    BY <1>1, <2>1, <2>2 DEF IInv, TypeOK
<1>3. /\ closeOp'[s] = "running"
      /\ status'[s] = IF status[s] = "open" THEN "closing" ELSE status[s]
      /\ \A t \in Sessions : t # s => closeOp'[t] = closeOp[t] /\ status'[t] = status[t]
  BY <1>1 DEF IInv, TypeOK
<1>4. \A t \in Sessions : Bound(t)' = Bound(t)
  BY <1>1 DEF Bound
<1>5. Fresh' /\ PagesSeparate' /\ Closing'
  BY <1>1, <1>3, <1>4 DEF IInv, Fresh, PagesSeparate, Closing
<1>6. WillLogout'
  BY <1>1, <1>3, <1>4, SameWillSend DEF pages, IInv, WillLogout
<1>7. OnlineIsBound' /\ Released'
  BY <1>1, <1>3, <1>4 DEF IInv, OnlineIsBound, Released
<1> QED
  BY <1>2, <1>5, <1>6, <1>7 DEF IInv

LEMMA CloseDoneIInv ==
  ASSUME IInv, NEW s \in Sessions, CloseDone(s)
  PROVE  IInv'
<1>1. /\ closeOp[s] = "running"
      /\ status' = [status EXCEPT ![s] = "closed"]
      /\ closeOp' = [closeOp EXCEPT ![s] = "done"]
      /\ userSessions' = [u \in Users |-> IF userSessions[u] = s THEN None ELSE userSessions[u]]
      /\ UNCHANGED <<reading, granted, foreign, toServer, toClient, broken,
                     restarts, sock, open, userId, view>>
  BY DEF CloseDone, HandleDisconnection, network, pages
<1>2. TypeOK'
  <2>1. status' \in [Sessions -> {"none", "open", "closing", "closed", "orphaned"}]
    BY <1>1 DEF IInv, TypeOK
  <2>2. closeOp' \in [Sessions -> {"none", "queued", "running", "done"}]
    BY <1>1 DEF IInv, TypeOK
  <2>3. userSessions' \in [Users -> Sessions \cup {None}]
    BY <1>1 DEF IInv, TypeOK
  <2> QED
    BY <1>1, <2>1, <2>2, <2>3 DEF IInv, TypeOK
<1>3. /\ closeOp'[s] = "done" /\ status'[s] = "closed"
      /\ \A t \in Sessions : t # s => closeOp'[t] = closeOp[t] /\ status'[t] = status[t]
  BY <1>1 DEF IInv, TypeOK
<1>4. ~Bound(s)' /\ \A t \in Sessions : Bound(t)' => Bound(t)
  BY <1>1, NoneAssumption DEF Bound
<1>5. Fresh' /\ PagesSeparate' /\ Closing'
  BY <1>1, <1>3, <1>4 DEF IInv, Fresh, PagesSeparate, Closing
<1>6. WillLogout'
  BY <1>1, <1>3, <1>4, SameWillSend DEF pages, IInv, WillLogout
<1>7. OnlineIsBound'
  BY <1>1, <1>3 DEF IInv, OnlineIsBound
<1>8. Released'
  BY <1>1, <1>3, <1>4 DEF IInv, Released
<1> QED
  BY <1>2, <1>5, <1>6, <1>7, <1>8 DEF IInv

LEMMA RestartIInv ==
  ASSUME IInv, Restart
  PROVE  IInv'
<1>1. /\ restarts' = restarts + 1
      /\ status' = [s \in Sessions |->
           IF status[s] \in {"none", "orphaned"} THEN status[s]
           ELSE IF Outlives(s) THEN "orphaned" ELSE "closed"]
      /\ reading' = [s \in Sessions |-> FALSE]
      /\ closeOp' = [s \in Sessions |-> "none"]
      /\ userSessions' = [u \in Users |-> None]
      /\ toServer' = [s \in Sessions |-> <<>>]
      /\ toClient' = [s \in Sessions |-> <<>>]
      /\ UNCHANGED <<granted, foreign, broken, sock, open, userId, view>>
  BY DEF Restart, pages
<1>2. \A S : <<>> \in Seq(S)
  BY EmptySeq
<1>3. TypeOK'
  BY <1>1, <1>2 DEF IInv, TypeOK
<1>4. \A t \in Sessions : ~Bound(t)'
  BY <1>1, NoneAssumption DEF Bound
<1>5. Fresh' /\ Closing' /\ WillLogout'
  BY <1>1, <1>4 DEF IInv, Fresh, Closing, WillLogout
<1>6. PagesSeparate'
  BY <1>1, EmptyChannel DEF IInv, PagesSeparate
<1>7. OnlineIsBound' /\ Released'
  BY <1>1, <1>4 DEF IInv, OnlineIsBound, Released
<1> QED
  BY <1>3, <1>5, <1>6, <1>7 DEF IInv

-----------------------------------------------------------------------------
\* Every step preserves the inductive invariant.
LEMMA NextIInv == IInv /\ [Next]_vars => IInv'
<1> SUFFICES ASSUME IInv, [Next]_vars PROVE IInv'
  OBVIOUS
<1>1. CASE UNCHANGED vars
  <2>1. UNCHANGED <<status, reading, closeOp, userSessions, granted, foreign, toServer, toClient,
                    broken, restarts, sock, open, userId, view>>
    BY <1>1 DEF vars, server, registry, network, pages
  <2>2. \A t \in Sessions : Bound(t)' = Bound(t)
    BY <2>1 DEF Bound
  <2>3. TypeOK' /\ Fresh' /\ PagesSeparate' /\ Closing'
    BY <2>1, <2>2 DEF IInv, TypeOK, Fresh, PagesSeparate, Closing
  <2>4. WillLogout' /\ OnlineIsBound' /\ Released'
    BY <2>1, <2>2, SameWillSend DEF pages, IInv, WillLogout, OnlineIsBound, Released
  <2> QED
    BY <2>3, <2>4 DEF IInv
<1>2. ASSUME NEW p \in Pages, PageStep(p) PROVE IInv'
  BY <1>2, ConnectIInv, SubmitLoginIInv, ReceiveIInv, UnloadIInv, DropIInv DEF PageStep
<1>3. ASSUME NEW s \in Sessions, Handle(s) PROVE IInv'
  BY <1>3, HandleLoginIInv, HandleLogoutIInv, HandleCloseIInv DEF Handle
<1> QED
  BY <1>1, <1>2, <1>3, ReadFailsIInv, CloseStartIInv, CloseDoneIInv, RestartIInv DEF Next

\* The inductive invariant holds in every reachable state.
THEOREM Invariance == Spec => []IInv
<1> QED
  BY InitIInv, NextIInv, PTL DEF Spec

\* The registry, the connections and the pages are always well formed.
THEOREM TypeCorrect == Spec => []TypeOK
<1> QED
  BY Invariance, PTL DEF IInv

\* Whoever was told "success" on a live session is reached through it.
THEOREM LoggedInIsBound == Spec => []OnlineIsBound
<1> QED
  BY Invariance, PTL DEF IInv

\* Nobody is bound to a session that was closed or left over a connection that
\* held, for any number of pages, sessions and users.
THEOREM LeftSessionsReleased == Spec => []Released
<1> QED
  BY Invariance, PTL DEF IInv
=============================================================================
