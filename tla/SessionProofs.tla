---------------------------- MODULE SessionProofs ----------------------------
(***************************************************************************)
(* Theorems about Session, for every set of sessions, every set of         *)
(* messages and every bound on the number of sends.                        *)
(***************************************************************************)
EXTENDS Session, QueueLemmas

\* A session that was not accepted yet has no trace of activity.
Untouched ==
  \A s \in Sessions : status[s] = "none" =>
    /\ ~reading[s] /\ closeOp[s] = "none"
    /\ posted[s] = <<>> /\ write_msgs[s] = <<>> /\ wire[s] = <<>>
    /\ s \notin sessions

\* The inductive invariant.
IInv ==
  /\ TypeOK
  /\ Untouched
  /\ WriteDiscipline
  /\ Fifo
  /\ OpenIsServed
  /\ StopForgets

-----------------------------------------------------------------------------
\* The initial states satisfy the inductive invariant.
LEMMA InitIInv == Init => IInv
<1> SUFFICES ASSUME Init PROVE IInv
  OBVIOUS
<1>1. TypeOK
  BY DEF Init, TypeOK
<1>2. Fifo
  <2>1. (<<>> \o <<>>) \o <<>> = <<>>
    BY EmptySeq, ConcatEmptySeq
  <2> QED
    BY <2>1 DEF Init, Fifo
<1>3. Untouched /\ WriteDiscipline /\ OpenIsServed /\ StopForgets
  BY DEF Init, Untouched, WriteDiscipline, OpenIsServed, StopForgets
<1> QED
  BY <1>1, <1>2, <1>3 DEF IInv

\* Accepting a connection.
LEMMA AcceptIInv ==
  ASSUME IInv, NEW s \in Sessions, Accept(s)
  PROVE  IInv'
<1> USE DEF queues, history
<1>1. TypeOK'
  BY DEF IInv, TypeOK, Accept
<1>2. Untouched'
  BY DEF IInv, TypeOK, Untouched, Accept
<1>3. WriteDiscipline'
  BY DEF IInv, TypeOK, Untouched, WriteDiscipline, Accept
<1>4. Fifo'
  BY DEF IInv, Fifo, Accept
<1>5. OpenIsServed'
  BY DEF IInv, TypeOK, OpenIsServed, Accept
<1>6. StopForgets'
  BY DEF IInv, TypeOK, StopForgets, Accept
<1> QED
  BY <1>1, <1>2, <1>3, <1>4, <1>5, <1>6 DEF IInv

\* Handling a message: everything it sends is posted, behind what is posted.
LEMMA ReadMessageIInv ==
  ASSUME IInv, NEW s \in Sessions, NEW out \in Outs, ReadMessage(s, out)
  PROVE  IInv'
<1> USE DEF IInv
<1>0. /\ \A t \in Sessions : out[t] \in Seq(Messages)
      /\ \A t \in Sessions : out[t] # <<>> => status[t] # "none"
      /\ posted' = [t \in Sessions |-> posted[t] \o out[t]]
      /\ sent' = [t \in Sessions |-> sent[t] \o out[t]]
      /\ UNCHANGED <<write_msgs, writes, sessions, wire, torn>>
  BY OutsAssumption DEF ReadMessage, ReadAgain, Send
<1>1. /\ status' \in [Sessions -> {"none", "open", "closing", "closed"}]
      /\ closeOp' \in [Sessions -> {"none", "queued", "running", "done"}]
      /\ \A t \in Sessions : t # s => status'[t] = status[t] /\ closeOp'[t] = closeOp[t]
      /\ status[s] \in {"open", "closing"} /\ status'[s] \in {"open", "closing"}
      /\ status'[s] = "open" => status[s] = "open"
      /\ reading' = [reading EXCEPT ![s] = status'[s] = "open"]
  BY DEF TypeOK, ReadMessage, ReadAgain, Close
<1>2. TypeOK'
  <2>1. \A t \in Sessions : /\ posted[t] \o out[t] \in Seq(Messages)
                            /\ sent[t] \o out[t] \in Seq(Messages)
    BY <1>0, ConcatProperties DEF TypeOK
  <2>2. reading' \in [Sessions -> BOOLEAN]
    BY <1>1 DEF TypeOK
  <2> QED
    BY <1>0, <1>1, <2>1, <2>2 DEF TypeOK
<1>3. Untouched'
  <2> SUFFICES ASSUME NEW t \in Sessions, status'[t] = "none"
               PROVE  /\ ~reading'[t] /\ closeOp'[t] = "none"
                      /\ posted'[t] = <<>> /\ write_msgs'[t] = <<>>
                      /\ wire'[t] = <<>> /\ t \notin sessions'
    BY DEF Untouched
  <2>1. t # s /\ status[t] = "none"
    BY <1>1
  <2>2. posted'[t] = <<>>
    BY <1>0, <2>1, EmptySeq, ConcatEmptySeq DEF TypeOK, Untouched
  <2> QED
    BY <1>0, <1>1, <2>1, <2>2 DEF TypeOK, Untouched
<1>4. WriteDiscipline'
  BY <1>0, <1>1 DEF WriteDiscipline
<1>5. Fifo'
  <2> SUFFICES ASSUME NEW t \in Sessions
               PROVE  sent'[t] = (wire'[t] \o write_msgs'[t]) \o posted'[t]
    BY DEF Fifo
  <2> DEFINE old == wire[t] \o write_msgs[t]
  <2>1. old \in Seq(Messages)
    BY ConcatProperties DEF TypeOK
  <2>2. \A x, y, z \in Seq(Messages) : (x \o y) \o z = x \o (y \o z)
    BY ConcatAssociative, SMTT(30)
  <2>3. /\ sent[t] = old \o posted[t]
        /\ posted[t] \in Seq(Messages) /\ out[t] \in Seq(Messages)
    BY <1>0 DEF TypeOK, Fifo
  <2>4. (old \o posted[t]) \o out[t] = old \o (posted[t] \o out[t])
    BY <2>1, <2>2, <2>3
  <2> QED
    BY <1>0, <2>3, <2>4
<1>6. OpenIsServed'
  BY <1>0, <1>1 DEF TypeOK, OpenIsServed
<1>7. StopForgets'
  BY <1>0, <1>1 DEF StopForgets
<1> QED
  BY <1>2, <1>3, <1>4, <1>5, <1>6, <1>7

\* The lambda of send(): a write is started exactly when none is going on.
LEMMA RunPostedIInv ==
  ASSUME IInv, NEW s \in Sessions, RunPosted(s)
  PROVE  IInv'
<1> USE DEF IInv, stream, history
<1>1. /\ posted[s] # <<>> /\ status[s] # "none"
      /\ writes' = [writes EXCEPT ![s] = IF write_msgs[s] # <<>> THEN @ ELSE @ + 1]
      /\ write_msgs' = [write_msgs EXCEPT ![s] = Append(@, Head(posted[s]))]
      /\ posted' = [posted EXCEPT ![s] = Tail(@)]
      /\ UNCHANGED <<stream, sessions, history>>
  BY DEF RunPosted, WriteUnlessWriting, PushBack, Untouched
<1>2. /\ Head(posted[s]) \in Messages /\ Tail(posted[s]) \in Seq(Messages)
      /\ Append(write_msgs[s], Head(posted[s])) \in Seq(Messages)
      /\ Append(write_msgs[s], Head(posted[s])) # <<>>
  BY <1>1, HeadTailProperties, AppendProperties DEF TypeOK
<1>3. writes'[s] \in {0, 1} /\ writes' = [writes EXCEPT ![s] = writes'[s]]
  BY <1>1 DEF TypeOK, WriteDiscipline
<1>4. TypeOK'
  BY <1>1, <1>2, <1>3 DEF TypeOK
<1>5. Untouched'
  BY <1>1 DEF TypeOK, Untouched
<1>6. WriteDiscipline'
  BY <1>1, <1>2, <1>3 DEF TypeOK, WriteDiscipline
<1>7. Fifo'
  <2>1. /\ wire[s] \in Seq(Messages) /\ write_msgs[s] \in Seq(Messages)
        /\ posted[s] \in Seq(Messages) /\ posted[s] # <<>>
    BY <1>1 DEF TypeOK
  <2>2. \A a, b, c \in Seq(Messages) : c # <<>> =>
          (a \o Append(b, Head(c))) \o Tail(c) = (a \o b) \o c
    BY ShiftPosted
  <2>3. (wire[s] \o Append(write_msgs[s], Head(posted[s]))) \o Tail(posted[s])
          = (wire[s] \o write_msgs[s]) \o posted[s]
    BY <2>1, <2>2
  <2> QED
    BY <1>1, <2>3 DEF TypeOK, Fifo
<1>8. OpenIsServed' /\ StopForgets'
  BY <1>1 DEF OpenIsServed, StopForgets
<1> QED
  BY <1>4, <1>5, <1>6, <1>7, <1>8

\* A completed write takes the head of the queue to the wire and is followed
\* by another write exactly when something is left.
LEMMA WriteDoneIInv ==
  ASSUME IInv, NEW s \in Sessions, NEW tears \in BOOLEAN, WriteDone(s, tears)
  PROVE  IInv'
<1> USE DEF IInv
<1>1. /\ writes[s] = 1 /\ status[s] = "open" /\ write_msgs[s] # <<>>
      /\ write_msgs[s] \in Seq(Messages) /\ wire[s] \in Seq(Messages)
      /\ wire' = [wire EXCEPT ![s] = Append(@, Head(write_msgs[s]))]
      /\ write_msgs' = [write_msgs EXCEPT ![s] = Tail(@)]
      /\ UNCHANGED <<status, reading, posted, sessions, sent>>
      /\ closeOp' = [closeOp EXCEPT ![s] = closeOp'[s]]
      /\ closeOp'[s] \in {closeOp[s], "running"}
  BY DEF TypeOK, WriteDiscipline, WriteDone, WriteNext, CloseAfterWrite
<1>2. /\ Append(wire[s], Head(write_msgs[s])) \o Tail(write_msgs[s])
           = wire[s] \o write_msgs[s]
      /\ Tail(write_msgs[s]) \in Seq(Messages)
      /\ Append(wire[s], Head(write_msgs[s])) \in Seq(Messages)
  <2>1. \A a, b \in Seq(Messages) : b # <<>> =>
          /\ Append(a, Head(b)) \o Tail(b) = a \o b
          /\ Tail(b) \in Seq(Messages)
          /\ Append(a, Head(b)) \in Seq(Messages)
    BY ShiftHead
  <2> QED
    BY <1>1, <2>1
<1>3. /\ writes' = [writes EXCEPT ![s] = writes'[s]]
      /\ writes'[s] = IF Tail(write_msgs[s]) # <<>> THEN 1 ELSE 0
  BY <1>1 DEF TypeOK, WriteDone, WriteNext
<1>4. torn' \in [Sessions -> SUBSET Nat]
  <2>1. Len(wire'[s]) \in Nat
    BY <1>1, <1>2, LenProperties DEF TypeOK
  <2> QED
    BY <2>1 DEF TypeOK, WriteDone, WriteNext
<1>5. TypeOK'
  BY <1>1, <1>2, <1>3, <1>4, ZenonT(60) DEF TypeOK
<1>6. Untouched'
  BY <1>1 DEF TypeOK, Untouched
<1>7. WriteDiscipline'
  BY <1>1, <1>3 DEF TypeOK, WriteDiscipline
<1>8. Fifo'
  BY <1>1, <1>2 DEF TypeOK, Fifo
<1>9. OpenIsServed' /\ StopForgets'
  BY <1>1 DEF TypeOK, OpenIsServed, StopForgets
<1> QED
  BY <1>5, <1>6, <1>7, <1>8, <1>9

\* A failed write or read stops the session and forgets it.
LEMMA StopIInv ==
  ASSUME IInv, NEW s \in Sessions, WriteFails(s) \/ ReadFails(s)
  PROVE  IInv'
<1> USE DEF IInv, queues, history
<1>1. /\ status' = [status EXCEPT ![s] = "closed"]
      /\ sessions' = sessions \ {s}
      /\ UNCHANGED <<posted, write_msgs, history>>
  BY DEF WriteFails, ReadFails, Stop
<1>2. /\ closeOp' = [closeOp EXCEPT ![s] = closeOp'[s]]
      /\ closeOp'[s] \in {closeOp[s], "running"}
  BY DEF TypeOK, WriteFails, ReadFails, CloseAfterWrite
<1>3. /\ writes' = [writes EXCEPT ![s] = writes'[s]]
      /\ writes'[s] \in {0, writes[s]}
  <2>1. writes \in [Sessions -> {0, 1}] /\ writes[s] \in {0, 1}
    BY DEF TypeOK
  <2>2. CASE WriteFails(s)
    BY <2>1, <2>2 DEF WriteFails
  <2>3. CASE ReadFails(s)
    BY <2>1, <2>3 DEF ReadFails
  <2> QED
    BY <2>2, <2>3
<1>4. /\ reading' = [reading EXCEPT ![s] = reading'[s]]
      /\ reading'[s] \in {FALSE, reading[s]}
  BY DEF TypeOK, WriteFails, ReadFails
<1>5. TypeOK'
  <2>1. closeOp' \in [Sessions -> {"none", "queued", "running", "done"}]
    BY <1>2 DEF TypeOK
  <2>2. writes' \in [Sessions -> {0, 1}]
    <3>1. writes'[s] \in {0, 1}
      BY <1>3 DEF TypeOK
    <3> QED
      BY <1>3, <3>1 DEF TypeOK
  <2>3. reading' \in [Sessions -> BOOLEAN]
    BY <1>4 DEF TypeOK
  <2> QED
    BY <1>1, <2>1, <2>2, <2>3 DEF TypeOK
<1>6. Untouched'
  BY <1>1, <1>2, <1>4 DEF TypeOK, Untouched
<1>7. WriteDiscipline'
  BY <1>1, <1>3 DEF TypeOK, WriteDiscipline
<1>8. Fifo'
  BY <1>1 DEF Fifo
<1>9. OpenIsServed' /\ StopForgets'
  BY <1>1, <1>2, <1>4 DEF TypeOK, OpenIsServed, StopForgets
<1> QED
  BY <1>5, <1>6, <1>7, <1>8, <1>9

\* The steps of the two closing handshakes.
LEMMA ClosingIInv ==
  ASSUME IInv, NEW s \in Sessions, PeerClose(s) \/ CloseStart(s) \/ CloseDone(s)
  PROVE  IInv'
<1> USE DEF IInv, queues, history
<1>1. /\ UNCHANGED <<reading, queues, sessions, history>>
      /\ status' = [status EXCEPT ![s] = status'[s]]
      /\ status[s] # "none" /\ status'[s] \in {"closing", "closed"}
      /\ closeOp' = [closeOp EXCEPT ![s] = closeOp'[s]]
      /\ closeOp'[s] \in {closeOp[s], "done"}
      /\ status'[s] = "closed" => closeOp'[s] = "done"
  BY DEF TypeOK, Untouched, PeerClose, CloseStart, CloseDone
<1>2. TypeOK'
  BY <1>1 DEF TypeOK
<1>3. Untouched' /\ WriteDiscipline'
  BY <1>1 DEF TypeOK, Untouched, WriteDiscipline
<1>4. Fifo'
  BY <1>1 DEF Fifo
<1>5. OpenIsServed' /\ StopForgets'
  BY <1>1 DEF TypeOK, OpenIsServed, StopForgets
<1> QED
  BY <1>2, <1>3, <1>4, <1>5

\* Every step preserves the inductive invariant.
LEMMA NextIInv == IInv /\ [Next]_vars => IInv'
<1> SUFFICES ASSUME IInv, [Next]_vars PROVE IInv'
  OBVIOUS
<1>1. CASE UNCHANGED vars
  BY <1>1 DEF IInv, vars, stream, queues, history, TypeOK, Untouched,
              WriteDiscipline, Fifo, OpenIsServed, StopForgets
<1>2. ASSUME NEW s \in Sessions, Accept(s) PROVE IInv'
  BY <1>2, AcceptIInv
<1>3. ASSUME NEW s \in Sessions, NEW out \in Outs, ReadMessage(s, out) PROVE IInv'
  BY <1>3, ReadMessageIInv
<1>4. ASSUME NEW s \in Sessions, RunPosted(s) PROVE IInv'
  BY <1>4, RunPostedIInv
<1>5. ASSUME NEW s \in Sessions, NEW tears \in BOOLEAN, WriteDone(s, tears) PROVE IInv'
  BY <1>5, WriteDoneIInv
<1>6. ASSUME NEW s \in Sessions, WriteFails(s) \/ ReadFails(s) PROVE IInv'
  BY <1>6, StopIInv
<1>7. ASSUME NEW s \in Sessions, PeerClose(s) \/ CloseStart(s) \/ CloseDone(s)
      PROVE  IInv'
  BY <1>7, ClosingIInv
<1> QED
  BY <1>1, <1>2, <1>3, <1>4, <1>5, <1>6, <1>7 DEF Next

\* The inductive invariant holds in every reachable state.
THEOREM Invariance == Spec => []IInv
<1> QED
  BY InitIInv, NextIInv, PTL DEF Spec

-----------------------------------------------------------------------------
\* The state of the connections is always well formed; in particular a
\* stream never has two async_writes outstanding.
THEOREM TypeCorrect == Spec => []TypeOK
<1> QED
  BY Invariance, PTL DEF IInv

\* An open connection with a non-empty queue is being written, and only then.
THEOREM WritesDisciplined == Spec => []WriteDiscipline
<1> QED
  BY Invariance, PTL DEF IInv

\* send() and write() keep every message, once and in order, from the call
\* of send() to the wire.
THEOREM MessagesInOrder == Spec => []Fifo
<1> QED
  BY Invariance, PTL DEF IInv

\* No handler leaves an open connection without a read outstanding.
THEOREM OpenSessionsServed == Spec => []OpenIsServed
<1> QED
  BY Invariance, PTL DEF IInv

\* A closed session still in sessions_ is one the server closed itself.
THEOREM StoppedSessionsForgotten == Spec => []StopForgets
<1> QED
  BY Invariance, PTL DEF IInv

-----------------------------------------------------------------------------
\* The initial states map to the initial states of FifoChannel.
LEMMA ChannelInit == Init => Channel!Init
<1> QED
  BY DEF Init, Channel!Init, Link

\* A step that changes neither the histories nor any Link is a stutter.
LEMMA ChannelStutter ==
  ASSUME IInv, NEW s \in Sessions, UNCHANGED history,
         RunPosted(s) \/ PeerClose(s) \/ CloseStart(s)
  PROVE  UNCHANGED Channel!vars
<1>1. \/ UNCHANGED status
      \/ status[s] = "open" /\ status' = [status EXCEPT ![s] = "closing"]
  BY DEF RunPosted, PeerClose, CloseStart, stream
<1>2. Link' = Link
  BY <1>1 DEF IInv, TypeOK, Link
<1> QED
  BY <1>2 DEF Channel!vars, history

\* A step that ends a session, or merely confirms its end.
LEMMA ChannelDown ==
  ASSUME IInv, NEW s \in Sessions, WriteFails(s) \/ ReadFails(s) \/ CloseDone(s)
  PROVE  [Channel!Next]_(Channel!vars)
<1>1. /\ status' = [status EXCEPT ![s] = "closed"]
      /\ status[s] # "none"
      /\ UNCHANGED history
  BY DEF IInv, TypeOK, Untouched, WriteDiscipline, WriteFails, ReadFails, CloseDone, Stop
<1>2. CASE status[s] = "closed"
  <2>1. Link' = Link
    BY <1>1, <1>2 DEF IInv, TypeOK, Link
  <2> QED
    BY <1>1, <2>1 DEF Channel!vars, history
<1>3. CASE status[s] \in {"open", "closing"}
  <2>1. Link[s] = "up" /\ Link' = [Link EXCEPT ![s] = "down"]
    BY <1>1, <1>3 DEF IInv, TypeOK, Link
  <2>2. Channel!Down(s)
    BY <1>1, <2>1 DEF Channel!Down, history
  <2> QED
    BY <2>2 DEF Channel!Next
<1> QED
  BY <1>1, <1>2, <1>3 DEF IInv, TypeOK

\* A completed write is a delivery of the next message in line.
LEMMA ChannelDeliver ==
  ASSUME IInv, NEW s \in Sessions, NEW tears \in BOOLEAN, WriteDone(s, tears)
  PROVE  Channel!Deliver(s)
<1>1. /\ status[s] = "open" /\ UNCHANGED <<status, sent>>
      /\ write_msgs[s] # <<>>
      /\ wire' = [wire EXCEPT ![s] = Append(@, Head(write_msgs[s]))]
      /\ wire[s] \in Seq(Messages) /\ write_msgs[s] \in Seq(Messages)
      /\ posted[s] \in Seq(Messages)
      /\ sent[s] = (wire[s] \o write_msgs[s]) \o posted[s]
  BY DEF IInv, TypeOK, Fifo, WriteDiscipline, WriteDone, WriteNext
<1>2. Link' = Link /\ Link[s] = "up"
  BY <1>1 DEF Link
<1>4. /\ Len(wire[s]) < Len(sent[s])
      /\ sent[s][Len(wire[s]) + 1] = Head(write_msgs[s])
  <2>1. \A a, b, c \in Seq(Messages) : b # <<>> =>
          /\ Len(a) < Len((a \o b) \o c)
          /\ ((a \o b) \o c)[Len(a) + 1] = Head(b)
    BY NextInLine
  <2>2. LET all == (wire[s] \o write_msgs[s]) \o posted[s]
        IN  Len(wire[s]) < Len(all) /\ all[Len(wire[s]) + 1] = Head(write_msgs[s])
    BY <1>1, <2>1, Zenon
  <2>3. sent[s] = (wire[s] \o write_msgs[s]) \o posted[s]
    BY <1>1
  <2> QED
    BY <2>2, <2>3, Zenon
<1>5. Len(wire'[s]) = Len(wire[s]) + 1
  BY <1>1, HeadTailProperties, AppendProperties DEF IInv, TypeOK
<1>6. \/ torn' = torn
      \/ torn' = [torn EXCEPT ![s] = @ \cup {Len(wire[s]) + 1}]
  BY <1>5 DEF WriteDone, WriteNext
<1> QED
  BY <1>1, <1>2, <1>4, <1>6 DEF Channel!Deliver

\* Every step of the sessions is a step of the channels or a stutter.
LEMMA ChannelNext == IInv /\ [Next]_vars => [Channel!Next]_(Channel!vars)
<1> SUFFICES ASSUME IInv, [Next]_vars PROVE [Channel!Next]_(Channel!vars)
  OBVIOUS
<1>1. CASE UNCHANGED vars
  BY <1>1 DEF vars, stream, queues, history, Channel!vars, Link
<1>2. ASSUME NEW s \in Sessions, Accept(s) PROVE Channel!Open(s)
  BY <1>2 DEF IInv, TypeOK, Accept, history, Channel!Open, Link
<1>3. ASSUME NEW s \in Sessions, NEW out \in Outs, ReadMessage(s, out)
      PROVE  Channel!Send(out)
  <2>1. /\ \A t \in Sessions : out[t] # <<>> => status[t] # "none"
        /\ sent' = [t \in Sessions |-> sent[t] \o out[t]]
        /\ UNCHANGED <<wire, torn>>
    BY <1>3 DEF ReadMessage, ReadAgain, Send
  <2>2. \/ UNCHANGED status
        \/ status[s] = "open" /\ status' = [status EXCEPT ![s] = "closing"]
        \/ status[s] = "closing" /\ status' = [status EXCEPT ![s] = "closing"]
    BY <1>3 DEF ReadMessage, ReadAgain, Close
  <2>3. Link' = Link
    BY <2>2 DEF IInv, TypeOK, Link
  <2>4. \A t \in Sessions : Link[t] = "new" => status[t] = "none"
    BY DEF IInv, TypeOK, Link
  <2> QED
    BY <2>1, <2>3, <2>4 DEF Channel!Send
<1>4. ASSUME NEW s \in Sessions, NEW tears \in BOOLEAN, WriteDone(s, tears)
      PROVE  Channel!Deliver(s)
  BY <1>4, ChannelDeliver
<1>5. ASSUME NEW s \in Sessions, RunPosted(s) \/ PeerClose(s) \/ CloseStart(s)
      PROVE  UNCHANGED Channel!vars
  BY <1>5, ChannelStutter DEF RunPosted, PeerClose, CloseStart, history
<1>6. ASSUME NEW s \in Sessions, WriteFails(s) \/ ReadFails(s) \/ CloseDone(s)
      PROVE  [Channel!Next]_(Channel!vars)
  BY <1>6, ChannelDown
<1>7. CASE Next
  <2> PICK s \in Sessions :
        \/ Accept(s)
        \/ \E out \in Outs : ReadMessage(s, out)
        \/ \E tears \in BOOLEAN : WriteDone(s, tears)
        \/ RunPosted(s) \/ PeerClose(s) \/ CloseStart(s)
        \/ WriteFails(s) \/ ReadFails(s) \/ CloseDone(s)
    BY <1>7 DEF Next
  <2> QED
    BY <1>2, <1>3, <1>4, <1>5, <1>6 DEF Channel!Next
<1> QED
  BY <1>1, <1>7

\* The sessions implement FIFO channels, for any number of sessions, messages
\* and sends.
THEOREM SessionsAreChannels == Spec => ImplementsChannel
<1> QED
  BY ChannelInit, ChannelNext, Invariance, PTL DEF Spec, ImplementsChannel, Channel!Spec
=============================================================================
