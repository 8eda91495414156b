------------------------------- MODULE Session -------------------------------
(***************************************************************************)
(* The connections of the chat server: class Session and the set           *)
(* Server::sessions_.  One thread runs every completion handler            *)
(* (io_context.run() in main), so a handler is one action; what            *)
(* interleaves is the order in which reads, writes, posted sends and       *)
(* closes complete on the several connections.                             *)
(*                                                                         *)
(* The stream (boost::beast) is external and is modelled by what the       *)
(* handlers can observe: is_open(), which outstanding operation completes  *)
(* and with what result.  Business logic is abstracted to the only two     *)
(* things it does to sessions: it sends messages to some of them (Outs)    *)
(* and, for LOGOUT, closes the one the message came from.                  *)
(***************************************************************************)
EXTENDS Naturals, Sequences

CONSTANTS
  Sessions,   \* the connections that may ever be accepted
  Messages,   \* what a handler may send
  Outs,       \* per handler run: the messages it sends to each session
  MaxSends    \* bound on the messages sent to one session

ASSUME OutsAssumption == Outs \subseteq [Sessions -> Seq(Messages)]
ASSUME MaxSendsAssumption == MaxSends \in Nat

VARIABLES
  status,     \* the state of ws_ that is_open() reads; "none" before accept
  reading,    \* an async_read is outstanding
  closeOp,    \* the async_close started by close()
  posted,     \* lambdas posted by send() that have not run yet
  write_msgs, \* write_msgs_
  writes,     \* outstanding async_write operations
  sessions,   \* Server::sessions_
  sent,       \* history: messages handed to send()
  wire,       \* history: messages whose async_write succeeded
  torn        \* history: positions in wire of frames not sent from live memory

stream == <<status, reading, closeOp>>
queues == <<posted, write_msgs, writes>>
history == <<sent, wire, torn>>
vars == <<stream, queues, sessions, history>>

TypeOK ==
  /\ status \in [Sessions -> {"none", "open", "closing", "closed"}]
  /\ reading \in [Sessions -> BOOLEAN]
  /\ closeOp \in [Sessions -> {"none", "queued", "running", "done"}]
  /\ posted \in [Sessions -> Seq(Messages)]
  /\ write_msgs \in [Sessions -> Seq(Messages)]
  /\ writes \in [Sessions -> {0, 1}]
  /\ sessions \in SUBSET Sessions
  /\ sent \in [Sessions -> Seq(Messages)]
  /\ wire \in [Sessions -> Seq(Messages)]
  /\ torn \in [Sessions -> SUBSET Nat]

Init ==
  /\ status = [s \in Sessions |-> "none"]
  /\ reading = [s \in Sessions |-> FALSE]
  /\ closeOp = [s \in Sessions |-> "none"]
  /\ posted = [s \in Sessions |-> <<>>]
  /\ write_msgs = [s \in Sessions |-> <<>>]
  /\ writes = [s \in Sessions |-> 0]
  /\ sessions = {}
  /\ sent = [s \in Sessions |-> <<>>]
  /\ wire = [s \in Sessions |-> <<>>]
  /\ torn = [s \in Sessions |-> {}]

-----------------------------------------------------------------------------
\* The WebSocket handshake succeeded: the Session enters sessions_ and starts.
Accept(s) ==
  /\ status[s] = "none"
  /\ status' = [status EXCEPT ![s] = "open"]
  /\ sessions' = sessions \cup {s}
  /\ reading' = [reading EXCEPT ![s] = TRUE]
  /\ UNCHANGED <<closeOp, queues, history>>

\* send(): the push and the first write() run later, in a posted lambda.
\* userSessions_ may still hold a dead session, so "closed" is a legal target.
Send(out) ==
  /\ \A t \in Sessions : /\ out[t] # <<>> => status[t] # "none"
                         /\ Len(sent[t]) + Len(out[t]) <= MaxSends
  /\ posted' = [t \in Sessions |-> posted[t] \o out[t]]
  /\ sent' = [t \in Sessions |-> sent[t] \o out[t]]

\* close() calls async_close: it takes the stream at once (is_open() turns
\* false before close() returns) unless a write is in progress.
Close(s) ==
  /\ closeOp[s] = "none"
  /\ IF writes[s] > 0
     THEN /\ closeOp' = [closeOp EXCEPT ![s] = "queued"]
          /\ UNCHANGED status
     ELSE /\ closeOp' = [closeOp EXCEPT ![s] = "running"]
          /\ status' = [status EXCEPT ![s] = "closing"]

\* Mutant: a session that has to be closed is not read any more.
ReadAgainUnlessClosing(s) ==
  reading' = [reading EXCEPT ![s] = status'[s] = "open" /\ closeOp'[s] = "none"]

\* The next read, if the stream is still open after the handler.
ReadAgain(s) == reading' = [reading EXCEPT ![s] = status'[s] = "open"]

\* A message arrived: handleIncomingMessage, then the next read.
ReadMessage(s, out) ==
  /\ reading[s]
  /\ status[s] = "open" \/ (status[s] = "closing" /\ closeOp[s] = "running")
  /\ Send(out)
  /\ Close(s) \/ UNCHANGED <<status, closeOp>>
  /\ ReadAgain(s)
  /\ UNCHANGED <<write_msgs, writes, sessions, wire, torn>>

\* Mutant: every message starts a write of its own.
WriteAlways(s) == writes' = [writes EXCEPT ![s] = @ + 1]

\* write() unless the queue shows that a write is already going on.
WriteUnlessWriting(s) ==
  writes' = [writes EXCEPT ![s] = IF write_msgs[s] # <<>> THEN @ ELSE @ + 1]

\* Mutant: push_front.
PushFront(s, m) == write_msgs' = [write_msgs EXCEPT ![s] = <<m>> \o @]

PushBack(s, m) == write_msgs' = [write_msgs EXCEPT ![s] = Append(@, m)]

\* The lambda posted by send().
RunPosted(s) ==
  /\ posted[s] # <<>>
  /\ WriteUnlessWriting(s)
  /\ PushBack(s, Head(posted[s]))
  /\ posted' = [posted EXCEPT ![s] = Tail(@)]
  /\ UNCHANGED <<stream, sessions, history>>

\* A queued close takes the stream as soon as the write in progress ends.
CloseAfterWrite(s) ==
  closeOp' = [closeOp EXCEPT ![s] = IF @ = "queued" THEN "running" ELSE @]

\* Mutant: the queue is measured as if pop_front had not happened yet.
WriteNextOffByOne(s) ==
  LET again == Len(write_msgs'[s]) > 1 /\ status[s] = "open"
  IN  writes' = [writes EXCEPT ![s] = IF again THEN @ ELSE @ - 1]

\* After pop_front: the next write(), if any message is left and is_open().
WriteNext(s) ==
  LET again == write_msgs'[s] # <<>> /\ status[s] = "open"
  IN  writes' = [writes EXCEPT ![s] = IF again THEN @ ELSE @ - 1]

\* async_write succeeded.  Its buffer was a local of write(): whatever the
\* socket did not take at once was read from freed memory.
WriteDone(s, tears) ==
  /\ writes[s] > 0
  /\ status[s] = "open" /\ closeOp[s] # "running"
  /\ wire' = [wire EXCEPT ![s] = Append(@, Head(write_msgs[s]))]
  /\ torn' = IF tears THEN [torn EXCEPT ![s] = @ \cup {Len(wire'[s])}] ELSE torn
  /\ write_msgs' = [write_msgs EXCEPT ![s] = Tail(@)]
  /\ WriteNext(s)
  /\ CloseAfterWrite(s)
  /\ UNCHANGED <<status, reading, posted, sessions, sent>>

\* Mutant: stop() without the on_close_ callback.
StopSilently(s) ==
  /\ status' = [status EXCEPT ![s] = "closed"]
  /\ UNCHANGED sessions

\* stop(): ws_ has failed already, so its close() returns at once; then
\* on_close_, that is Server::removeSession.
Stop(s) ==
  /\ status' = [status EXCEPT ![s] = "closed"]
  /\ sessions' = sessions \ {s}

\* async_write failed: the network did, or the stream was closed meanwhile.
WriteFails(s) ==
  /\ writes[s] > 0
  /\ status[s] = "closed" \/ (status[s] = "open" /\ closeOp[s] # "running")
  /\ Stop(s)
  /\ writes' = [writes EXCEPT ![s] = @ - 1]
  /\ CloseAfterWrite(s)
  /\ UNCHANGED <<reading, posted, write_msgs, history>>

\* async_read failed: close frame, broken connection, or aborted by a close.
ReadFails(s) ==
  /\ reading[s]
  /\ Stop(s)
  /\ reading' = [reading EXCEPT ![s] = FALSE]
  /\ UNCHANGED <<closeOp, queues, history>>

\* The peer's close frame arrived and is being answered; the read then fails.
PeerClose(s) ==
  /\ reading[s] /\ status[s] = "open" /\ closeOp[s] = "none"
  /\ status' = [status EXCEPT ![s] = "closing"]
  /\ UNCHANGED <<reading, closeOp, queues, sessions, history>>

\* The async_close that had waited for a write sends its close frame.
CloseStart(s) ==
  /\ closeOp[s] = "running" /\ status[s] = "open"
  /\ status' = [status EXCEPT ![s] = "closing"]
  /\ UNCHANGED <<reading, closeOp, queues, sessions, history>>

\* async_close completed, with or without error: handleDisconnection only,
\* which does not touch sessions_.
CloseDone(s) ==
  /\ closeOp[s] = "running" /\ status[s] \in {"closing", "closed"}
  /\ status' = [status EXCEPT ![s] = "closed"]
  /\ closeOp' = [closeOp EXCEPT ![s] = "done"]
  /\ UNCHANGED <<reading, queues, sessions, history>>

Next ==
  \E s \in Sessions :
    \/ Accept(s)
    \/ \E out \in Outs : ReadMessage(s, out)
    \/ RunPosted(s)
    \/ \E tears \in BOOLEAN : WriteDone(s, tears)
    \/ WriteFails(s)
    \/ ReadFails(s)
    \/ PeerClose(s)
    \/ CloseStart(s)
    \/ CloseDone(s)

Spec == Init /\ [][Next]_vars

(***************************************************************************)
(* The event loop runs every posted handler, an outstanding write ends one *)
(* way or the other as long as the peer reads or the connection breaks,    *)
(* and a close that holds the stream sends its frame.  Nothing obliges a   *)
(* peer to answer a close or to send anything.                             *)
(***************************************************************************)
Fairness ==
  \A s \in Sessions :
    /\ WF_vars(RunPosted(s))
    /\ WF_vars((\E tears \in BOOLEAN : WriteDone(s, tears)) \/ WriteFails(s))
    /\ WF_vars(CloseStart(s))

FairSpec == Spec /\ Fairness

-----------------------------------------------------------------------------
\* While a connection is open, its queue is being written exactly when it is
\* not empty: no second async_write on the stream (send() tests
\* write_msgs_.empty(), write()'s handler tests it again after pop_front),
\* and no message left behind with nobody to write it.
WriteDiscipline ==
  \A s \in Sessions :
    /\ writes[s] > 0 => write_msgs[s] # <<>>
    /\ status[s] = "open" /\ write_msgs[s] # <<>> => writes[s] = 1

\* What was sent is what is written, what is queued and what is posted, in
\* this order: send() and write() neither lose, repeat nor reorder.
Fifo ==
  \A s \in Sessions : sent[s] = (wire[s] \o write_msgs[s]) \o posted[s]

\* An open connection is always being read and is in sessions_: no handler
\* ends without re-arming the read, whatever close() did meanwhile.
OpenIsServed ==
  \A s \in Sessions : status[s] = "open" => reading[s] /\ s \in sessions

\* stop() forgets the session at once; only a close() of the server's own
\* (LOGOUT) can leave a closed session in sessions_.
StopForgets ==
  \A s \in Sessions :
    status[s] = "closed" /\ s \in sessions => closeOp[s] = "done"

\* The life of a session as its callers see it.
Link == [s \in Sessions |-> CASE status[s] = "none" -> "new"
                              [] status[s] \in {"open", "closing"} -> "up"
                              [] status[s] = "closed" -> "down"]

Channel == INSTANCE FifoChannel WITH link <- Link, delivered <- wire

\* The sessions implement FIFO channels (see FifoChannel): send(), write() and
\* the handlers deliver in order, without loss or repetition while a session
\* is up, and nothing after it went down.
ImplementsChannel == Channel!Spec

\* A message handed to send() reaches the connection unless the connection
\* stops being open: the queue never stalls between completions.
SentIsWritten ==
  \A s \in Sessions : \A n \in 1..MaxSends :
    Len(sent[s]) >= n ~> (Len(wire[s]) >= n \/ status[s] # "open")
=============================================================================
