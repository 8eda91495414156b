----------------------------- MODULE FifoChannel -----------------------------
(***************************************************************************)
(* What Session::send promises its callers, without saying how: one        *)
(* channel per session, on which messages leave in the order in which they *)
(* were sent, none twice and none skipped, and nothing leaves after the    *)
(* channel went down.  A message still queued when the channel goes down   *)
(* is lost, and so is one sent later: send() reports no failure.  A        *)
(* message may leave torn, because the frame is read from a buffer the     *)
(* sender has already freed.                                               *)
(***************************************************************************)
EXTENDS Naturals, Sequences

CONSTANTS
  Sessions,
  Messages,
  Outs       \* what one caller may send at once: a sequence of messages per session

VARIABLES
  link,      \* the life of each channel: "new", then "up", then "down"
  sent,      \* per channel, the messages the callers handed over so far
  delivered, \* per channel, the messages that left on the connection
  torn       \* per channel, the positions of the delivered ones that were torn

vars == <<link, sent, delivered, torn>>

TypeOK ==
  /\ link \in [Sessions -> {"new", "up", "down"}]
  /\ sent \in [Sessions -> Seq(Messages)]
  /\ delivered \in [Sessions -> Seq(Messages)]
  /\ torn \in [Sessions -> SUBSET Nat]

Init ==
  /\ link = [s \in Sessions |-> "new"]
  /\ sent = [s \in Sessions |-> <<>>]
  /\ delivered = [s \in Sessions |-> <<>>]
  /\ torn = [s \in Sessions |-> {}]

Open(s) ==
  /\ link[s] = "new"
  /\ link' = [link EXCEPT ![s] = "up"]
  /\ UNCHANGED <<sent, delivered, torn>>

\* Nothing can be sent on a channel that was never up.
Send(out) ==
  /\ \A s \in Sessions : out[s] # <<>> => link[s] # "new"
  /\ sent' = [s \in Sessions |-> sent[s] \o out[s]]
  /\ UNCHANGED <<link, delivered, torn>>

\* The next message in line leaves, whole or torn.
Deliver(s) ==
  /\ link[s] = "up"
  /\ Len(delivered[s]) < Len(sent[s])
  /\ LET next == Len(delivered[s]) + 1
     IN  /\ delivered' = [delivered EXCEPT ![s] = Append(@, sent[s][next])]
         /\ \/ torn' = torn
            \/ torn' = [torn EXCEPT ![s] = @ \cup {next}]
  /\ UNCHANGED <<link, sent>>

Down(s) ==
  /\ link[s] = "up"
  /\ link' = [link EXCEPT ![s] = "down"]
  /\ UNCHANGED <<sent, delivered, torn>>

Next ==
  \/ \E s \in Sessions : Open(s) \/ Deliver(s) \/ Down(s)
  \/ \E out \in Outs : Send(out)

Spec == Init /\ [][Next]_vars
=============================================================================
