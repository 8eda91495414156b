------------------------------ MODULE MCSession ------------------------------
EXTENDS Session

CONSTANTS MaxSize

\* Sequences of at most MaxSize messages to each session.
MCBatches == UNION {[1..n -> Messages] : n \in 0..MaxSize}
MCOuts == [Sessions -> MCBatches]
=============================================================================
