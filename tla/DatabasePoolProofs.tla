-------------------------- MODULE DatabasePoolProofs --------------------------
(***************************************************************************)
(* Theorems about DatabasePool, for every pool size and any number of      *)
(* restarts.                                                               *)
(***************************************************************************)
EXTENDS DatabasePool, SequenceTheorems, TLAPS

\* Every connection ever opened is in the pool, lost, or held by the thread.
Conservation ==
  pool + lost + (IF thread = "using" THEN 1 ELSE 0) = size * starts

\* A handler that is not done has a call to make; a call that holds a
\* connection has a statement to run.
Progressing ==
  /\ thread # "idle" => calls # <<>>
  /\ thread = "using" => stmts > 0

\* The inductive invariant.
IInv == TypeOK /\ Conservation /\ Progressing

\* The calls of a request are a non-empty sequence of operations.
LEMMA CallsType ==
  ASSUME NEW r \in Requests
  PROVE  Calls(r) \in Seq(Operations) /\ Calls(r) # <<>>
<1>1. \A a, b \in Operations : /\ <<a>> \in Seq(Operations) /\ <<a>> # <<>>
                               /\ <<a, b>> \in Seq(Operations) /\ <<a, b>> # <<>>
  OBVIOUS
<1>2. /\ "registerUser" \in Operations /\ "authenticateUser" \in Operations
      /\ "storeMessage" \in Operations /\ "addFriend" \in Operations
      /\ "getUserNameById" \in Operations /\ "ackAddFriend" \in Operations
      /\ "removeFriend" \in Operations /\ "getFriendList" \in Operations
      /\ "getFriendListUsername" \in Operations /\ "getRecentMessages" \in Operations
  BY DEF Operations
<1> QED
  BY <1>1, <1>2 DEF Calls, Requests

\* Leaving a call, with or without its connection, keeps the handler's state
\* well formed.
LEMMA ReturnType ==
  ASSUME IInv, thread = "using", \E success \in BOOLEAN : Return(success)
  PROVE  /\ calls' \in Seq(Operations)
         /\ thread' \in {"idle", "waiting"}
         /\ thread' # "idle" => calls' # <<>>
         /\ stmts' = 0 /\ ok' = TRUE
<1> PICK success \in BOOLEAN : Return(success)
  OBVIOUS
<1>1. /\ calls \in Seq(Operations) /\ calls # <<>>
      /\ Len(calls) \in Nat \ {0}
      /\ Tail(calls) \in Seq(Operations) /\ Len(Tail(calls)) = Len(calls) - 1
  BY HeadTailProperties, EmptySeq DEF IInv, TypeOK, Progressing
<1>2. /\ calls' \in Seq(Operations)
      /\ thread' \in {"idle", "waiting"}
      /\ stmts' = 0 /\ ok' = TRUE
  BY <1>1, EmptySeq DEF Return
<1>3. thread' # "idle" => calls' # <<>>
  <2> SUFFICES ASSUME thread' # "idle" PROVE calls' # <<>>
    OBVIOUS
  <2>1. Len(calls) # 1 /\ calls' = Tail(calls)
    BY DEF Return
  <2>2. Len(calls') # 0
    BY <1>1, <2>1
  <2> QED
    BY <2>2, EmptySeq
<1> QED
  BY <1>2, <1>3

\* The initial state satisfies the inductive invariant.
LEMMA InitIInv == Init => IInv
<1> SUFFICES ASSUME Init PROVE IInv
  OBVIOUS
<1>1. TypeOK
  BY PoolSizeAssumption, EmptySeq DEF Init, Configured, TypeOK
<1>2. Conservation /\ Progressing
  BY PoolSizeAssumption DEF Init, Configured, Conservation, Progressing
<1> QED
  BY <1>1, <1>2 DEF IInv

\* Every step preserves it.
LEMMA NextIInv == IInv /\ [Next]_vars => IInv'
<1> SUFFICES ASSUME IInv, [Next]_vars PROVE IInv'
  OBVIOUS
<1> DEFINE opened == size * starts
<1>0. opened \in Nat
  BY DEF IInv, TypeOK
<1>1. CASE UNCHANGED vars
  BY <1>1 DEF vars, handler, IInv, TypeOK, Conservation, Progressing
<1>2. ASSUME NEW r \in Requests, Receive(r) PROVE IInv'
  BY <1>2, CallsType DEF Receive, IInv, TypeOK, Conservation, Progressing
<1>3. CASE GetConnection
  <2>1. Statements(Head(calls)) \in 1..2
    BY DEF Statements
  <2>2. TypeOK' /\ Progressing'
    BY <1>3, <2>1 DEF GetConnection, Ready, IInv, TypeOK, Progressing
  <2>3. Conservation'
    <3>1. opened' = opened
      BY <1>3 DEF GetConnection, Ready
    <3> QED
      BY <1>0, <1>3, <3>1 DEF GetConnection, Ready, IInv, TypeOK, Conservation
  <2> QED
    BY <2>2, <2>3 DEF IInv
<1>4. CASE PrepareFails
  <2>1. /\ thread = "using" /\ lost' = lost + 1
        /\ UNCHANGED <<size, pool, starts>>
    BY <1>4 DEF PrepareFails
  <2>2. /\ calls' \in Seq(Operations)
        /\ thread' \in {"idle", "waiting"}
        /\ thread' # "idle" => calls' # <<>>
        /\ stmts' = 0 /\ ok' = TRUE
    BY <1>4, <2>1, ReturnType DEF PrepareFails
  <2>3. TypeOK' /\ Progressing'
    BY <2>1, <2>2 DEF IInv, TypeOK, Progressing
  <2>4. Conservation'
    BY <1>0, <2>1, <2>2 DEF IInv, TypeOK, Conservation
  <2> QED
    BY <2>3, <2>4 DEF IInv
<1>5. ASSUME NEW success \in BOOLEAN, Step(success) PROVE IInv'
  <2>1. TypeOK' /\ Progressing'
    BY <1>5 DEF Step, IInv, TypeOK, Progressing
  <2>2. Conservation'
    BY <1>5 DEF Step, IInv, Conservation
  <2> QED
    BY <2>1, <2>2 DEF IInv
<1>6. ASSUME NEW success \in BOOLEAN, Finish(success) PROVE IInv'
  <2>1. /\ thread = "using" /\ pool' = pool + 1
        /\ UNCHANGED <<size, lost, starts>>
    BY <1>6 DEF Finish, Release
  <2>2. /\ calls' \in Seq(Operations)
        /\ thread' \in {"idle", "waiting"}
        /\ thread' # "idle" => calls' # <<>>
        /\ stmts' = 0 /\ ok' = TRUE
    <3>1. \E result \in BOOLEAN : Return(result)
      <4>1. (ok /\ success) \in BOOLEAN /\ Return(ok /\ success)
        BY <1>6 DEF Finish, Release
      <4> QED
        BY <4>1
    <3> QED
      BY <2>1, <3>1, ReturnType
  <2>3. TypeOK' /\ Progressing'
    BY <2>1, <2>2 DEF IInv, TypeOK, Progressing
  <2>4. Conservation'
    BY <1>0, <2>1, <2>2 DEF IInv, TypeOK, Conservation
  <2> QED
    BY <2>3, <2>4 DEF IInv
<1>7. CASE Restart
  <2>1. TypeOK' /\ Progressing'
    BY <1>7 DEF Restart, handler, IInv, TypeOK, Progressing
  <2>2. size * (starts + 1) = size * starts + size
    BY DEF IInv, TypeOK
  <2>3. Conservation'
    BY <1>0, <1>7, <2>2 DEF Restart, IInv, TypeOK, Conservation
  <2> QED
    BY <2>1, <2>3 DEF IInv
<1> QED
  BY <1>1, <1>2, <1>3, <1>4, <1>5, <1>6, <1>7 DEF Next, Work

\* The inductive invariant holds in every reachable state.
THEOREM Invariance == Spec => []IInv
<1> QED
  BY InitIInv, NextIInv, PTL DEF Spec

\* The state of the pool and of the handler is always well formed.
THEOREM TypeCorrect == Spec => []TypeOK
<1> QED
  BY Invariance, PTL DEF IInv

\* The thread hangs in getConnection only if every connection that init()
\* ever opened was lost by a failing call.
THEOREM BlockedMeansExhausted == Spec => []BlockedOnlyWhenExhausted
<1>1. IInv => BlockedOnlyWhenExhausted
  BY DEF IInv, TypeOK, Conservation, Exhausted, BlockedOnlyWhenExhausted
<1> QED
  BY <1>1, Invariance, PTL
=============================================================================
