----------------------------- MODULE DatabasePool -----------------------------
(***************************************************************************)
(* How the requests of BusinessHandler use the connection pool of          *)
(* Database.                                                               *)
(*                                                                         *)
(* There is one thread.  A handler makes its database calls one after the  *)
(* other; a call takes a connection, prepares and runs its statements, and *)
(* returns the connection -- except when sqlite3_prepare_v2 fails, where   *)
(* it leaves without returning it.  (The conversions of getRecentMessages, *)
(* which could throw, succeed on every row that storeMessage writes.)      *)
(* Database is a singleton and survives a restart of the server; the new   *)
(* BusinessHandler calls init() on it again.                               *)
(***************************************************************************)
EXTENDS Naturals, Sequences

CONSTANTS
  PoolSize,   \* connection_size in a complete config.json
  MaxStarts   \* bound on how often main starts a Server

ASSUME PoolSizeAssumption == PoolSize \in Nat
ASSUME MaxStartsAssumption == MaxStarts \in Nat \ {0}

\* The requests that reach the database, and the calls each of them makes.
Requests == {"SIGN_UP", "LOGIN", "TEXT", "ADD_FRIEND", "ACCEPT", "REJECT",
             "FRIEND_LIST", "PULL_MESSAGE"}

Calls(request) ==
  CASE request = "SIGN_UP"      -> <<"registerUser">>
    [] request = "LOGIN"        -> <<"authenticateUser">>
    [] request = "TEXT"         -> <<"storeMessage">>
    [] request = "ADD_FRIEND"   -> <<"addFriend", "getUserNameById">>
    [] request = "ACCEPT"       -> <<"ackAddFriend">>
    [] request = "REJECT"       -> <<"removeFriend">>
    [] request = "FRIEND_LIST"  -> <<"getFriendList", "getFriendListUsername">>
    [] request = "PULL_MESSAGE" -> <<"getRecentMessages">>

Operations == {"registerUser", "authenticateUser", "storeMessage", "addFriend",
               "getUserNameById", "ackAddFriend", "removeFriend", "getFriendList",
               "getFriendListUsername", "getRecentMessages"}

\* The statements a call prepares and runs, one after the other.
Statements(op) == IF op = "addFriend" THEN 2 ELSE 1

VARIABLES
  size,     \* connectionSize_ of the Config singleton
  pool,     \* connections in connection_pool_
  lost,     \* history: connections taken and never returned
  starts,   \* how often init() was called
  thread,   \* "idle", "waiting" in getConnection, or "using" a connection
  calls,    \* the calls the handler has still to make, the current one first
  stmts,    \* statements of the current call still to run
  ok        \* every statement of the current call succeeded so far

handler == <<calls, stmts, ok>>
vars == <<size, pool, lost, starts, thread, handler>>

TypeOK ==
  /\ size \in Nat /\ pool \in Nat /\ lost \in Nat /\ starts \in Nat
  /\ thread \in {"idle", "waiting", "using"}
  /\ calls \in Seq(Operations)
  /\ stmts \in 0..2
  /\ ok \in BOOLEAN

\* loadConfig: if the file or a field is missing, the exception is swallowed and
\* connectionSize_, read last, keeps the zero of static storage.
Configured == {0, PoolSize}

\* main read the configuration and started the first Server, whose
\* BusinessHandler called init().
Init ==
  /\ size \in Configured
  /\ pool = size /\ lost = 0 /\ starts = 1
  /\ thread = "idle"
  /\ calls = <<>> /\ stmts = 0 /\ ok = TRUE

-----------------------------------------------------------------------------
\* handleIncomingMessage, up to the first database call.
Receive(r) ==
  /\ thread = "idle"
  /\ calls' = Calls(r)
  /\ thread' = "waiting"
  /\ UNCHANGED <<size, pool, lost, starts, stmts, ok>>

\* Mutant: front() of an empty pool.
ReadyAlways == TRUE

\* The condition that cond_var_ waits for.
Ready == pool > 0

\* getConnection() waits while the pool is empty.
GetConnection ==
  /\ thread = "waiting" /\ Ready
  /\ pool' = pool - 1
  /\ thread' = "using"
  /\ stmts' = Statements(Head(calls)) /\ ok' = TRUE
  /\ UNCHANGED <<size, lost, starts, calls>>

\* The current call returned: the next one, unless it was an addFriend that
\* failed, or the end of the handler.
Return(success) ==
  LET done == Len(calls) = 1 \/ (Head(calls) = "addFriend" /\ ~success)
  IN  /\ calls' = IF done THEN <<>> ELSE Tail(calls)
      /\ thread' = IF done THEN "idle" ELSE "waiting"
      /\ stmts' = 0 /\ ok' = TRUE

\* sqlite3_prepare_v2 fails: the call returns without its connection.
PrepareFails ==
  /\ thread = "using"
  /\ lost' = lost + 1
  /\ Return(FALSE)
  /\ UNCHANGED <<size, pool, starts>>

\* sqlite3_step ran a statement; more of them to go.
Step(success) ==
  /\ thread = "using" /\ stmts > 1
  /\ stmts' = stmts - 1
  /\ ok' = (ok /\ success)
  /\ UNCHANGED <<size, pool, lost, starts, thread, calls>>

\* Mutant: a connection is never returned.
Keep == UNCHANGED pool

\* The connection is pushed back.
Release == pool' = pool + 1

\* The last statement ran, well or not: the connection goes back to the pool.
Finish(success) ==
  /\ thread = "using" /\ stmts = 1
  /\ Release
  /\ Return(ok /\ success)
  /\ UNCHANGED <<size, lost, starts>>

\* An exception leaves io_context.run(): main makes a new Server, hence a new
\* BusinessHandler, hence another init().
Restart ==
  /\ thread = "idle" /\ starts < MaxStarts
  /\ starts' = starts + 1
  /\ pool' = pool + size
  /\ UNCHANGED <<size, lost, thread, handler>>

Work ==
  \/ GetConnection
  \/ PrepareFails
  \/ \E success \in BOOLEAN : Step(success) \/ Finish(success)

Next == (\E r \in Requests : Receive(r)) \/ Work \/ Restart

Spec == Init /\ [][Next]_vars

\* The thread runs: a handler that can proceed does.
FairSpec == Spec /\ WF_vars(Work)

-----------------------------------------------------------------------------
\* Every connection ever opened has been lost, or none was ever configured.
Exhausted == lost = size * starts

\* The thread hangs in getConnection only when the pool is exhausted: no call
\* asks for a connection while its caller holds one, and no return path but the
\* failing ones keeps one.
BlockedOnlyWhenExhausted == thread = "waiting" /\ pool = 0 => Exhausted

\* A request is handled to its end unless the pool is exhausted.
RequestsFinish == thread # "idle" ~> (thread = "idle" \/ Exhausted)
=============================================================================
