# Tiny-IM: a TLA+ model of the chat server and its web client

Tiny-IM is a small instant-messaging server (C++, Boost.Asio/Beast WebSockets, SQLite) with a
browser client. The server has **one** thread: `main` runs `io_context.run()`, and everything else,
but for the thread of the logger, is a completion handler that runs from start to end. What is hard
about it is therefore not shared memory but the *order* of handlers: of several connections, of a
write and a posted send, of a logout and the browser's own close, of a login and the messages that
arrive around it, and of the failures of a connection, of a statement, or of the whole server,
between any two of them.

## 1. Inventory

| Part | Code | State | Operations |
|---|---|---|---|
| Server | `src/Server.cpp`, `src/main.cpp` | `sessions_` | accept and handshake, `removeSession`, restart after an exception |
| Session | `src/Session.cpp` | the stream, `buffer_`, `write_msgs_` | `readMessage`, `send` (posts a lambda), `write`, `close`, `stop` |
| BusinessHandler | `src/BusinessHandler.cpp` | `userSessions_` | one handler per message type, `handleDisconnection` |
| Database | `src/Database.cpp` | `connection_pool_`, tables `users`, `friends`, `messages` | `init`, `getConnection`, one method per query |
| Message | `src/Message.cpp` | - | `fromJson`, `toJson`, type tables |
| Web client | `front/script.js` | socket, `userId`, caches, notification | login, register, chat, friends, reconnection, `beforeunload` |
| Logger | `inc/Log.h` | `log_queue`, `queue_mutex`, `cv`, `log_thread` | `setLogLevel`, `log`, `processEntries`, `stop` |
| Config, Utils | `inc/Config.h`, `inc/Utils.h` | settings | `loadConfig`, once; process statistics |
| Test client | `tests/test_client.cpp` | - | manual; written for an earlier message format |

**Interactions.** `Server::accept` creates a `Session` for each handshake and gives it the shared
`BusinessHandler` and a callback to `removeSession`. `Session::readMessage` decodes a message and
calls `handleIncomingMessage`, which calls the `Database` (blocking, on the only thread) and
`Session::send` of this or other sessions, found through `userSessions_`; for LOGOUT it calls
`Session::close`. `Session::close`'s completion calls `handleDisconnection`, which removes the
session from `userSessions_`; `Session::stop`, after a read or write error, calls `removeSession`,
which removes it from `sessions_`. Neither does the work of the other. An exception that leaves
`io_context.run()` (a failed handshake whose `ws->close` throws) makes `main` build a new
`io_context`, `Server` and `BusinessHandler`; `Database` is a singleton and survives, and the new
`BusinessHandler` calls `init` on it again. A `Session` that a user is logged in on survives too: it
and the old `BusinessHandler` refer to each other. Every handler calls `Logger::log`, which hands
its entry to `log_thread`.

**What makes each part correct.** A session never has two writes outstanding, never leaves a
queued message without a write, keeps the order of messages, is always being read while it is
open, and is forgotten when it is over. The login table agrees with what the users were told. The
pool loses nothing it could keep. The two rows of a friendship agree, and need the consent of
both. A page that logs in misses no message, gets none twice, and gets them in order. The id a page
was shown logs in, and only with the password it was registered with. What is logged is printed.

The hazards this rests on are listed in `PROJECT.json`, each at its line with the properties that
cover it, or with the reason why none does yet.

## 2. Modules

| Module | Models | Extended by |
|---|---|---|
| `FifoChannel` | what `send()` and `log()` promise: the abstract specification | `Session`, `Logger` (INSTANCE) |
| `Session` | `Session` and `Server::sessions_` | `SessionProofs`, `MCSession` |
| `LoginService` | `userSessions_`, logins and logouts, pages, restarts | `LoginServiceProofs`, `MCLogin` |
| `DatabasePool` | `connection_pool_` under the handlers that use it | `DatabasePoolProofs`, `MCDatabasePool` |
| `Friends` | table `friends`, its handlers, the notification | `FriendsProofs`, `MCFriends` |
| `ChatDelivery` | texts, history and the page's caches | `ChatDeliveryProofs`, `MCChat` |
| `Accounts` | table `users`, sign-up and login forms, ids and passwords, what `fromJson` refuses | `AccountsProofs`, `MCAccounts` |
| `Logger` | the queue, mutex and condition variable of the logger and its two threads | `LoggerProofs`, `MCLogger` |
| `QueueLemmas` | lemmas about two queues in a row, and about what a queue holds and in which order | `SessionProofs`, `LoggerProofs`, `ChatDeliveryProofs`, `AccountsProofs`, `FriendsProofs` |

Every server handler is one action, because one thread runs it to its end; the reads and writes
of the beast stream end in separate actions, because they are asynchronous, and so are the steps of the
logger's two threads. Operators named after a
comment `Mutant:` are no part of the model: each is a plausible wrong version of the definition
that follows it, and shows that a property can tell the two apart.

### Session and FifoChannel

`status` is what `ws_.is_open()` and the outstanding operations can tell of the stream, `reading`
and `writes` count the outstanding `async_read` and `async_write`, `closeOp` is the state of
`async_close`. `posted` holds the lambdas that `send()` posted, `write_msgs` is `write_msgs_`,
`sessions` is `Server::sessions_`. `sent`, `wire` and `torn` are history.

- A handler is `ReadMessage(s, out)`: it sends `out[t]` to each session `t` (any batch in the
  constant `Outs`), may close `s` (LOGOUT), and reads again if the stream is still open.
  `RunPosted` is the posted lambda, with its test of `write_msgs_.empty()`.
- `WriteDone` is the success of `async_write`: pop, then write again if something is left and
  `is_open()`. `WriteFails` and `ReadFails` run `stop()`.
- `close()` while a write is in progress waits for it (the library suspends `async_close`):
  `closeOp` is `"queued"` until `CloseAfterWrite`; otherwise it takes the stream at once and
  `is_open()` turns false before the handler returns. `PeerClose`, `CloseStart` and
  `CloseAfterWrite` model the library and are marked external in the map.
- `json_data` in `write()` is destroyed when `write()` returns, while the operation may still read
  it. This is undefined behaviour; a frame that left may thus be `torn`, a free choice of
  `WriteDone`. Tearing is modelled as affecting the content of that frame only.
- The page sends one LOGOUT per connection, so `close()` runs at most once per session: `Close`
  asks for `closeOp[s] = "none"`.

`FifoChannel` says the same with three actions per channel, `Open`, `Deliver`, `Down`, and one
`Send`. The refinement mapping reads `link` off `status` and `delivered` off `wire`.

`StopForgets` is as much as can be said of `sessions_`: a session that `close()` closed stays there,
because after it the read is not started again, and `stop()`, the only caller of `removeSession`,
never runs. (The comment at `src/Session.cpp:11` says that the server removes a session whose client
disconnects.)

### LoginService

The pages (`front/script.js`) submit logins, which set `userId` *before* any answer (line 29), and
on `beforeunload` send LOGOUT for that id and close the socket (166-177), after which the user may
still stay. A connection may break before that or after it. A page that stays, and one whose
connection broke, reconnects without a login (198). A success hides the login form only if the
register form is not shown just then, so that a page in the chat may log in again. On the server
`HandleLogin`, `HandleLogout`, `HandleDisconnection` and the life of the sessions follow the code;
sessions are coarser than in `Session` (no write queue, so whether `close()` has to wait is a
choice). `Restart` is the loop of `main`: it destroys every session except those `userSessions_`
refers to (`Outlives`), because such a session holds the handler that holds it
(`BusinessHandler.h:34`, `Session.h:30`); these become `"orphaned"`, their sockets open and never
read again, until the page closes them and its `onclose` fires without an answer (`Ended`).
`granted` and `foreign` are history: who was told "success" on which session, and who was logged out
by a session that was not theirs.

### DatabasePool

One request at a time: `Receive`, then for each database call of the request `GetConnection` (which
may wait), one `Step` or `Finish` per statement, and `PrepareFails` for the early returns that keep
the connection. `Calls` and `Statements` say which calls and statements each request makes.
`Restart` is `init` on the surviving singleton. `size` is what `loadConfig` left in
`connectionSize_`: its exception is swallowed, and the field, read last, is then the zero of static
storage (`Configured`). The conversions in `getRecentMessages` could throw
past the release as well, but they succeed on every row `storeMessage` writes, so they are not a
step. `PrepareFails` is a real choice: `sqlite3_open` may have failed (the constructor then keeps a
null handle), a table may be missing, or the file may be locked or unreadable.

### Friends

A friendship is two rows, written by two statements that may fail separately; `accept` updates
both, `reject` deletes one. The notification is one DOM element: each request adds a listener that
is never removed (script.js:411), so a `Click` runs the listeners of all requests since the page
was loaded, each with its own `confirm()`.

*Who speaks for whom.* `addFriend` and `ackAddFriend` take the user from the message
(`BusinessHandler.cpp:110`, 135) and compare it with nothing; the page puts there its `userId`, the
id typed last, granted or refused (script.js:29). So every message carries its `from`, and the model
has the logins, logouts, breaks and reconnections that decide which id that is and where a
FRIEND_REQUEST goes (`userSessions`). The history tells what the server does not check: `proved`
are the users a page logged in since it was loaded, `asked` the requests made by a page in a name it
had proved, `accepts` the acceptances confirmed on such a page, `disturbed` the pairs hit by a
rejection or a failed statement.

`AcceptedByBoth` therefore says more than that two messages were sent: both users were there. What
it rests on is in the client, not in the server: the chat, where requests are made, opens only after
a success, and a request is shown only on the session its addressee is bound to.

*Its limit.* The answer to a login does not say to whom it is. If a login is submitted while another
one is under way, or from a page that is in the chat already, the page may be in the chat under an id it
has not proved; such a page (`raced`) may ask in anybody's name, and `MayAsk` counts that as asking.
An acceptance is not excepted. The restart of the server is left out here: it unbinds everybody, as
a LOGOUT does.

### ChatDelivery

Two kinds of text: private ones, stored and sent to the receiver's session if there is one, and
those to everybody, never stored. After LOGIN_RESPONSE the page pulls the rows of the last day. A
page keeps what it wrote (even if its socket was closed; while it is connecting, `send()` throws
before anything is kept, and nothing happens) and what it got. Connections break, are left with
LOGOUT, or are lost with what they carry; storing may fail, and a query ends at the first step that
fails and returns the rows read so far, any subset of those it should (`missed` has the others); a
frame may be torn, and `JSON.parse` then drops it. `rows` are the texts of the last day, and `Age`
removes the oldest; the query of a pull has no ORDER BY, so its rows come in any order
(`Bijection`). A restart leaves the sockets of logged-in pages open but served by nobody
(`orphans`), as in `LoginService`. Passwords are right and a page logs in its own user only: wrong
passwords and foreign ids are the matter of `LoginService` and `Accounts`; so a session is bound to
one user, and the loop of `sendGroupMessage` over the entries of `userSessions_` is a set of
sessions. One bound is in a guard: a page in the chat does not log in again.

### Accounts

An id is text in the table and on the page that registered it, a number in the login form and in
JSON, an `int` in the server, and text again in the query. `ParseInt`, `ToInt` and `IntToString` do
what the code does to it, with an `int` of `Ints` values; `Typed` is what `parseInt` makes of what
users type, negative and too long numbers and `NaN` included; the last `JSON.stringify` writes as
null and `fromJson` throws at. What throws is dropped without an answer (`Discard`). `HandleSignUp`
inserts a row or fails silently, `HandleLogin` compares the stored hash; that a user is logged in
already, or a statement fails, is the choice `refused`. A page has two forms, a chat that opens over
whichever is shown, and the id it shows; `loginForm` refuses a password of white space (`FormTakes`)
that `registerForm` takes, so `ShownLogsIn` has to except such accounts: the id they are shown is of
no use; `userId` is set when a login is submitted, and the answer does not say to whom it is.
`ChatIsOwned` says of every page in the chat that it submitted the id and password of an account
(`submitted`), and of one whose logins did not overtake each other (`raced`) that these are the ones
it keeps. `Reconnect` loses what is on its way, `Reload` also what the page knows; an answer may
arrive torn. A form submitted on a closed socket is one that a `Reconnect` loses.

### Logger

The program's thread constructs the members of the singleton in the order of their declaration,
`log_thread` before the queue, the mutex and the condition variable that it uses; `main` walks
through these steps, `setLogLevel`, and then `log`, which pushes under the mutex and notifies after
it. `log_thread` walks through `processEntries`: lock, the predicate of `cv.wait`, sleep (which
releases the mutex), wake, and printing with the mutex released. What a thread finds in a member not
constructed yet is undefined behaviour and a choice among what the build can produce: storage that
is zero works as an unlocked mutex, an empty queue and a condition variable; construction then resets
the mutex (`overlapped`) or drops a waiter (`forgotten`), and a queue read while it is built, or while
`log` changes it with a mutex that no longer excludes, may end the process (`crashed`).
`Console` reads `Logger` as a `FifoChannel` from the calls to the console.

## 3. Runs

All runs pass `CHECK_DEADLOCK FALSE`: the environment owes nothing, and each model may come to rest
(every connection used, every bound reached).

| Run | Bounds | Shows |
|---|---|---|
| `session` | 2 sessions, 2 messages, 2 sends each | `WriteDiscipline`, `Fifo`, `OpenIsServed`, `StopForgets`; `ImplementsChannel`; `SentIsWritten` under fairness |
| `login` | 2 pages, 2 sessions, 2 users, 2 logins or answers under way, 1 drop, 1 restart | `OnlineIsBound`, `Released` |
| `login_live` | 1 page, 2 sessions, 2 users, 1 login or answer under way, 1 drop, 1 restart | `LeavingUnbinds` under fairness |
| `login_twice` | 2 pages, 3 sessions, 1 user | violated: one login per user |
| `login_stale` | 1 page, 2 sessions, 1 user, 1 drop | violated: dead sessions are released |
| `login_orphans` | 1 page, 2 sessions, 1 user, 1 restart | violated: a connected page is served |
| `pool` | 10 connections or none, 3 starts | `BlockedOnlyWhenExhausted`; `RequestsFinish` under fairness |
| `friends` | 2 users, 2 pages, 2 connections, 2 requests, 3 logins | `RowsAgree`, `AcceptedByBoth`, `NeverDemoted` |
| `friends_mutual` | 2 users, 2 pages, 2 connections, 2 requests, 2 logins | violated: an accepted row means mutual friendship |
| `chat` | 2 users, 3 connections, 2 texts | `NoGap`, `OwnOnce`, `OnceEachWay`, `InOrder` |
| `logger` | 3 calls of `log` | `NoLostWakeup`, `ImplementsChannel`; `EveryEntryPrinted` under fairness |
| `accounts` | 2 pages, 3 forms, 2 passwords and a blank one, 2 salts, ids of 2 digits, 8-bit `int` | `ShownLogsIn`, `ChatIsOwned`, `OwedIsUnderWay` |

**Why the bounds are enough.** Two sessions give a handler of one that sends to the other, and two
messages per session a queue that is not empty when a write ends, which is when `write()` and
`send()` must agree. Two pages and two users give a page that names somebody else's user; two
sessions suffice because a session, once used, is never used again, and three are needed where the
user must come back (`login_twice`) or reconnect (`chat`). Two friends and three logins let one page
be in the chat, type the other's id and be refused, while the other one is, or is not, there; two
requests can cross, repeat each other, or be answered by one click. Two texts are the least that can
be exchanged in order. Ten connections are those of `config.json`. Three entries give one that is
printed, one that waits and one that is pushed meanwhile. Three forms let one page sign up and log
in while the other does either; 267 and -245 wrap to the id 11 in eight bits as long and negative
numbers do in 32, and `IntsAssumption`, true of nine digits and 32 bits, keeps every id in range.
`TypeOK` and every safety property of these runs are proved without bounds (section 4),
`ShownLogsIn` on the condition that ids survive their conversions.

**Symmetry** is used where a run checks safety only; users, pages, connections and sessions are
interchangeable in the models, and no constant orders them.

**Fairness.** Only what the event loop owes: a posted lambda runs, an outstanding write ends one way
or the other, a close that holds the stream sends its frame, a message that arrived on a connection
that is not broken is handled, and the thread proceeds when a database connection is there. Weak
fairness on each suffices. In `Logger` both threads run; a mutex that is free again and again is
obtained by the program's thread in the end (strong fairness of `Push`, since `log_thread` takes and
releases it for every entry), and nobody owes a call of `log` or a spurious wake. No peer must ever
answer, send or leave, and since the server sets no timeout on its streams, a broken connection need
never be noticed; the liveness properties except it. That a write ends one way or the other presumes
a peer which reads or a connection which breaks.

**Disagreements with the documents.** Four runs show that the code does not do what a comment, a
document or the client says; `PROJECT.json` quotes the lines.

1. `OneLoginPerUser`: a page sends LOGOUT for the id it last typed, even if that login was refused,
   and `logoutUser` believes it. The user it names, still online, can be logged in a second time.
2. `DeadSessionsReleased`: after a read error the session stays in `userSessions_`; the user gets
   "repeated login" until some page sends a LOGOUT for them.
3. `ConnectedIsServed`: a logged-in session outlives the server it belonged to. Its page stays
   connected, sees no `onclose` that would make it reconnect, and is never answered.
4. `Mutual`: a rejection deletes one row of an accepted friendship.

`OnlineIsBound`, `Released` and `RowsAgree` are what remains true next to these. Their premises leave
out what the code itself breaks: a LOGOUT sent by somebody else, a connection that broke, a pair hit
by a rejection or by a failed statement. In the same way `AcceptedByBoth` lets a page whose logins
raced ask in another name, `ChatIsOwned` does not say by which of its logins such a page is in the
chat, `ShownLogsIn` excepts blank passwords, `OwedIsUnderWay` logins with `NaN` and sign-ups that
fail, and the properties of `DatabasePool` a pool that is exhausted. None of these properties would
notice that the code got better or worse in what it excepts; the notes of the hazards say so.

A fifth disagreement has no run of its own: the comment at `src/Session.cpp:11` has the server remove
a session whose client has left, but one that left with LOGOUT stays in `sessions_`; the second part of
`StopForgets` is this exception.

## 4. Proofs

TLAPS checks the following for every value of the constants, from the named assumptions only
(`NoneAssumption`: `None` is no session and no user; bounds are naturals; `Outs` are batches of
messages; `PoolSize` and `MaxCalls` are naturals, `MaxStarts` a positive one; digits are not 0, and
what is typed is an integer or `NaN`).

- **`SessionProofs`.** The inductive invariant is `TypeOK`, `WriteDiscipline`, `Fifo`, `OpenIsServed`,
  `StopForgets` and `Untouched`: a session that was not accepted shows no activity. The last is
  needed because `Accept` starts a read and enters `sessions_`, and nothing else says that no write
  or close was there before. `SessionsAreChannels` proves the refinement.
- **`ChatDeliveryProofs`.** All four properties are about what a page *gets*: what it holds and what is
  on its way to it, in order (`Gets`, `GetsBefore`). None of them is inductive, because what arrives
  next depends on what waits in the other direction. The invariant `IInv` says, for each request that
  waits, what is true because it does:
  - `Owned`: a connection has to do with one user, whose page is on it, who is bound to it, or
    whose requests wait on it. So a session of `userSessions_` never leads to somebody else's page.
  - `Quiet`: nothing is on its way to a page that left, and nothing waits on an orphan.
  - `Numbered`, `Pending`, `Handled`: a text that waits was sent over the connection it waits on, in
    the order of sending, and was not stored yet; a live copy is of a text handled before all that
    still wait on its connection. This gives `InOrder`.
  - `OwnTyped`, `OwnHere`: what the user typed is on the page, never on its way back; and what is on
    a page that is logged in, or asks to be, was typed over its present connection. This is why
    excluding the *session* of the sender suffices to exclude the sender (`sendGroupMessage`). It
    is also where the bound of `SubmitLogin` is used.
  - `PullsAsked`, `PullFirst`, `Relogin`: a pulled copy comes after a pull was read, a page asks once
    for each login, and what was typed on a page that has yet to pull waits behind the pull,
    so the pull cannot bring it back.
  - `Ordered` and `Delivered`: `InOrder`, `OwnOnce`, `OnceEachWay` and `NoGap` in these terms.

  Each kind of step has a lemma about the queues (`SendEffect`, `ReadEffect`, `SendToEffect`,
  `PullEffect`, ...), and the steps that bring nothing new to a page share `ThinStep`, the reading
  of any request `ReadStep`, the two kinds of live text `LiveStep`. `PullAnswer` shows of every
  order, and every part, in which the query may return its rows that the answer holds each of them once.
- **`AccountsProofs`.** `Stored` relates rows to accounts in both directions, `ToldIds` says that an
  id shown or on its way to a page is of an account it registered, `LoginsAreSubmitted` that every
  login under way is one the page submitted and a success on its way is of one of them,
  `LoginsAreLast` that as long as no login overtook another the ones under way carry the page's
  `userId` and last password, and `OwedIsExpected` that a request is owed an answer only if
  `fromJson` will not throw at it: without the last, a request that is thrown away could be the one
  that `OwedIsUnderWay` counts on. `ShownIdLogsIn` has the hypothesis `IdsSurvive`: what `ParseInt`
  and `IntToString` compute is induction over the digits. It is a statement about the constants,
  which TLC evaluates for those of the run (`ASSUME` in `MCAccounts`).
- **`QueueLemmas`.** `QueueAppend`, `QueueTail`, `QueueConcat`: what a queue holds (`Holds`), and
  before what (`Precedes`), after push_back, pop_front and for two queues in a row. `ShiftHead` and
  `ShiftPosted` say that moving the head of one queue to the end of another keeps their
  concatenation, which is all of `Fifo` and of `Accounted`; `NextInLine` that the head of what waits
  is the next undelivered one of what was sent, which is the refinement's step.
- **`LoginServiceProofs`.** `OnlineIsBound` and `Released` are not inductive. The invariant adds
  `Fresh` (an unused session is unknown everywhere), `PagesSeparate` (each page has a connection of
  its own and its close frame is the last thing on it), `Closing` (the stream follows the close
  operation) and `WillLogout`: a user bound to a session is one whose LOGOUT is still to come, from
  the page that typed the id or on its way before the close frame, unless the connection broke or
  the server is closing the session already. This is why a page's close
  releases its user without `handleDisconnection`.
- **`DatabasePoolProofs`.** Conservation: pooled, in use and lost connections add up to `size` per
  start. A waiting thread uses none, so an empty pool then means that all were lost, or that there
  never were any.
- **`FriendsProofs`.** `AcceptedByBoth` is about a row; the invariant follows consent back from there.
  `Spoken`: a request or an acceptance on its way says what happened. `Notified`: whoever is in a
  notification or a pending click asked the one who is asked, and that one logged in on this page;
  `Pushed` says it of a FRIEND_REQUEST on its way, by `Bound`: who is bound to the connection of a page
  logged in there. `Identified`: a page whose logins did not race has sent at most the login of the
  `userId` it keeps, so a success proves that id; this is why what it asks counts. `Unused` says that
  a connection is of one page and empty before it is made. `NeverDemoted` holds of every step.
- **`LoggerProofs`.** The invariant adds to `TypeOK` and `NoLostWakeup`: `Fresh` (nothing is logged
  during construction), `Accounted` (accepted is printed, queued and about to be pushed, in this
  order), `Numbered` (entries carry the numbers of their calls), and `Critical` (where `log_thread`
  holds the mutex, and what it knows of the queue there: between the predicate and the sleep nothing
  can be pushed, unless the mutex was constructed under it). `LoggerIsAChannel` is the refinement.

**Model-checked only.** The liveness properties (`SentIsWritten`, `LeavingUnbinds`,
`RequestsFinish`, `EveryEntryPrinted`), since the prover has no support for fairness and ENABLED;
and `IdsSurvive`, the hypothesis of `ShownIdLogsIn`. TLC checked the inductive invariants of
`AccountsProofs` and `FriendsProofs` on the instances of `MCAccounts` and `MCFriends` before they
were proved; that of `ChatDeliveryProofs` on the whole of an instance with two connections, and on a
part of the states of `MCChat`, which has three.

## 5. Not modelled

- The JSON text, and the value of `messageId` and `timestamp`. Answers compute their `messageId` from
  themselves, uninitialised; nobody reads it.
- User names, and typed ids that a JSON number does not carry exactly.
- The restart of the server while friends are made; the pool and the logins have it.
- The friend list: one read of the table in two queries, paired by position.
- The order in which cached messages are displayed.
- The growth of `write_msgs_` of a dead session; `MaxSends` bounds it.
- `Logger::stop` and the destructor: `main` never returns.
- Port, host and database name of the configuration, statistics, the test client, and the database
  operations nobody calls (`storeOfflineMessage`, `getOfflineMessages`, `markMessagesAsRead`,
  `setUsername`).

## 6. Plan

Done: the session layer with its abstract channel, logins, pool, friends, chat, accounts, the logger,
and a proof of every safety property of their runs. Next, in this order:

1. `ChatDelivery` without the bound of `SubmitLogin`: a page in the chat that logs in again pulls
   again, and `Relogin` and `OwnHere` have to say what is true of it.
2. What remains true where a run shows a violation: `DeadSessionsReleased` and `ConnectedIsServed` with
   the exact condition under which a user can log in again.
3. `Session` composed with `LoginService`'s handlers instead of `Outs`.
4. The display of the caches: sorting by `messageId` values of three origins.
5. The friend list: rows and names read by two queries while requests are handled.
