-------------------------------- MODULE Logger --------------------------------
(***************************************************************************)
(* The logger (inc/Log.h): the program's thread filters an entry, pushes   *)
(* it under the mutex and notifies; log_thread waits for entries, and      *)
(* prints each one with the mutex released.                                *)
(*                                                                         *)
(* log_thread is declared, hence started, before log_queue, queue_mutex    *)
(* and cv, so it may use them before and while they are constructed.  The  *)
(* storage is static and zero, which is what an unlocked mutex, a cv       *)
(* without waiters and an empty queue look like; constructing a member     *)
(* over one in use resets it, and a queue read while half built ends the   *)
(* process.  main never returns, so that nobody calls stop().              *)
(***************************************************************************)
EXTENDS Integers, Sequences

CONSTANT MaxCalls  \* bound on the calls of log()

ASSUME MaxCallsAssumption == MaxCalls \in Nat

DEBUG == 0
INFO == 1
WARNING == 2
ERROR == 3
Levels == DEBUG..ERROR

VARIABLES
  main,       \* what the program's thread does next
  log_thread, \* what log_thread does next
  log_level,
  log_queue,
  locked,     \* queue_mutex
  signalled,  \* a notify reached the wait of log_thread
  forgotten,  \* cv was constructed over the wait of log_thread
  overlapped, \* history: queue_mutex was constructed over a lock of log_thread
  crashed,    \* log_thread read a queue that was being built or changed
  calls,      \* history: how often log() was called
  accepted,   \* history: the entries pushed
  printed     \* history: the entries printed

shared == <<log_queue, locked, signalled, forgotten>>
history == <<overlapped, calls, accepted, printed>>
vars == <<main, log_thread, log_level, shared, crashed, history>>

\* An entry: its level, and its place among the calls instead of its text.
Entry == [level : Levels, n : Nat]

\* The steps of the program's thread that construct the logger and set its level.
Constructing == {"queue", "mutex", "cv", "level"}

TypeOK ==
  /\ main \in Constructing \cup {"run", "push", "notify"}
  /\ log_thread \in {"lock", "test", "sleep", "wait", "drain", "print"}
  /\ log_level \in Levels
  /\ log_queue \in Seq(Entry)
  /\ locked \in BOOLEAN /\ signalled \in BOOLEAN /\ forgotten \in BOOLEAN
  /\ overlapped \in BOOLEAN /\ crashed \in BOOLEAN
  /\ calls \in Nat
  /\ accepted \in Seq(Entry) /\ printed \in Seq(Entry)

\* Logger(), after log_thread was started.
Init ==
  /\ main = "queue" /\ log_thread = "lock"
  /\ log_level = DEBUG
  /\ log_queue = <<>>
  /\ locked = FALSE /\ signalled = FALSE /\ forgotten = FALSE
  /\ overlapped = FALSE /\ crashed = FALSE
  /\ calls = 0
  /\ accepted = <<>> /\ printed = <<>>

-----------------------------------------------------------------------------
(* The program's thread. *)

At(step, next) == ~crashed /\ main = step /\ main' = next

ConstructQueue ==
  /\ At("queue", "mutex")
  /\ UNCHANGED <<log_thread, log_level, shared, crashed, history>>

ConstructMutex ==
  /\ At("mutex", "cv")
  /\ overlapped' = locked
  /\ locked' = FALSE
  /\ UNCHANGED <<log_thread, log_level, log_queue, signalled, forgotten, crashed,
                 calls, accepted, printed>>

ConstructCv ==
  /\ At("cv", "level")
  /\ forgotten' = (log_thread = "wait")
  /\ UNCHANGED <<log_thread, log_level, log_queue, locked, signalled, crashed, history>>

\* Mutant: a name that is not known is taken as a level of its own.
LevelNamedOrNone(name) ==
  CASE name = "info" -> INFO [] name = "warning" -> WARNING [] name = "error" -> ERROR
    [] name = "debug" -> DEBUG [] OTHER -> ERROR + 1

\* The level a name stands for, in lower case; DEBUG for a name that is not known.
LevelNamed(name) ==
  CASE name = "info" -> INFO [] name = "warning" -> WARNING [] name = "error" -> ERROR
    [] OTHER -> DEBUG

\* setLogLevel of the name in the configuration, empty if that was not read.
SetLogLevel(name) ==
  /\ At("level", "run")
  /\ log_level' = LevelNamed(name)
  /\ UNCHANGED <<log_thread, shared, crashed, history>>

\* log(): an entry below the level set is ignored.
Log(level) ==
  /\ calls < MaxCalls
  /\ calls' = calls + 1
  /\ At("run", IF level < log_level THEN "run" ELSE "push")
  /\ accepted' = IF level < log_level THEN accepted
                 ELSE Append(accepted, [level |-> level, n |-> calls'])
  /\ UNCHANGED <<log_thread, log_level, shared, crashed, overlapped, printed>>

\* The entry accepted last is pushed, with the mutex held; a log_thread that lost
\* its lock to the construction of the mutex may read a half-pushed entry.
Push ==
  /\ At("push", "notify") /\ ~locked
  /\ log_queue' = Append(log_queue, accepted[Len(accepted)])
  /\ \E torn \in BOOLEAN : crashed' = (torn /\ log_thread \in {"test", "drain"})
  /\ UNCHANGED <<log_thread, log_level, locked, signalled, forgotten, history>>

\* Mutant: nobody is notified.
NotifyLost == UNCHANGED signalled

\* cv.notify_one() reaches log_thread if it waits.
NotifyOne == signalled' = (signalled \/ (log_thread = "wait" /\ ~forgotten))

Notify ==
  /\ At("notify", "run")
  /\ NotifyOne
  /\ UNCHANGED <<log_thread, log_level, log_queue, locked, forgotten, crashed, history>>

-----------------------------------------------------------------------------
(* log_thread: processEntries. *)

Does(step, next) == ~crashed /\ log_thread = step /\ log_thread' = next

\* The lock that opens an iteration, or follows the printing of an entry.
Lock ==
  /\ ~locked /\ locked' = TRUE
  /\ Does("lock", "test") \/ Does("print", "drain")
  /\ UNCHANGED <<main, log_level, log_queue, signalled, forgotten, crashed, history>>

\* Mutant: cv.wait without a predicate.
TestNothing == Does("test", "sleep") /\ UNCHANGED crashed

\* cv.wait evaluates its predicate; a queue under construction may look empty or
\* not, and then has no entry to read.
Test ==
  \/ /\ Does("test", IF log_queue = <<>> THEN "sleep" ELSE "drain")
     /\ UNCHANGED crashed
  \/ /\ main = "queue"
     /\ Does("test", "drain") /\ crashed' = TRUE

Predicate ==
  /\ Test
  /\ UNCHANGED <<main, log_level, shared, history>>

\* cv.wait joins the waiters and releases the mutex.
Sleep ==
  /\ Does("sleep", "wait")
  /\ locked' = FALSE /\ signalled' = FALSE
  /\ UNCHANGED <<main, log_level, log_queue, forgotten, crashed, history>>

\* cv.wait wakes with the mutex; a waiter that was not forgotten may also wake
\* without a reason.
Wake(spurious) ==
  /\ Does("wait", "test")
  /\ IF spurious THEN ~forgotten ELSE signalled
  /\ ~locked /\ locked' = TRUE
  /\ UNCHANGED <<main, log_level, log_queue, signalled, forgotten, crashed, history>>

\* Mutant: the entry is copied but not removed.
Peek(q) == q

Pop(q) == Tail(q)

\* The inner loop: an entry leaves the queue and, the mutex released, is printed.
PrintLog ==
  /\ Does("drain", "print")
  /\ log_queue # <<>>
  /\ log_queue' = Pop(log_queue)
  /\ printed' = Append(printed, Head(log_queue))
  /\ locked' = FALSE
  /\ UNCHANGED <<main, log_level, signalled, forgotten, crashed, overlapped, calls, accepted>>

\* The queue is empty: the iteration ends and its lock with it.
EndIteration ==
  /\ Does("drain", "lock")
  /\ log_queue = <<>>
  /\ locked' = FALSE
  /\ UNCHANGED <<main, log_level, log_queue, signalled, forgotten, crashed, history>>

-----------------------------------------------------------------------------
Program ==
  \/ ConstructQueue \/ ConstructMutex \/ ConstructCv
  \/ \E name \in {"debug", "info", "warning", "error", ""} : SetLogLevel(name)
  \/ Push \/ Notify

ProcessEntries ==
  \/ Lock \/ Predicate \/ Sleep \/ Wake(FALSE) \/ PrintLog \/ EndIteration

Next ==
  \/ Program \/ ProcessEntries
  \/ \E level \in Levels : Log(level)
  \/ Wake(TRUE)

Spec == Init /\ [][Next]_vars

\* Both threads run, and a mutex that is free again and again is obtained; nobody
\* owes a log entry or a spurious wake.
FairSpec == Spec /\ WF_vars(Program) /\ SF_vars(Push) /\ WF_vars(ProcessEntries)

-----------------------------------------------------------------------------
\* log_thread does not sleep over entries: whoever pushed one since it joined the
\* waiters has notified it or is about to, and what was there before it tested.
\* Only the construction of cv or of the mutex under its hands breaks this.
NoLostWakeup ==
  log_thread = "wait" /\ log_queue # <<>> =>
    signalled \/ main = "notify" \/ forgotten \/ overlapped

\* Every accepted entry is printed in the end, unless log_thread was hit by the
\* construction of the members it uses.
EveryEntryPrinted ==
  \A n \in 1..MaxCalls :
    Len(accepted) >= n ~> (Len(printed) >= n \/ crashed \/ forgotten \/ overlapped)

\* Entries come out once each, in the order of the calls, whatever happened
\* during construction.
Console == INSTANCE FifoChannel WITH
  Sessions <- {"console"}, Messages <- Entry,
  Outs <- {[c \in {"console"} |-> <<entry>>] : entry \in [level : Levels, n : 1..MaxCalls]},
  link <- [c \in {"console"} |-> IF main \in Constructing THEN "new" ELSE "up"],
  sent <- [c \in {"console"} |-> accepted],
  delivered <- [c \in {"console"} |-> printed],
  torn <- [c \in {"console"} |-> {}]

ImplementsChannel == Console!Spec
=============================================================================
