----------------------------- MODULE LoggerProofs -----------------------------
(***************************************************************************)
(* Theorems about Logger, for every bound on the number of calls.          *)
(***************************************************************************)
EXTENDS Logger, QueueLemmas

\* Nothing is logged before the logger was constructed.
Fresh ==
  main \in Constructing =>
    calls = 0 /\ log_queue = <<>> /\ accepted = <<>> /\ printed = <<>>

\* The entry log() has accepted and not pushed yet.
Pending == IF main = "push" THEN <<accepted[Len(accepted)]>> ELSE <<>>

\* An accepted entry is printed, queued or about to be pushed, in this order.
Accounted == accepted = (printed \o log_queue) \o Pending

\* The entries are numbered by the calls.
Numbered ==
  /\ calls <= MaxCalls
  /\ \A i \in 1..Len(accepted) : accepted[i].n \in 1..MaxCalls
  /\ main = "push" => accepted # <<>>

\* log_thread holds the mutex where it touches the queue, unless it lost it to the
\* construction of the mutex; it joins the waiters over an empty queue.
Critical ==
  /\ main \in {"queue", "mutex"} => ~overlapped
  /\ log_thread \in {"test", "sleep", "drain"} => locked \/ overlapped
  /\ log_thread = "sleep" => log_queue = <<>> \/ overlapped

\* The inductive invariant.
IInv ==
  /\ TypeOK
  /\ Fresh
  /\ Accounted
  /\ Numbered
  /\ Critical
  /\ NoLostWakeup

-----------------------------------------------------------------------------
\* The initial states satisfy the inductive invariant.
LEMMA InitIInv == Init => IInv
<1> SUFFICES ASSUME Init PROVE IInv
  OBVIOUS
<1>1. TypeOK
  <2>1. DEBUG \in Levels
    BY DEF Levels, DEBUG, ERROR
  <2>2. <<>> \in Seq(Entry)
    BY EmptySeq
  <2> QED
    BY <2>1, <2>2 DEF Init, TypeOK, Constructing
<1>2. Accounted
  <2>1. (<<>> \o <<>>) \o <<>> = <<>>
    BY EmptySeq, ConcatEmptySeq
  <2> QED
    BY <2>1 DEF Init, Accounted, Pending
<1>3. Fresh /\ Numbered /\ Critical /\ NoLostWakeup
  BY MaxCallsAssumption DEF Init, Fresh, Numbered, Critical, NoLostWakeup
<1> QED
  BY <1>1, <1>2, <1>3 DEF IInv

\* The construction of the members, and the level set after it.
LEMMA ConstructIInv ==
  ASSUME IInv,
         \/ ConstructQueue \/ ConstructMutex \/ ConstructCv
         \/ \E name \in {"debug", "info", "warning", "error", ""} : SetLogLevel(name)
  PROVE  IInv'
<1> USE DEF IInv, At, shared, history
<1>1. /\ main \in Constructing /\ main' \in Constructing \cup {"run"}
      /\ log_queue = <<>>
      /\ UNCHANGED <<log_thread, log_queue, signalled, crashed, calls, accepted, printed>>
  BY DEF ConstructQueue, ConstructMutex, ConstructCv, SetLogLevel, Fresh, Constructing
<1>2. TypeOK'
  <2>1. log_level' \in Levels
    BY DEF ConstructQueue, ConstructMutex, ConstructCv, SetLogLevel, LevelNamed,
           TypeOK, Levels, DEBUG, INFO, WARNING, ERROR
  <2>2. locked' \in BOOLEAN /\ forgotten' \in BOOLEAN /\ overlapped' \in BOOLEAN
    BY DEF ConstructQueue, ConstructMutex, ConstructCv, SetLogLevel, TypeOK
  <2> QED
    BY <1>1, <2>1, <2>2 DEF TypeOK
<1>3. Fresh'
  BY <1>1 DEF Fresh
<1>4. Accounted'
  BY <1>1 DEF Accounted, Pending, Constructing
<1>5. Numbered'
  BY <1>1 DEF Numbered, Constructing
<1>6. Critical'
  <2>1. CASE ConstructMutex
    <3>1. main' = "cv" /\ overlapped' = locked /\ log_thread' = log_thread
      BY <2>1 DEF ConstructMutex
    <3>2. log_thread \in {"test", "sleep", "drain"} => locked
      BY <2>1 DEF ConstructMutex, Critical
    <3> QED
      BY <3>1, <3>2 DEF Critical
  <2>2. CASE ~ConstructMutex
    <3>1. /\ UNCHANGED <<locked, overlapped>>
          /\ main' \in {"queue", "mutex"} => main \in {"queue", "mutex"}
      BY <2>2 DEF ConstructQueue, ConstructCv, SetLogLevel
    <3> QED
      BY <1>1, <3>1 DEF Critical
  <2> QED
    BY <2>1, <2>2
<1>7. NoLostWakeup'
  BY <1>1 DEF NoLostWakeup
<1> QED
  BY <1>2, <1>3, <1>4, <1>5, <1>6, <1>7

\* log() accepts an entry or ignores it.
LEMMA LogIInv ==
  ASSUME IInv, NEW level \in Levels, Log(level)
  PROVE  IInv'
<1> USE DEF IInv, At, shared
<1> DEFINE entry == [level |-> level, n |-> calls + 1]
<1>1. /\ main = "run" /\ calls' = calls + 1 /\ calls' \in 1..MaxCalls
      /\ entry \in Entry
      /\ UNCHANGED <<log_thread, log_level, shared, crashed, overlapped, printed>>
  BY MaxCallsAssumption DEF Log, TypeOK, Entry
<1>2. CASE level < log_level
  <2>1. main' = "run" /\ accepted' = accepted
    BY <1>2 DEF Log
  <2> QED
    BY <1>1, <2>1 DEF TypeOK, Fresh, Accounted, Pending, Numbered, Critical, NoLostWakeup,
                      Constructing
<1>3. CASE ~(level < log_level)
  <2>1. main' = "push" /\ accepted' = Append(accepted, entry)
    BY <1>3 DEF Log
  <2>2. /\ accepted' \in Seq(Entry)
        /\ Len(accepted) \in Nat /\ Len(accepted') = Len(accepted) + 1
        /\ accepted'[Len(accepted')] = entry
        /\ \A i \in 1..Len(accepted) : accepted'[i] = accepted[i]
    BY <1>1, <2>1, AppendProperties, LenProperties DEF TypeOK
  <2>3. Accounted'
    <3>1. accepted = (printed \o log_queue) \o <<>>
      BY <1>1 DEF Accounted, Pending
    <3>2. printed \o log_queue \in Seq(Entry)
      BY ConcatProperties DEF TypeOK
    <3>3. accepted = printed \o log_queue
      BY <3>1, <3>2, ConcatEmptySeq
    <3>4. accepted' = (printed \o log_queue) \o <<entry>>
      BY <1>1, <2>1, <3>2, <3>3, AppendIsConcat
    <3> QED
      BY <1>1, <2>1, <2>2, <3>4 DEF Accounted, Pending
  <2>4. Numbered'
    <3>1. \A i \in 1..Len(accepted') : accepted'[i].n \in 1..MaxCalls
      BY <1>1, <2>2 DEF Numbered
    <3>2. accepted' # <<>>
      BY <2>2, EmptySeq
    <3> QED
      BY <1>1, <3>1, <3>2, MaxCallsAssumption DEF Numbered
  <2>5. TypeOK' /\ Fresh' /\ Critical' /\ NoLostWakeup'
    BY <1>1, <2>1, <2>2 DEF TypeOK, Fresh, Critical, NoLostWakeup, Constructing
  <2> QED
    BY <2>3, <2>4, <2>5
<1> QED
  BY <1>2, <1>3

\* The accepted entry joins the queue, and log_thread is notified of it.
LEMMA PushIInv ==
  ASSUME IInv, Push \/ Notify
  PROVE  IInv'
<1> USE DEF IInv, At, shared, history
<1>1. CASE Push
  <2> DEFINE entry == accepted[Len(accepted)]
  <2>1. /\ main = "push" /\ main' = "notify" /\ accepted # <<>>
        /\ log_queue' = Append(log_queue, entry)
        /\ UNCHANGED <<log_thread, log_level, locked, signalled, forgotten, history>>
        /\ crashed' \in BOOLEAN /\ ~locked
    BY <1>1 DEF Push, Numbered
  <2>2. /\ entry \in Entry
        /\ printed \in Seq(Entry) /\ log_queue \in Seq(Entry)
        /\ log_queue' \in Seq(Entry)
    <3>1. /\ Len(accepted) \in 1..Len(accepted)
          /\ \A i \in 1..Len(accepted) : accepted[i] \in Entry
      BY <2>1, EmptySeq, LenProperties, ElementOfSeq DEF TypeOK
    <3> QED
      BY <2>1, <3>1, AppendProperties DEF TypeOK
  <2>3. TypeOK'
    BY <2>1, <2>2 DEF TypeOK
  <2>4. Accounted'
    <3>1. accepted = (printed \o log_queue) \o <<entry>>
      BY <2>1 DEF Accounted, Pending
    <3>2. \A x, y, z \in Seq(Entry) : (x \o y) \o z = x \o (y \o z)
      BY ConcatAssociative, SMTT(30)
    <3>3. <<entry>> \in Seq(Entry)
      BY <2>2
    <3>4. accepted = printed \o (log_queue \o <<entry>>)
      BY <2>2, <3>1, <3>2, <3>3
    <3>5. log_queue' = log_queue \o <<entry>>
      BY <2>1, <2>2, AppendIsConcat
    <3>6. printed \o log_queue' \in Seq(Entry)
      BY <2>2, ConcatProperties
    <3>7. (printed \o log_queue') \o <<>> = printed \o log_queue'
      BY <3>6, ConcatEmptySeq
    <3> QED
      BY <2>1, <3>4, <3>5, <3>7 DEF Accounted, Pending
  <2>5. Fresh' /\ Numbered' /\ Critical' /\ NoLostWakeup'
    BY <2>1 DEF Fresh, Numbered, Critical, NoLostWakeup, Constructing
  <2> QED
    BY <2>3, <2>4, <2>5
<1>2. CASE Notify
  <2>1. /\ main = "notify" /\ main' = "run"
        /\ signalled' = (signalled \/ (log_thread = "wait" /\ ~forgotten))
        /\ UNCHANGED <<log_thread, log_level, log_queue, locked, forgotten, crashed, history>>
    BY <1>2 DEF Notify, NotifyOne
  <2>2. TypeOK'
    <3>1. signalled' \in BOOLEAN
      BY <2>1 DEF TypeOK
    <3> QED
      BY <2>1, <3>1 DEF TypeOK
  <2> QED
    BY <2>1, <2>2 DEF Fresh, Accounted, Pending, Numbered, Critical, NoLostWakeup,
                      Constructing
<1> QED
  BY <1>1, <1>2

\* log_thread locks, tests, joins the waiters, wakes or ends an iteration.
LEMMA ThreadIInv ==
  ASSUME IInv,
         \/ Lock \/ Predicate \/ Sleep \/ EndIteration
         \/ Wake(FALSE) \/ Wake(TRUE)
  PROVE  IInv'
<1> USE DEF IInv, Does, shared, history
<1>1. /\ UNCHANGED <<main, log_level, log_queue, forgotten, history>>
      /\ log_thread' \in {"lock", "test", "sleep", "wait", "drain"}
      /\ locked' \in BOOLEAN /\ signalled' \in BOOLEAN /\ crashed' \in BOOLEAN
  BY DEF Lock, Predicate, Test, Sleep, EndIteration, Wake, TypeOK
<1>2. TypeOK' /\ Fresh' /\ Accounted' /\ Numbered'
  BY <1>1 DEF TypeOK, Fresh, Accounted, Pending, Numbered
<1>3. Critical'
  BY <1>1 DEF Lock, Predicate, Test, Sleep, EndIteration, Wake, Critical, Fresh, Constructing
<1>4. NoLostWakeup'
  BY <1>1 DEF Lock, Predicate, Test, Sleep, EndIteration, Wake, Critical, NoLostWakeup
<1> QED
  BY <1>2, <1>3, <1>4

\* An entry moves from the head of the queue to the console.
LEMMA PrintLogIInv ==
  ASSUME IInv, PrintLog
  PROVE  IInv'
<1> USE DEF IInv, Does
<1>1. /\ log_thread' = "print" /\ log_queue # <<>>
      /\ log_queue' = Tail(log_queue)
      /\ printed' = Append(printed, Head(log_queue))
      /\ locked' = FALSE
      /\ UNCHANGED <<main, log_level, signalled, forgotten, crashed, overlapped, calls,
                     accepted>>
  BY DEF PrintLog, Pop
<1>2. /\ printed' \o log_queue' = printed \o log_queue
      /\ log_queue' \in Seq(Entry) /\ printed' \in Seq(Entry)
  <2>1. printed \in Seq(Entry) /\ log_queue \in Seq(Entry)
    BY DEF TypeOK
  <2>2. \A a, b \in Seq(Entry) : b # <<>> =>
          /\ Append(a, Head(b)) \o Tail(b) = a \o b
          /\ Tail(b) \in Seq(Entry)
          /\ Append(a, Head(b)) \in Seq(Entry)
    BY ShiftHead
  <2> QED
    BY <1>1, <2>1, <2>2
<1>3. main \notin Constructing
  BY <1>1 DEF Fresh
<1>4. TypeOK'
  BY <1>1, <1>2 DEF TypeOK
<1>5. Accounted'
  BY <1>1, <1>2 DEF Accounted, Pending
<1>6. Fresh' /\ Numbered' /\ Critical' /\ NoLostWakeup'
  BY <1>1, <1>3 DEF Fresh, Numbered, Critical, NoLostWakeup, Constructing
<1> QED
  BY <1>4, <1>5, <1>6

\* Every step preserves the inductive invariant.
LEMMA NextIInv == IInv /\ [Next]_vars => IInv'
<1> SUFFICES ASSUME IInv, [Next]_vars PROVE IInv'
  OBVIOUS
<1>1. CASE UNCHANGED vars
  BY <1>1 DEF vars, shared, history, IInv, TypeOK, Fresh, Accounted, Pending, Numbered,
              Critical, NoLostWakeup
<1>2. CASE Program
  BY <1>2, ConstructIInv, PushIInv DEF Program
<1>3. CASE ProcessEntries \/ Wake(TRUE)
  BY <1>3, ThreadIInv, PrintLogIInv DEF ProcessEntries
<1>4. ASSUME NEW level \in Levels, Log(level) PROVE IInv'
  BY <1>4, LogIInv
<1> QED
  BY <1>1, <1>2, <1>3, <1>4 DEF Next

\* The inductive invariant holds in every reachable state.
THEOREM Invariance == Spec => []IInv
<1> QED
  BY InitIInv, NextIInv, PTL DEF Spec

-----------------------------------------------------------------------------
\* The state of the logger is always well formed; in particular the level
\* entries are filtered by is always one of the four.
THEOREM TypeCorrect == Spec => []TypeOK
<1> QED
  BY Invariance, PTL DEF IInv

\* log_thread never sleeps over an entry, however many are logged and whenever.
THEOREM WakeupsKept == Spec => []NoLostWakeup
<1> QED
  BY Invariance, PTL DEF IInv

-----------------------------------------------------------------------------
\* The initial states map to the initial states of FifoChannel.
LEMMA ConsoleInit == Init => Console!Init
<1> QED
  BY DEF Init, Console!Init, Constructing

\* log() accepts an entry, which is sending it, or ignores it.
LEMMA ConsoleLog ==
  ASSUME IInv, NEW level \in Levels, Log(level)
  PROVE  [Console!Next]_(Console!vars)
<1> DEFINE entry == [level |-> level, n |-> calls + 1]
           out == [c \in {"console"} |-> <<entry>>]
           Outs == {[c \in {"console"} |-> <<e>>] : e \in [level : Levels, n : 1..MaxCalls]}
<1>1. /\ main = "run" /\ main' \in {"run", "push"}
      /\ calls' = calls + 1 /\ printed' = printed
      /\ entry \in [level : Levels, n : 1..MaxCalls]
  BY MaxCallsAssumption DEF IInv, TypeOK, Log, At
<1>2. CASE accepted' = accepted
  BY <1>1, <1>2 DEF Console!vars, Constructing
<1>3. CASE accepted' = Append(accepted, entry)
  <2>1. accepted' = accepted \o <<entry>>
    BY <1>1, <1>3, AppendIsConcat DEF IInv, TypeOK, Entry
  <2>2. out \in Outs
    BY <1>1
  <2>3. Console!Send(out)
    BY <1>1, <2>1 DEF Console!Send, Constructing
  <2> QED
    BY <2>2, <2>3 DEF Console!Next
<1> QED
  BY <1>2, <1>3 DEF Log

\* Printing an entry delivers the next one in line.
LEMMA ConsoleDeliver ==
  ASSUME IInv, PrintLog
  PROVE  Console!Deliver("console")
<1>1. /\ log_queue # <<>>
      /\ printed' = Append(printed, Head(log_queue))
      /\ UNCHANGED <<main, accepted>>
      /\ printed \in Seq(Entry) /\ log_queue \in Seq(Entry)
      /\ accepted = (printed \o log_queue) \o Pending
      /\ main \notin Constructing
  BY DEF IInv, TypeOK, Fresh, Accounted, PrintLog, Does
<1>2. Pending \in Seq(Entry)
  BY ElementOfSeq, EmptySeq, LenProperties DEF IInv, TypeOK, Numbered, Pending
<1>3. Len(printed) < Len(accepted) /\ accepted[Len(printed) + 1] = Head(log_queue)
  <2>1. \A a, b, c \in Seq(Entry) : b # <<>> =>
          /\ Len(a) < Len((a \o b) \o c)
          /\ ((a \o b) \o c)[Len(a) + 1] = Head(b)
    BY NextInLine
  <2> QED
    BY <1>1, <1>2, <2>1, Zenon
<1> QED
  BY <1>1, <1>3 DEF Console!Deliver

\* Every step of the logger is a step of the channel or a stutter.
LEMMA ConsoleNext == IInv /\ [Next]_vars => [Console!Next]_(Console!vars)
<1> SUFFICES ASSUME IInv, [Next]_vars PROVE [Console!Next]_(Console!vars)
  OBVIOUS
<1>1. ASSUME UNCHANGED <<accepted, printed>>,
             main' \in Constructing <=> main \in Constructing
      PROVE  UNCHANGED Console!vars
  BY <1>1 DEF Console!vars
<1>2. CASE UNCHANGED vars
  BY <1>1, <1>2 DEF vars, history
<1>3. CASE ConstructQueue \/ ConstructMutex \/ ConstructCv \/ Push \/ Notify
  BY <1>1, <1>3 DEF ConstructQueue, ConstructMutex, ConstructCv, Push, Notify, At,
                    Constructing, history
<1>4. ASSUME NEW name \in {"debug", "info", "warning", "error", ""}, SetLogLevel(name)
      PROVE  Console!Open("console")
  BY <1>4 DEF SetLogLevel, At, Constructing, history, Console!Open
<1>5. ASSUME NEW level \in Levels, Log(level) PROVE [Console!Next]_(Console!vars)
  BY <1>5, ConsoleLog
<1>6. CASE PrintLog
  BY <1>6, ConsoleDeliver DEF Console!Next
<1>7. CASE Lock \/ Predicate \/ Sleep \/ EndIteration \/ Wake(FALSE) \/ Wake(TRUE)
  BY <1>1, <1>7 DEF Lock, Predicate, Sleep, EndIteration, Wake, history
<1> QED
  BY <1>2, <1>3, <1>4, <1>5, <1>6, <1>7 DEF Next, Program, ProcessEntries, Console!Next

\* The logger is a FIFO channel to the console, for any number of calls.
THEOREM LoggerIsAChannel == Spec => ImplementsChannel
<1> QED
  BY ConsoleInit, ConsoleNext, Invariance, PTL DEF Spec, ImplementsChannel, Console!Spec
=============================================================================
