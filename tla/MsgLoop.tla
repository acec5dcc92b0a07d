------------------------------- MODULE MsgLoop -------------------------------
(***************************************************************************)
(* JyMsgLoop: a thread that takes messages off a queue (JyWorkQueue,        *)
(* JyMutexWaitList) and the threads that post them: the loop itself, its    *)
(* timer, its socket selector and others.  start() and stop() are run by    *)
(* the owner.  The condition variable is a semaphore on Windows, which      *)
(* remembers signals up to a maximum, and a pthread condition variable      *)
(* elsewhere, which forgets a signal nobody waits for.                      *)
(***************************************************************************)
EXTENDS Integers, Sequences

CONSTANTS
    Others,     \* threads that post and that stop() does not stop
    Conds,      \* condition variables of the build: "semaphore", "pthread"
    SemMax,     \* the semaphore's maximum (5 in the code)
    MaxPosts    \* bound: messages posted besides INIT and FINI

ASSUME CondAssumption ==
    /\ Conds \subseteq {"semaphore", "pthread"}
    /\ SemMax \in Nat \ {0}
    /\ MaxPosts \in Nat
    /\ Others \cap {"INIT", "FINI", "loop", "timer", "selector"} = {}

Posters  == Others \cup {"loop", "timer", "selector"}
Messages == Posters \cup {"INIT", "FINI"}

VARIABLES
    cond,     \* the condition variable of the build
    list,     \* JyMutexList::list_; a message is named after its poster
    signals,  \* signals the condition variable holds for the worker
    running,  \* workThreadIsRunning_
    worker,   \* where the worker is in workProc
    owner,    \* where the owner is in start() and stop()
    inited,   \* INIT has been handled: the selector and the timer exist
    finied,   \* FINI has been handled: the selector is stopped
    posts,    \* messages posted besides INIT and FINI
    posted,   \* history: every message, in the order of the queue
    handled   \* history: the messages onWork has had

vars == <<cond, list, signals, running, worker, owner, inited, finied, posts, posted, handled>>

Init ==
    /\ cond \in Conds
    /\ list = <<>> /\ signals = 0
    /\ running = TRUE /\ worker = "test"
    /\ owner = "start"
    /\ inited = FALSE /\ finied = FALSE
    /\ posts = 0 /\ posted = <<>> /\ handled = <<>>

\* WhCond::signal
Signalled == IF cond = "semaphore"
             THEN IF signals < SemMax THEN signals + 1 ELSE signals
             ELSE IF worker = "waiting" THEN 1 ELSE signals

\* JyMutexWaitList::pushBack: the first message of an empty queue signals.
PushBack(m) ==
    /\ list' = Append(list, m)
    /\ posted' = Append(posted, m)
    /\ signals' = IF list = <<>> THEN Signalled ELSE signals

-----------------------------------------------------------------------------
(* The owner                                                               *)

\* JyMsgLoop::start: the thread runs already when INIT is posted.
StartLoop ==
    /\ owner = "start"
    /\ PushBack("INIT")
    /\ owner' = "started"
    /\ UNCHANGED <<cond, running, worker, inited, finied, posts, handled>>

\* JyMsgLoop::stop: the timer is joined and gone; FINI is posted.
Stop ==
    /\ owner = "started"
    /\ PushBack("FINI")
    /\ owner' = "fini"
    /\ UNCHANGED <<cond, running, worker, inited, finied, posts, handled>>

\* JyWorkQueue::stop: the flag, then the signal, not under the mutex.
StopFlag ==
    /\ owner = "fini"
    /\ running' = FALSE
    /\ owner' = "flag"
    /\ UNCHANGED <<cond, list, signals, worker, inited, finied, posts, posted, handled>>

\* Mutant: no signal.
StopSignalNone ==
    /\ owner = "flag"
    /\ owner' = "join"
    /\ UNCHANGED <<cond, list, signals, running, worker, inited, finied, posts, posted, handled>>

StopSignal ==
    /\ owner = "flag"
    /\ signals' = Signalled
    /\ owner' = "join"
    /\ UNCHANGED <<cond, list, running, worker, inited, finied, posts, posted, handled>>

\* JyWorkThread::stop: join.
Join ==
    /\ owner = "join" /\ worker = "done"
    /\ owner' = "stopped"
    /\ UNCHANGED <<cond, list, signals, running, worker, inited, finied, posts, posted, handled>>

-----------------------------------------------------------------------------
(* The threads that post                                                   *)

\* When a thread may post: the loop while it handles a message, the timer and
\* the selector while they exist, the others until the loop object is gone.
MayPost(p) ==
    CASE p = "loop"     -> worker \in {"work", "drainWork"}
      [] p = "timer"    -> inited /\ owner = "started"
      [] p = "selector" -> inited /\ ~finied
      [] OTHER          -> owner # "start" /\ owner # "stopped"

\* JyMsgLoop::postMsg
PostMsg(p) ==
    /\ MayPost(p)
    /\ posts < MaxPosts
    /\ posts' = posts + 1
    /\ PushBack(p)
    /\ UNCHANGED <<cond, running, worker, owner, inited, finied, handled>>

-----------------------------------------------------------------------------
(* The worker: JyWorkQueue::workProc                                       *)

TestRunning ==
    /\ worker = "test"
    /\ worker' = IF running THEN "pop" ELSE "drain"
    /\ UNCHANGED <<cond, list, signals, running, owner, inited, finied, posts, posted, handled>>

\* Mutant: the newest message first.
TakeLast(next) ==
    /\ list # <<>>
    /\ list' = SubSeq(list, 1, Len(list) - 1)
    /\ handled' = Append(handled, list[Len(list)])
    /\ worker' = next
    /\ UNCHANGED <<cond, signals, running, owner, inited, finied, posts, posted>>

\* A message in hand: onWork begins.
Take(next) ==
    /\ list # <<>>
    /\ list' = Tail(list)
    /\ handled' = Append(handled, Head(list))
    /\ worker' = next
    /\ UNCHANGED <<cond, signals, running, owner, inited, finied, posts, posted>>

\* JyMutexWaitList::popFrontWait with a message, and with none.
PopFront == worker = "pop" /\ Take("work")

\* Mutant: the wait begins whether or not there is a message.
PopWaitBlind ==
    /\ worker = "pop"
    /\ worker' = "waiting"
    /\ UNCHANGED <<cond, list, signals, running, owner, inited, finied, posts, posted, handled>>

PopWait ==
    /\ worker = "pop" /\ list = <<>>
    /\ worker' = "waiting"
    /\ UNCHANGED <<cond, list, signals, running, owner, inited, finied, posts, posted, handled>>

\* Mutant: the wait goes on while there is a message.
WakeEmpty ==
    /\ worker = "waiting" /\ signals > 0 /\ list = <<>>
    /\ signals' = signals - 1
    /\ worker' = "test"
    /\ UNCHANGED <<cond, list, running, owner, inited, finied, posts, posted, handled>>

\* The wait ends and popFrontWait returns 0.
Wake ==
    /\ worker = "waiting" /\ signals > 0
    /\ signals' = signals - 1
    /\ worker' = "test"
    /\ UNCHANGED <<cond, list, running, owner, inited, finied, posts, posted, handled>>

\* A pthread wait may end for no reason.
WakeSpurious ==
    /\ cond = "pthread"
    /\ worker = "waiting"
    /\ signals' = 0
    /\ worker' = "test"
    /\ UNCHANGED <<cond, list, running, owner, inited, finied, posts, posted, handled>>

\* onWork ends.  INIT brings the selector up, FINI stops it.
Worked(pc, next) ==
    /\ worker = pc
    /\ worker' = next
    /\ inited' = (inited \/ handled[Len(handled)] = "INIT")
    /\ finied' = (finied \/ handled[Len(handled)] = "FINI")
    /\ UNCHANGED <<cond, list, signals, running, owner, posts, posted, handled>>

WorkEnds == Worked("work", "test")

\* The second loop of workProc: what is left is handled without waiting.
Drain         == worker = "drain" /\ Take("drainWork")
DrainWorkEnds == Worked("drainWork", "drain")

\* Mutant: the queue is not drained.
DrainEndsEarly ==
    /\ worker = "drain"
    /\ worker' = "done"
    /\ UNCHANGED <<cond, list, signals, running, owner, inited, finied, posts, posted, handled>>

DrainEnds ==
    /\ worker = "drain" /\ list = <<>>
    /\ worker' = "done"
    /\ UNCHANGED <<cond, list, signals, running, owner, inited, finied, posts, posted, handled>>

Worker == \/ TestRunning \/ PopFront \/ PopWait \/ Wake \/ WorkEnds
          \/ Drain \/ DrainWorkEnds \/ DrainEnds

Stopping == StopFlag \/ StopSignal \/ Join

Next == \/ StartLoop \/ Stop \/ Stopping
        \/ \E p \in Posters : PostMsg(p)
        \/ Worker \/ WakeSpurious

Spec == Init /\ [][Next]_vars

\* The threads are scheduled; whether and when stop() is called is the owner's.
FairSpec == Spec /\ WF_vars(StartLoop) /\ WF_vars(Stopping) /\ WF_vars(Worker)

-----------------------------------------------------------------------------
(* Properties                                                              *)

\* The types of the variables.
TypeOK ==
    /\ cond \in Conds
    /\ list \in Seq(Messages) /\ posted \in Seq(Messages) /\ handled \in Seq(Messages)
    /\ signals \in Nat
    /\ running \in BOOLEAN /\ inited \in BOOLEAN /\ finied \in BOOLEAN
    /\ worker \in {"test", "pop", "waiting", "work", "drain", "drainWork", "done"}
    /\ owner \in {"start", "started", "fini", "flag", "join", "stopped"}
    /\ posts \in Nat
    /\ worker \in {"work", "drainWork"} => handled # <<>>

\* No lost wakeup: the worker does not wait while there is a message unless a
\* signal is there to wake it, although pushBack signals only for the first
\* message of an empty queue.
NoLostWakeup == worker = "waiting" /\ list # <<>> => signals > 0

\* Every message is handled once, in the order of the queue, those of the
\* drain after stop() included.
InOrder == posted = handled \o list

\* When the worker has left, FINI has been handled and with it all that the
\* selector, the timer and the loop posted: what may be left in the queue came
\* from threads that stop() does not stop.
DrainedAtExit ==
    worker = "done" => finied /\ \A i \in 1 .. Len(list) : list[i] \in Others

\* What the proofs need besides: once stop() has begun, FINI is queued, in hand
\* or handled, and the worker drains only then.
FiniUnderway ==
    /\ owner \in {"start", "started", "fini"} <=> running
    /\ worker \in {"drain", "drainWork", "done"} => ~running
    /\ owner \notin {"start", "started"} =>
          \/ finied
          \/ \E i \in 1 .. Len(list) : list[i] = "FINI"
          \/ worker \in {"work", "drainWork"} /\ handled[Len(handled)] = "FINI"

\* The inductive invariant of the proofs.
InductiveInv == TypeOK /\ NoLostWakeup /\ InOrder /\ FiniUnderway /\ DrainedAtExit

\* stop() returns where the condition variable remembers signals.
StopEnds == owner = "fini" /\ cond = "semaphore" ~> owner = "stopped"

\* A message posted before the worker has left is handled, at the latest by the
\* drain, with either condition variable.
EveryMessageHandled ==
    \A n \in 1 .. MaxPosts + 2 :
        Len(posted) >= n /\ worker # "done" ~> Len(handled) >= n
=============================================================================
