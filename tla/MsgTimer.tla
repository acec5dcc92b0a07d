------------------------------ MODULE MsgTimer -------------------------------
(***************************************************************************)
(* JyMsgTimer: the thread of a JyMsgLoop that turns a schedule of slots     *)
(* into TIMER messages.  createTimer, delayWork, killTimer and cancelWork   *)
(* change the schedule from the loop's handlers; start() and stop() are     *)
(* the owner's.  The queue of the loop is taken in order (module MsgLoop).  *)
(*                                                                         *)
(* Time: a slot holds the time left until it is due and -1 once `now' is    *)
(* past at_.  The timed wait begins with at_.sub(now), which leaves the     *)
(* front slot with a small relative at_: from then on it is past due,       *)
(* whenever the wait ends.                                                 *)
(***************************************************************************)
EXTENDS Integers, Sequences, FiniteSets

CONSTANTS
    Timers,    \* ids that onInit creates with createTimer
    Delays,    \* ids that handlers start with delayWork
    Interval,  \* the interval of each id
    Conds,     \* condition variables of the build: "semaphore", "pthread"
    SemMax,    \* the semaphore's maximum (5 in the code)
    MaxSlots,  \* bound: slots in the schedule
    MaxSpare,  \* bound: signals that wake nobody
    MaxQueue   \* bound: messages in the queue of the loop

Ids  == Timers \cup Delays
None == "none"

ASSUME TimerAssumption ==
    /\ Timers \cap Delays = {} /\ Ids \cap {None, "INIT", "FINI"} = {}
    /\ Interval \in [Ids -> Nat \ {0}]
    /\ Conds \subseteq {"semaphore", "pthread"}
    /\ IsFiniteSet(Timers) /\ SemMax \in Nat \ {0} /\ MaxSlots \in Nat /\ MaxSpare \in Nat /\ MaxQueue \in Nat

VARIABLES
    cond,      \* the condition variable of the build
    schedule,  \* schedule_
    pc,        \* where the timer thread is in workProc
    hand,      \* the id it is about to post
    wait,      \* time left of its timed wait
    signals,   \* signals the condition variable holds
    running,   \* workThreadIsRunning_ of the timer
    queue,     \* the queue of the loop
    todo,      \* the loop inside onInit: timers to create
    erasing,   \* the loop inside cancelWork, before it erases: the id
    owner,     \* where the owner is in start() and stop()
    alive,     \* timer_ is not null
    dead,      \* a handler has used timer_ when it was null
    spare,     \* history: signals of addSlot that woke nobody when they were sent
    early,     \* history: ticks that came before their interval was over
    killed     \* history: ids that cancelWork has taken away

timerVars == <<pc, hand, wait>>
loopVars  == <<queue, todo, erasing, dead>>
histVars  == <<spare, early, killed>>
vars == <<cond, schedule, timerVars, signals, running, loopVars, owner, alive, histVars>>

\* A JyMsgTimerSlot, with its age as a history: the time since it was put in.
Slot(id, left) == [id |-> id, left |-> left, repeat |-> id \in Timers, age |-> 0]

Init ==
    /\ cond \in Conds
    /\ schedule = <<>> /\ pc = "none" /\ hand = None /\ wait = 0
    /\ signals = 0 /\ running = FALSE
    /\ queue = <<>> /\ todo = <<>> /\ erasing = None
    /\ owner = "start" /\ alive = TRUE /\ dead = FALSE
    /\ spare = 0 /\ early = 0 /\ killed = {}

-----------------------------------------------------------------------------
(* The schedule                                                            *)

\* WhCond::signal
Signalled == IF cond = "semaphore"
             THEN IF signals < SemMax THEN signals + 1 ELSE signals
             ELSE IF pc \in {"wait", "waitTimed"} THEN 1 ELSE signals

\* JyMsgTimer::insertSlot: behind the first slot that is due earlier, or last.
InsertSlot(s, slot) ==
    LET earlier == {i \in 1 .. Len(s) : s[i].left < slot.left}
    IN  IF earlier = {} THEN Append(s, slot)
        ELSE LET i == CHOOSE k \in earlier : \A j \in earlier : k <= j
             IN  SubSeq(s, 1, i) \o <<slot>> \o SubSeq(s, i + 1, Len(s))

\* std::list::erase of the elements at some places, the others keep their order.
Erase(s, out) ==
    LET kept   == (1 .. Len(s)) \ out
        Nth(n) == CHOOSE i \in kept : Cardinality({k \in kept : k <= i}) = n
    IN  [n \in 1 .. Cardinality(kept) |-> s[Nth(n)]]

\* The thread waits, and no signal is there yet to wake it.
Asleep == pc \in {"wait", "waitTimed"} /\ signals = 0

\* Mutant: nobody is signalled.
AddSlotSilent(id) ==
    /\ Len(schedule) < MaxSlots
    /\ schedule' = InsertSlot(schedule, Slot(id, Interval[id]))
    /\ killed' = killed \ {id}
    /\ UNCHANGED <<spare, signals, early>>

\* JyMsgTimer::addSlot: the first slot of an empty schedule signals.
AddSlot(id) ==
    /\ Len(schedule) < MaxSlots
    /\ schedule' = InsertSlot(schedule, Slot(id, Interval[id]))
    /\ killed' = killed \ {id}
    /\ IF schedule = <<>>
       THEN /\ signals' = Signalled
            /\ IF Asleep THEN UNCHANGED spare ELSE spare < MaxSpare /\ spare' = spare + 1
       ELSE UNCHANGED <<spare, signals>>
    /\ UNCHANGED early

-----------------------------------------------------------------------------
(* Time                                                                    *)

Tick ==
    /\ schedule' = [i \in 1 .. Len(schedule) |->
            [schedule[i] EXCEPT !.left = IF @ < 0 THEN -1 ELSE @ - 1,
                                !.age = IF @ < Interval[schedule[i].id] THEN @ + 1 ELSE @]]
    /\ wait' = IF wait = 0 THEN 0 ELSE wait - 1
    /\ UNCHANGED <<cond, pc, hand, signals, running, loopVars, owner, alive, histVars>>

-----------------------------------------------------------------------------
(* The timer thread: JyMsgTimer::workProc                                  *)

TestRunning ==
    /\ pc = "test"
    /\ pc' = IF running THEN "look" ELSE "done"
    /\ UNCHANGED <<cond, schedule, hand, wait, signals, running, loopVars, owner, alive, histVars>>

WaitForSlot ==
    /\ pc = "look" /\ schedule = <<>>
    /\ pc' = "wait"
    /\ UNCHANGED <<cond, schedule, hand, wait, signals, running, loopVars, owner, alive, histVars>>

\* Mutant: a repeating slot is due again at once.
FireAgain ==
    /\ pc = "look" /\ schedule # <<>> /\ Head(schedule).left < 0
    /\ LET slot == Head(schedule) IN
       /\ hand' = slot.id
       /\ schedule' = IF slot.repeat THEN InsertSlot(Tail(schedule), Slot(slot.id, 0))
                      ELSE Tail(schedule)
       /\ early' = IF slot.age < Interval[slot.id] /\ early <= spare
                   THEN early + 1 ELSE early
    /\ pc' = "post"
    /\ UNCHANGED <<cond, wait, signals, running, loopVars, owner, alive, spare, killed>>

\* The front slot is due: a repeating one is put back for its next time.
Fire ==
    /\ pc = "look" /\ schedule # <<>> /\ Head(schedule).left < 0
    /\ LET slot == Head(schedule) IN
       /\ hand' = slot.id
       /\ schedule' = IF slot.repeat
                      THEN InsertSlot(Tail(schedule), Slot(slot.id, Interval[slot.id]))
                      ELSE Tail(schedule)
       /\ early' = IF slot.age < Interval[slot.id] /\ early <= spare
                   THEN early + 1 ELSE early
    /\ pc' = "post"
    /\ UNCHANGED <<cond, wait, signals, running, loopVars, owner, alive, spare, killed>>

\* The front slot is not due: at_.sub(now) is the time to wait, and the slot
\* keeps it as its at_.
WaitTimed ==
    /\ pc = "look" /\ schedule # <<>> /\ Head(schedule).left >= 0
    /\ wait' = Head(schedule).left
    /\ schedule' = [schedule EXCEPT ![1].left = -1]
    /\ pc' = "waitTimed"
    /\ UNCHANGED <<cond, hand, signals, running, loopVars, owner, alive, histVars>>

\* A wait ends by a signal; a pthread wait also for no reason.
Wake ==
    /\ pc \in {"wait", "waitTimed"}
    /\ signals > 0 \/ cond = "pthread"
    /\ signals' = IF signals > 0 THEN signals - 1 ELSE 0
    /\ pc' = "test" /\ wait' = 0
    /\ UNCHANGED <<cond, schedule, hand, running, loopVars, owner, alive, histVars>>

\* The timed wait ends, on the semaphore only if it holds no signal.
\* pthread_cond_timedwait takes the relative time for an absolute one, long past.
TimeOut ==
    /\ pc = "waitTimed" /\ ((wait = 0 /\ signals = 0) \/ cond = "pthread")
    /\ pc' = "test" /\ wait' = 0
    /\ UNCHANGED <<cond, schedule, hand, signals, running, loopVars, owner, alive, histVars>>

\* The message is posted after the mutex has been left.
PostTimer ==
    /\ pc = "post" /\ Len(queue) < MaxQueue
    /\ queue' = Append(queue, hand)
    /\ pc' = "test" /\ hand' = None
    /\ UNCHANGED <<cond, schedule, wait, signals, running, todo, erasing, dead, owner, alive,
                   histVars>>

-----------------------------------------------------------------------------
(* The owner                                                               *)

\* JyMsgLoop::start: INIT is posted before the timer thread runs.
StartLoop ==
    /\ owner = "start"
    /\ queue' = Append(queue, "INIT")
    /\ owner' = "startTimer"
    /\ UNCHANGED <<cond, schedule, timerVars, signals, running, todo, erasing, dead, alive, histVars>>

StartTimer ==
    /\ owner = "startTimer"
    /\ running' = TRUE /\ pc' = "test"
    /\ owner' = "started"
    /\ UNCHANGED <<cond, schedule, hand, wait, signals, loopVars, alive, histVars>>

\* JyMsgLoop::stop: timer_.reset() makes the pointer null, then ~JyMsgTimer
\* clears the flag,
StopReset ==
    /\ owner = "started"
    /\ alive' = FALSE /\ running' = FALSE
    /\ owner' = "signal"
    /\ UNCHANGED <<cond, schedule, timerVars, signals, loopVars, histVars>>

\* Mutant: the destructor does not signal.
StopSignalNone ==
    /\ owner = "signal"
    /\ owner' = "join"
    /\ UNCHANGED <<cond, schedule, timerVars, signals, running, loopVars, alive, histVars>>

\* signals without the mutex,
StopSignal ==
    /\ owner = "signal"
    /\ signals' = Signalled
    /\ owner' = "join"
    /\ UNCHANGED <<cond, schedule, timerVars, running, loopVars, alive, histVars>>

\* joins the thread, and FINI is posted.
StopJoined ==
    /\ owner = "join" /\ pc = "done"
    /\ queue' = Append(queue, "FINI")
    /\ owner' = "fini"
    /\ UNCHANGED <<cond, schedule, timerVars, signals, running, todo, erasing, dead, alive, histVars>>

-----------------------------------------------------------------------------
(* The handlers of the loop                                                *)

Handles == ~dead /\ todo = <<>> /\ erasing = None /\ queue # <<>>
Orders(S) == {s \in [1 .. Cardinality(S) -> S] : \A i, j \in DOMAIN s : s[i] = s[j] => i = j}

\* onInit: one createTimer after the other.
OnInit ==
    /\ Handles /\ Head(queue) = "INIT"
    /\ queue' = Tail(queue)
    /\ \E order \in Orders(Timers) : todo' = order
    /\ UNCHANGED <<cond, schedule, timerVars, signals, running, erasing, dead, owner, alive, histVars>>

\* JyMsgLoop::createTimer
CreateTimer ==
    /\ todo # <<>> /\ alive
    /\ todo' = Tail(todo)
    /\ AddSlot(Head(todo))
    /\ UNCHANGED <<cond, timerVars, running, queue, erasing, dead, owner, alive>>

\* A handler of a TIMER message, or of FINI.
OnMessage ==
    /\ Handles /\ Head(queue) # "INIT"
    /\ queue' = Tail(queue)
    /\ UNCHANGED <<cond, schedule, timerVars, signals, running, todo, erasing, dead, owner,
                   alive, histVars>>

\* JyMsgLoop::delayWork in such a handler.
DelayWork(id) ==
    /\ Handles /\ Head(queue) # "INIT" /\ alive
    /\ queue' = Tail(queue)
    /\ AddSlot(id)
    /\ UNCHANGED <<cond, timerVars, running, todo, erasing, dead, owner, alive>>

\* JyMsgLoop::cancelWork, killTimer in such a handler: the slots first,
CancelWork(id) ==
    /\ Handles /\ Head(queue) # "INIT" /\ alive
    /\ queue' = Tail(queue)
    /\ schedule' = Erase(schedule, {i \in 1 .. Len(schedule) : schedule[i].id = id})
    /\ erasing' = id
    /\ UNCHANGED <<cond, timerVars, signals, running, todo, dead, owner, alive, histVars>>

\* Mutant: the messages stay.
CancelEraseNone ==
    /\ erasing # None
    /\ erasing' = None
    /\ killed' = killed \cup {erasing}
    /\ UNCHANGED <<cond, schedule, timerVars, signals, running, queue, todo, dead, owner, alive,
                   spare, early>>

\* then, under the mutex of the queue, the messages.
CancelErase ==
    /\ erasing # None
    /\ queue' = Erase(queue, {i \in 1 .. Len(queue) : queue[i] = erasing})
    /\ erasing' = None
    /\ killed' = killed \cup {erasing}
    /\ UNCHANGED <<cond, schedule, timerVars, signals, running, todo, dead, owner, alive,
                   spare, early>>

\* onInit, or a handler that calls delayWork or cancelWork, after stop() has
\* reset timer_: a null pointer.
NullTimer ==
    /\ ~alive /\ ~dead
    /\ todo # <<>> \/ (Handles /\ Head(queue) \in Ids)
    /\ dead' = TRUE
    /\ UNCHANGED <<cond, schedule, timerVars, signals, running, queue, todo, erasing, owner,
                   alive, histVars>>

-----------------------------------------------------------------------------
TimerThread == TestRunning \/ WaitForSlot \/ Fire \/ WaitTimed \/ Wake \/ TimeOut \/ PostTimer
Stopping    == StopSignal \/ StopJoined
Handler     == OnInit \/ CreateTimer \/ OnMessage \/ CancelErase \/ NullTimer
Work        == \/ \E id \in Delays : DelayWork(id)
               \/ \E id \in Ids : CancelWork(id)

Next == \/ Tick \/ TimerThread
        \/ StartLoop \/ StartTimer \/ StopReset \/ Stopping
        \/ Handler \/ Work

Spec == Init /\ [][Next]_vars

\* Time passes and the threads run; whether and when stop() is called is the
\* owner's.
FairSpec ==
    /\ Spec
    /\ WF_vars(Tick) /\ WF_vars(TimerThread)
    /\ WF_vars(StartLoop \/ StartTimer) /\ WF_vars(Stopping)
    /\ WF_vars(Handler)

-----------------------------------------------------------------------------
(* Properties                                                              *)

Slots == [id : Ids, left : Int, repeat : BOOLEAN, age : Nat]

\* The types of the variables.
TypeOK ==
    /\ cond \in Conds
    /\ schedule \in Seq(Slots)
    /\ pc \in {"none", "test", "look", "wait", "waitTimed", "post", "done"}
    /\ hand \in Ids \cup {None} /\ (pc = "post" => hand \in Ids)
    /\ wait \in Nat /\ signals \in Nat
    /\ running \in BOOLEAN /\ alive \in BOOLEAN /\ dead \in BOOLEAN
    /\ queue \in Seq(Ids \cup {"INIT", "FINI"}) /\ todo \in Seq(Timers)
    /\ erasing \in Ids \cup {None}
    /\ owner \in {"start", "startTimer", "started", "signal", "join", "fini"}
    /\ spare \in Nat /\ early \in Nat
    /\ killed \subseteq Ids

\* No tick comes before its interval is over, but for one per signal that woke
\* nobody when it was sent, because the thread was not waiting or a signal was
\* already there to wake it: the slot keeps a relative at_ during the timed wait,
\* so a wait that such a left-over signal ends fires at once (workProc, addSlot).
EarlyTicks == cond = "semaphore" /\ owner = "started" => early <= spare

\* After cancelWork there is no slot of that id and at most one message, the one
\* the thread had in hand: it is posted outside the mutex.
CancelQuiet ==
    \A id \in killed :
        /\ \A i \in 1 .. Len(schedule) : schedule[i].id # id
        /\ LET inQueue == Cardinality({i \in 1 .. Len(queue) : queue[i] = id})
           IN  inQueue + (IF pc = "post" /\ hand = id THEN 1 ELSE 0) <= 1

-----------------------------------------------------------------------------
(* The inductive invariant                                                 *)

\* The first slot would fire before its interval is over.
FrontEarly ==
    /\ schedule # <<>>
    /\ schedule[1].left < 0 /\ schedule[1].age < Interval[schedule[1].id]

\* Only the first slot can be past due before its interval is over, and not when
\* the timed wait for it is over.
SlotsInv ==
    /\ \A i \in 1 .. Len(schedule) :
          /\ schedule[i].left >= 0 => schedule[i].left + schedule[i].age >= Interval[schedule[i].id]
          /\ i > 1 /\ schedule[i].left < 0 => schedule[i].age >= Interval[schedule[i].id]
    /\ pc = "waitTimed" /\ schedule # <<>> /\ schedule[1].left < 0
          => schedule[1].age + wait >= Interval[schedule[1].id]

\* A wait that ends before its time has used up a signal that woke nobody when it
\* was sent.  While the thread waits, one signal more may be there: the one that
\* has found it asleep, because the schedule was empty, so that no slot is past due.
SignalsInv ==
    /\ owner \in {"start", "startTimer"} => pc = "none"
    /\ cond = "semaphore" /\ owner \in {"start", "startTimer", "started"} =>
          /\ early <= spare
          /\ pc \in {"wait", "waitTimed"} =>
                /\ early + signals <= spare + 1
                /\ FrontEarly => early + signals <= spare
          /\ pc \notin {"wait", "waitTimed"} =>
                /\ early + signals <= spare
                /\ FrontEarly => early + signals < spare

\* Between the two steps of cancelWork nobody adds a slot.
ErasingInv ==
    erasing # None => /\ todo = <<>>
                      /\ \A i \in 1 .. Len(schedule) : schedule[i].id # erasing

InductiveInv == TypeOK /\ SlotsInv /\ SignalsInv /\ ErasingInv /\ CancelQuiet

-----------------------------------------------------------------------------
Scheduled(id) == \E i \in 1 .. Len(schedule) : schedule[i].id = id
Queued(id)    == \E i \in 1 .. Len(queue) : queue[i] = id

\* A slot that is scheduled fires, again and again for a timer, unless it is
\* cancelled or the loop is stopped, although insertSlot does not keep the
\* schedule sorted (with at most two slots; with three, delayed works that start
\* themselves again always come in front of the third).
TicksForever ==
    \A id \in Ids : Scheduled(id) ~> \/ Queued(id) \/ id \in killed \/ erasing = id
                                     \/ ~alive \/ dead

\* The destructor's join ends where the condition variable remembers signals.
TimerStops == owner = "signal" /\ cond = "semaphore" ~> owner = "fini" \/ dead
=============================================================================
