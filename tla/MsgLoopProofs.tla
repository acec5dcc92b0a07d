---------------------------- MODULE MsgLoopProofs ----------------------------
(***************************************************************************)
(* The invariants of MsgLoop for every set of posters, both condition       *)
(* variables, every semaphore maximum and every number of messages.         *)
(***************************************************************************)
EXTENDS MsgLoop, SequenceTheorems, TLAPS

\* Taking the first message moves it from the queue to the end of the history
\* (JyMutexList::popFront).
LEMMA TakeMoves ==
    ASSUME NEW S, NEW h \in Seq(S), NEW l \in Seq(S), l # <<>>
    PROVE  /\ Append(h, Head(l)) \o Tail(l) = h \o l
           /\ Head(l) \in S /\ Tail(l) \in Seq(S) /\ Append(h, Head(l)) \in Seq(S)
           /\ Append(h, Head(l)) # <<>>
           /\ Append(h, Head(l))[Len(Append(h, Head(l)))] = Head(l)
<1>1. /\ Head(l) \in S /\ Tail(l) \in Seq(S) /\ Len(l) \in Nat \ {0}
      /\ Len(Tail(l)) = Len(l) - 1
      /\ \A i \in 1 .. Len(l) - 1 : Tail(l)[i] = l[i + 1]
      /\ Head(l) = l[1]
  BY HeadTailProperties, EmptySeq, LenProperties
<1>2. /\ Append(h, Head(l)) \in Seq(S)
      /\ Len(Append(h, Head(l))) = Len(h) + 1
      /\ \A i \in 1 .. Len(h) : Append(h, Head(l))[i] = h[i]
      /\ Append(h, Head(l))[Len(h) + 1] = Head(l)
      /\ Append(h, Head(l)) # <<>>
  BY <1>1, AppendProperties
<1>3. Append(h, Head(l)) \o Tail(l) = h \o l
  <2>1. Append(h, Head(l)) \o Tail(l) \in Seq(S) /\ h \o l \in Seq(S)
    BY <1>1, <1>2, ConcatProperties
  <2>2. Len(Append(h, Head(l)) \o Tail(l)) = Len(h \o l)
    BY <1>1, <1>2, ConcatProperties, LenProperties
  <2>3. ASSUME NEW i \in 1 .. Len(h \o l)
        PROVE  (Append(h, Head(l)) \o Tail(l))[i] = (h \o l)[i]
    <3>1. CASE i <= Len(h)
      BY <3>1, <1>1, <1>2, ConcatProperties, LenProperties
    <3>2. CASE i = Len(h) + 1
      BY <3>2, <1>1, <1>2, ConcatProperties, LenProperties
    <3>3. CASE i > Len(h) + 1
      BY <3>3, <1>1, <1>2, ConcatProperties, LenProperties
    <3>4. QED BY <3>1, <3>2, <3>3, LenProperties
  <2>4. QED BY <2>1, <2>2, <2>3, SeqEqual
<1>4. QED BY <1>1, <1>2, <1>3
-----------------------------------------------------------------------------
\* Posting a message (JyMutexWaitList::pushBack) puts it behind those that are
\* queued, which stay where they are.
LEMMA PushKeeps ==
    ASSUME NEW S, NEW l \in Seq(S), NEW x \in S
    PROVE  /\ Append(l, x) \in Seq(S)
           /\ Append(l, x) # <<>>
           /\ Len(Append(l, x)) = Len(l) + 1 /\ Len(l) \in Nat
           /\ Append(l, x)[Len(l) + 1] = x
           /\ \A i \in 1 .. Len(l) : Append(l, x)[i] = l[i]
BY AppendProperties, LenProperties

\* A signal never takes one away (WhCond::signal); the worker that waits gets one.
LEMMA SignalCounts ==
    ASSUME TypeOK
    PROVE  /\ Signalled \in Nat
           /\ Signalled >= signals \/ worker = "waiting"
           /\ worker = "waiting" => Signalled > 0
BY CondAssumption DEF TypeOK, Signalled

\* What every post does to the invariant, whoever posts.
LEMMA PushBackStep ==
    ASSUME InductiveInv, NEW x \in Messages, PushBack(x), UNCHANGED worker,
           UNCHANGED handled
    PROVE  /\ list' \in Seq(Messages) /\ posted' \in Seq(Messages) /\ signals' \in Nat
           /\ NoLostWakeup' /\ InOrder'
           /\ x = "FINI" \/ (\E i \in 1 .. Len(list) : list[i] = "FINI")
                 => \E i \in 1 .. Len(list') : list'[i] = "FINI"
<1>1. /\ list \in Seq(Messages) /\ handled \in Seq(Messages) /\ posted \in Seq(Messages)
      /\ signals \in Nat
  BY DEF InductiveInv, TypeOK
<1>2. list' = Append(list, x) /\ posted' = Append(posted, x)
  BY DEF PushBack
<1>3. Signalled \in Nat /\ (worker = "waiting" => Signalled > 0)
  BY SignalCounts DEF InductiveInv
<1>4. signals' = IF list = <<>> THEN Signalled ELSE signals
  BY DEF PushBack
<1>5. list' \in Seq(Messages) /\ posted' \in Seq(Messages)
  BY <1>1, <1>2, PushKeeps
<1>6. signals' \in Nat
  BY <1>1, <1>3, <1>4
<1>7. NoLostWakeup'
  <2>1. SUFFICES ASSUME worker = "waiting" PROVE signals' > 0
    BY DEF NoLostWakeup
  <2>2. CASE list = <<>>
    BY <2>1, <2>2, <1>3, <1>4
  <2>3. CASE list # <<>>
    BY <2>1, <2>3, <1>4 DEF InductiveInv, NoLostWakeup
  <2>4. QED BY <2>2, <2>3
<1>8. InOrder'
  <2>1. posted = handled \o list
    BY DEF InductiveInv, InOrder
  <2>2. Append(handled \o list, x) = handled \o Append(list, x)
    <3>1. handled \o list \in Seq(Messages) /\ <<x>> \in Seq(Messages)
      BY <1>1, ConcatProperties
    <3>2. /\ Append(handled \o list, x) = (handled \o list) \o <<x>>
          /\ Append(list, x) = list \o <<x>>
      BY <1>1, <3>1, AppendIsConcat
    <3>3. (handled \o list) \o <<x>> = handled \o (list \o <<x>>)
      BY <1>1, <3>1, ConcatAssociative
    <3>4. QED BY <3>2, <3>3
  <2>3. QED BY <2>1, <2>2, <1>2 DEF InOrder
<1>9. x = "FINI" \/ (\E i \in 1 .. Len(list) : list[i] = "FINI")
         => \E i \in 1 .. Len(list') : list'[i] = "FINI"
  <2>1. /\ Len(list') = Len(list) + 1 /\ Len(list) \in Nat
        /\ list'[Len(list) + 1] = x
        /\ \A i \in 1 .. Len(list) : list'[i] = list[i]
    BY <1>1, <1>2, PushKeeps
  <2>2. CASE x = "FINI"
    <3>1. Len(list) + 1 \in 1 .. Len(list')
      BY <2>1
    <3>2. QED BY <3>1, <2>1, <2>2
  <2>3. ASSUME NEW i \in 1 .. Len(list), list[i] = "FINI"
        PROVE  \E j \in 1 .. Len(list') : list'[j] = "FINI"
    <3>1. i \in 1 .. Len(list') /\ list'[i] = "FINI"
      BY <2>1, <2>3
    <3>2. QED BY <3>1
  <2>4. QED BY <2>2, <2>3
<1>10. QED BY <1>5, <1>6, <1>7, <1>8, <1>9
-----------------------------------------------------------------------------
\* Taking a message, in the loop or in the drain (JyMutexList::popFront).
LEMMA TakeStep ==
    ASSUME InductiveInv, NEW pc \in {"work", "drainWork"}, Take(pc),
           worker = "pop" \/ worker = "drain",
           pc = "drainWork" => ~running
    PROVE  InductiveInv'
<1>1. /\ list \in Seq(Messages) /\ handled \in Seq(Messages) /\ list # <<>>
      /\ list' = Tail(list) /\ handled' = Append(handled, Head(list)) /\ worker' = pc
      /\ UNCHANGED <<cond, signals, running, owner, inited, finied, posts, posted>>
  BY DEF InductiveInv, TypeOK, Take
<1>2. /\ handled' \o list' = handled \o list
      /\ list' \in Seq(Messages) /\ handled' \in Seq(Messages) /\ handled' # <<>>
      /\ handled'[Len(handled')] = Head(list)
  <2>1. \A h, l \in Seq(Messages) : l # <<>> =>
           /\ Append(h, Head(l)) \o Tail(l) = h \o l
           /\ Tail(l) \in Seq(Messages) /\ Append(h, Head(l)) \in Seq(Messages)
           /\ Append(h, Head(l)) # <<>>
           /\ Append(h, Head(l))[Len(Append(h, Head(l)))] = Head(l)
    BY TakeMoves, Zenon
  <2>2. QED BY <1>1, <2>1, Zenon
<1>3. TypeOK'
  BY <1>1, <1>2 DEF InductiveInv, TypeOK
<1>4. NoLostWakeup'
  BY <1>1 DEF NoLostWakeup
<1>5. InOrder'
  BY <1>1, <1>2 DEF InductiveInv, InOrder
<1>6. FiniUnderway'
  <2>1. owner \in {"start", "started", "fini"} <=> running
    BY DEF InductiveInv, FiniUnderway
  <2>2. SUFFICES ASSUME owner \notin {"start", "started"}, ~finied
                 PROVE  \/ \E i \in 1 .. Len(list') : list'[i] = "FINI"
                        \/ handled'[Len(handled')] = "FINI"
    BY <2>1, <1>1 DEF FiniUnderway
  <2>3. PICK i \in 1 .. Len(list) : list[i] = "FINI"
    BY <2>2, <1>1 DEF InductiveInv, FiniUnderway
  <2>4. /\ Len(list') = Len(list) - 1 /\ Len(list) \in Nat \ {0}
        /\ \A j \in 1 .. Len(list') : list'[j] = list[j + 1]
        /\ Head(list) = list[1]
    BY <1>1, HeadTailProperties, EmptySeq
  <2>5. CASE i = 1
    BY <2>5, <2>3, <2>4, <1>2
  <2>6. CASE i # 1
    <3>1. i - 1 \in 1 .. Len(list') /\ (i - 1) + 1 = i
      BY <2>6, <2>4
    <3>2. list'[i - 1] = "FINI"
      BY <3>1, <2>3, <2>4
    <3>3. QED BY <3>1, <3>2
  <2>7. QED BY <2>5, <2>6
<1>7. DrainedAtExit'
  BY <1>1 DEF DrainedAtExit
<1>8. QED BY <1>3, <1>4, <1>5, <1>6, <1>7 DEF InductiveInv

\* Posting (postMsg, and the INIT and FINI of start() and stop()) from a place
\* where the worker has not left for good, or where another thread still posts.
LEMMA PostStep ==
    ASSUME InductiveInv, NEW p \in Posters, PostMsg(p)
    PROVE  InductiveInv'
<1>1. /\ PushBack(p) /\ p \in Messages /\ posts' = posts + 1 /\ MayPost(p)
      /\ UNCHANGED <<cond, running, worker, owner, inited, finied, handled>>
  BY DEF PostMsg, Messages
<1>2. /\ list' \in Seq(Messages) /\ posted' \in Seq(Messages) /\ signals' \in Nat
      /\ NoLostWakeup' /\ InOrder'
      /\ (\E i \in 1 .. Len(list) : list[i] = "FINI")
            => \E i \in 1 .. Len(list') : list'[i] = "FINI"
  BY <1>1, PushBackStep
<1>3. TypeOK'
  BY <1>1, <1>2 DEF InductiveInv, TypeOK
<1>4. FiniUnderway'
  BY <1>1, <1>2 DEF InductiveInv, FiniUnderway
<1>5. DrainedAtExit'
  <2>1. SUFFICES ASSUME worker = "done"
                 PROVE  finied /\ \A i \in 1 .. Len(list') : list'[i] \in Others
    BY <1>1 DEF DrainedAtExit
  <2>2. /\ finied /\ ~running /\ owner # "started"
        /\ \A i \in 1 .. Len(list) : list[i] \in Others
    BY <2>1 DEF InductiveInv, DrainedAtExit, FiniUnderway
  <2>3. p \in Others
    BY <1>1, <2>1, <2>2 DEF MayPost, Posters
  <2>4. /\ Len(list') = Len(list) + 1 /\ Len(list) \in Nat
        /\ list'[Len(list) + 1] = p
        /\ \A i \in 1 .. Len(list) : list'[i] = list[i]
    BY <1>1, PushKeeps DEF PushBack, InductiveInv, TypeOK
  <2>5. QED BY <2>2, <2>3, <2>4
<1>6. QED BY <1>2, <1>3, <1>4, <1>5 DEF InductiveInv

\* JyMsgLoop::start and the FINI of JyMsgLoop::stop.
LEMMA OwnerPostStep ==
    ASSUME InductiveInv, StartLoop \/ Stop
    PROVE  InductiveInv'
<1>1. PICK x \in {"INIT", "FINI"} :
        /\ PushBack(x)
        /\ x = "INIT" => owner = "start" /\ owner' = "started"
        /\ x = "FINI" => owner = "started" /\ owner' = "fini"
        /\ UNCHANGED <<cond, running, worker, inited, finied, posts, handled>>
  BY DEF StartLoop, Stop
<1>2. /\ list' \in Seq(Messages) /\ posted' \in Seq(Messages) /\ signals' \in Nat
      /\ NoLostWakeup' /\ InOrder'
      /\ x = "FINI" => \E i \in 1 .. Len(list') : list'[i] = "FINI"
  <2>1. x \in Messages
    BY DEF Messages
  <2>2. QED BY <1>1, <2>1, PushBackStep
<1>3. running /\ worker # "done"
  BY <1>1 DEF InductiveInv, FiniUnderway
<1>4. TypeOK'
  BY <1>1, <1>2 DEF InductiveInv, TypeOK
<1>5. FiniUnderway'
  BY <1>1, <1>2, <1>3 DEF InductiveInv, FiniUnderway
<1>6. DrainedAtExit'
  BY <1>1, <1>3 DEF DrainedAtExit
<1>7. QED BY <1>2, <1>4, <1>5, <1>6 DEF InductiveInv
-----------------------------------------------------------------------------
\* JyWorkQueue::stop and the join: the queue is left alone.
LEMMA StoppingStep ==
    ASSUME InductiveInv, Stopping
    PROVE  InductiveInv'
<1>1. UNCHANGED <<cond, list, worker, inited, finied, posts, posted, handled>>
  BY DEF Stopping, StopFlag, StopSignal, Join
<1>2. signals' \in Nat /\ (worker = "waiting" => signals' > 0 \/ signals' = signals)
  BY SignalCounts DEF InductiveInv, TypeOK, Stopping, StopFlag, StopSignal, Join
<1>3. TypeOK'
  BY <1>1, <1>2 DEF InductiveInv, TypeOK, Stopping, StopFlag, StopSignal, Join
<1>4. NoLostWakeup'
  BY <1>1, <1>2 DEF InductiveInv, NoLostWakeup
<1>5. FiniUnderway'
  <2>1. /\ owner \in {"fini", "flag", "join"} /\ owner' \in {"flag", "join", "stopped"}
        /\ running' = FALSE
    BY DEF InductiveInv, FiniUnderway, Stopping, StopFlag, StopSignal, Join
  <2>2. QED BY <1>1, <2>1 DEF InductiveInv, FiniUnderway
<1>6. InOrder' /\ DrainedAtExit'
  BY <1>1 DEF InductiveInv, InOrder, DrainedAtExit
<1>7. QED BY <1>3, <1>4, <1>5, <1>6 DEF InductiveInv

\* The steps of the worker that handle nothing: the test of the flag, the wait
\* and its end.
LEMMA WaitStep ==
    ASSUME InductiveInv, TestRunning \/ PopWait \/ Wake \/ WakeSpurious
    PROVE  InductiveInv'
<1>1. UNCHANGED <<cond, list, running, owner, inited, finied, posts, posted, handled>>
  BY DEF TestRunning, PopWait, Wake, WakeSpurious
<1>2. /\ signals' \in Nat
      /\ worker \in {"test", "pop", "waiting"}
      /\ worker' \in {"test", "pop", "waiting", "drain"}
      /\ worker' = "drain" => ~running
      /\ worker' = "waiting" => list = <<>>
  BY DEF InductiveInv, TypeOK, TestRunning, PopWait, Wake, WakeSpurious
<1>3. TypeOK'
  BY <1>1, <1>2 DEF InductiveInv, TypeOK
<1>4. NoLostWakeup' /\ InOrder' /\ DrainedAtExit'
  BY <1>1, <1>2 DEF InductiveInv, NoLostWakeup, InOrder, DrainedAtExit
<1>5. FiniUnderway'
  BY <1>1, <1>2 DEF InductiveInv, FiniUnderway
<1>6. QED BY <1>3, <1>4, <1>5 DEF InductiveInv

\* onWork ends, in the loop or in the drain.
LEMMA WorkedStep ==
    ASSUME InductiveInv, WorkEnds \/ DrainWorkEnds
    PROVE  InductiveInv'
<1>1. /\ UNCHANGED <<cond, list, signals, running, owner, posts, posted, handled>>
      /\ worker \in {"work", "drainWork"} /\ worker' \in {"test", "drain"}
      /\ worker' = "drain" => worker = "drainWork"
  BY DEF WorkEnds, DrainWorkEnds, Worked
<1>2. /\ inited' \in BOOLEAN /\ finied' \in BOOLEAN
      /\ finied => finied'
      /\ handled[Len(handled)] = "FINI" => finied'
  BY DEF InductiveInv, TypeOK, WorkEnds, DrainWorkEnds, Worked
<1>3. TypeOK'
  BY <1>1, <1>2 DEF InductiveInv, TypeOK
<1>4. NoLostWakeup' /\ InOrder' /\ DrainedAtExit'
  BY <1>1 DEF InductiveInv, NoLostWakeup, InOrder, DrainedAtExit
<1>5. FiniUnderway'
  BY <1>1, <1>2 DEF InductiveInv, FiniUnderway
<1>6. QED BY <1>3, <1>4, <1>5 DEF InductiveInv

\* The worker leaves with an empty queue: FINI has been handled by then.
LEMMA DrainEndsStep ==
    ASSUME InductiveInv, DrainEnds
    PROVE  InductiveInv'
<1>1. /\ UNCHANGED <<cond, list, signals, running, owner, inited, finied, posts, posted, handled>>
      /\ worker = "drain" /\ worker' = "done" /\ list = <<>>
  BY DEF DrainEnds
<1>2. ~running /\ owner \notin {"start", "started"}
  BY <1>1 DEF InductiveInv, FiniUnderway
<1>3. Len(list) = 0
  BY <1>1, EmptySeq
<1>4. finied
  BY <1>1, <1>2, <1>3 DEF InductiveInv, FiniUnderway
<1>5. TypeOK'
  BY <1>1 DEF InductiveInv, TypeOK
<1>6. NoLostWakeup' /\ InOrder' /\ DrainedAtExit'
  BY <1>1, <1>4 DEF InductiveInv, NoLostWakeup, InOrder, DrainedAtExit
<1>7. FiniUnderway'
  BY <1>1, <1>2, <1>4 DEF InductiveInv, FiniUnderway
<1>8. QED BY <1>5, <1>6, <1>7 DEF InductiveInv

-----------------------------------------------------------------------------
\* The invariant holds when the thread is created (JyWorkThread::start).
LEMMA InitHolds == Init => InductiveInv
<1>1. SUFFICES ASSUME Init PROVE InductiveInv
  OBVIOUS
<1>2. TypeOK
  BY <1>1, EmptySeq DEF Init, TypeOK
<1>3. InOrder
  <2>1. <<>> \o <<>> = <<>>
    BY EmptySeq, ConcatEmptySeq
  <2>2. QED BY <1>1, <2>1 DEF Init, InOrder
<1>4. NoLostWakeup /\ DrainedAtExit /\ FiniUnderway
  BY <1>1 DEF Init, NoLostWakeup, DrainedAtExit, FiniUnderway
<1>5. QED BY <1>2, <1>3, <1>4 DEF InductiveInv

\* Every step of every thread keeps the invariant.
LEMMA StepHolds == InductiveInv /\ [Next]_vars => InductiveInv'
<1>1. SUFFICES ASSUME InductiveInv, [Next]_vars PROVE InductiveInv'
  OBVIOUS
<1>2. CASE UNCHANGED vars
  BY <1>1, <1>2 DEF vars, InductiveInv, TypeOK, NoLostWakeup, InOrder, FiniUnderway,
                    DrainedAtExit
<1>3. CASE StartLoop \/ Stop
  BY <1>1, <1>3, OwnerPostStep
<1>4. CASE Stopping
  BY <1>1, <1>4, StoppingStep
<1>5. ASSUME NEW p \in Posters, PostMsg(p) PROVE InductiveInv'
  BY <1>1, <1>5, PostStep
<1>6. CASE TestRunning \/ PopWait \/ Wake \/ WakeSpurious
  BY <1>1, <1>6, WaitStep
<1>7. CASE PopFront
  BY <1>1, <1>7, TakeStep DEF PopFront
<1>8. CASE Drain
  <2>1. worker = "drain" /\ Take("drainWork")
    BY <1>8 DEF Drain
  <2>2. ~running
    BY <1>1, <2>1 DEF InductiveInv, FiniUnderway
  <2>3. QED BY <1>1, <2>1, <2>2, TakeStep
<1>9. CASE WorkEnds \/ DrainWorkEnds
  BY <1>1, <1>9, WorkedStep
<1>10. CASE DrainEnds
  BY <1>1, <1>10, DrainEndsStep
<1>11. QED
  BY <1>1, <1>2, <1>3, <1>4, <1>5, <1>6, <1>7, <1>8, <1>9, <1>10 DEF Next, Worker

\* The inductive invariant holds of the message loop, for every set of posters,
\* either condition variable and every semaphore maximum.
THEOREM LoopInvariant == Spec => []InductiveInv
<1>1. Init => InductiveInv
  BY InitHolds
<1>2. InductiveInv /\ [Next]_vars => InductiveInv'
  BY StepHolds
<1>3. QED BY <1>1, <1>2, PTL DEF Spec

\* No wakeup is lost: a message never waits for a sleeping worker, although
\* pushBack signals only on the first message of an empty queue.
THEOREM WakeupNotLost == Spec => []NoLostWakeup
<1>1. InductiveInv => NoLostWakeup
  BY DEF InductiveInv
<1>2. QED BY <1>1, LoopInvariant, PTL

\* Messages are handled once each and in the order they were queued.
THEOREM HandledInOrder == Spec => []InOrder
<1>1. InductiveInv => InOrder
  BY DEF InductiveInv
<1>2. QED BY <1>1, LoopInvariant, PTL

\* FINI has been handled when the worker leaves, and nothing that the timer, the selector or
\* the loop itself has posted is left behind.
THEOREM NothingLeftBehind == Spec => []DrainedAtExit
<1>1. InductiveInv => DrainedAtExit
  BY DEF InductiveInv
<1>2. QED BY <1>1, LoopInvariant, PTL
=============================================================================
