---------------------------- MODULE MsgTimerProofs ---------------------------
(***************************************************************************)
(* The invariants of MsgTimer for every set of timers and delayed works,    *)
(* all intervals, both condition variables and every semaphore maximum.     *)
(***************************************************************************)
EXTENDS MsgTimer, SequenceTheorems, FiniteSetTheorems, WellFoundedInduction, TLAPS

\* A non-empty set of naturals has a least element.
LEMMA LeastNat ==
    ASSUME NEW S, S \subseteq Nat, S # {}
    PROVE  \E x \in S : \A y \in S : x <= y
<1>1. PICK x \in S : \A y \in S : ~(<<y, x>> \in OpToRel(<, Nat))
  BY NatLessThanWellFounded, WFMin
<1>2. \A y \in S : <<y, x>> \in OpToRel(<, Nat) <=> y < x
  BY DEF OpToRel
<1>3. \A y \in S : ~(y < x)
  BY <1>1, <1>2
<1>4. \A y \in S : y \in Nat /\ x \in Nat
  OBVIOUS
<1>5. \A y \in S : x <= y
  BY <1>3, <1>4
<1>6. QED BY <1>5

-----------------------------------------------------------------------------
(* The slots                                                               *)

LEMMA SlotNew ==
    ASSUME NEW id \in Ids
    PROVE  /\ Slot(id, Interval[id]) \in Slots /\ Slot(id, Interval[id]).id = id
           /\ Slot(id, Interval[id]).left = Interval[id] /\ Slot(id, Interval[id]).age = 0
           /\ Interval[id] \in Nat \ {0}
<1>1. Interval[id] \in Nat \ {0}
  BY TimerAssumption
<1>2. (id \in Timers) \in BOOLEAN
  OBVIOUS
<1>. DEFINE repeats == id \in Timers
<1>3. Slot(id, Interval[id]) = [id |-> id, left |-> Interval[id], repeat |-> repeats, age |-> 0]
  BY DEF Slot
<1>4. repeats \in BOOLEAN
  BY <1>2
<1>. HIDE DEF repeats
<1>5. Slot(id, Interval[id]) \in Slots
  BY <1>1, <1>3, <1>4 DEF Slots
<1>6. QED BY <1>1, <1>3, <1>5

LEMMA SlotPastDue ==
    ASSUME NEW slot \in Slots
    PROVE  /\ [slot EXCEPT !.left = -1] \in Slots
           /\ [slot EXCEPT !.left = -1].id = slot.id
           /\ [slot EXCEPT !.left = -1].left = -1
           /\ [slot EXCEPT !.left = -1].age = slot.age
<1>1. -1 \in Int
  OBVIOUS
<1>2. [slot EXCEPT !.left = -1] \in Slots
  BY <1>1, Zenon DEF Slots
<1>3. /\ [slot EXCEPT !.left = -1].id = slot.id
      /\ [slot EXCEPT !.left = -1].left = -1
      /\ [slot EXCEPT !.left = -1].age = slot.age
  BY DEF Slots
<1>4. QED BY <1>2, <1>3

-----------------------------------------------------------------------------
(* The lists                                                               *)

\* Erasing keeps the order of the others: the n-th that is left was not in front
\* of the n-th place, and none of them was to be erased (cancelWork).
LEMMA EraseFacts ==
    ASSUME NEW T, NEW s \in Seq(T), NEW out
    PROVE  /\ Erase(s, out) \in Seq(T) /\ Len(Erase(s, out)) \in Nat
           /\ \E f \in [1 .. Len(Erase(s, out)) -> 1 .. Len(s)] :
                 /\ \A m, n \in 1 .. Len(Erase(s, out)) : f[m] = f[n] => m = n
                 /\ \A n \in 1 .. Len(Erase(s, out)) :
                       Erase(s, out)[n] = s[f[n]] /\ f[n] >= n /\ f[n] \notin out
<1>. DEFINE kept == (1 .. Len(s)) \ out
            upTo(i) == {k \in kept : k <= i}
            num == Cardinality(kept)
            rank == [i \in kept |-> Cardinality(upTo(i))]
            nth(n) == CHOOSE i \in kept : Cardinality(upTo(i)) = n
            f == [n \in 1 .. num |-> nth(n)]
<1>1. Len(s) \in Nat /\ IsFiniteSet(1 .. Len(s)) /\ IsFiniteSet(kept) /\ num \in Nat
  <2>1. Len(s) \in Nat /\ IsFiniteSet(1 .. Len(s))
    BY LenProperties, FS_Interval
  <2>2. kept \in SUBSET (1 .. Len(s))
    OBVIOUS
  <2>3. QED BY <2>1, <2>2, FS_Subset, FS_CardinalityType
<1>2. ASSUME NEW i \in kept
      PROVE  /\ IsFiniteSet(upTo(i)) /\ rank[i] \in 1 .. num /\ rank[i] <= i
  <2>1. upTo(i) \in SUBSET kept /\ upTo(i) \in SUBSET (1 .. i) /\ i \in upTo(i) /\ i \in Nat
    BY <1>1
  <2>2. IsFiniteSet(upTo(i)) /\ Cardinality(upTo(i)) <= num /\ Cardinality(upTo(i)) \in Nat
    BY <1>1, <2>1, FS_Subset, FS_CardinalityType
  <2>3. IsFiniteSet(1 .. i) /\ Cardinality(1 .. i) = i
    BY <2>1, <1>1, FS_Interval
  <2>4. Cardinality(upTo(i)) <= i
    BY <2>1, <2>3, FS_Subset
  <2>5. Cardinality(upTo(i)) # 0
    BY <2>1, <2>2, FS_EmptySet
  <2>6. QED BY <1>1, <2>2, <2>4, <2>5
<1>3. ASSUME NEW i \in kept, NEW j \in kept, rank[i] = rank[j] PROVE i = j
  <2>1. SUFFICES ASSUME NEW a \in kept, NEW b \in kept, a < b, rank[a] = rank[b] PROVE FALSE
    BY <1>1, <1>3
  <2>2. upTo(a) \in SUBSET upTo(b) /\ b \in upTo(b) /\ b \notin upTo(a)
    BY <1>1, <2>1
  <2>3. upTo(a) = upTo(b)
    BY <1>2, <2>1, <2>2, FS_Subset
  <2>4. QED BY <2>2, <2>3
<1>4. ASSUME NEW n \in 1 .. num PROVE \E i \in kept : rank[i] = n
  <2>1. rank \in Injection(kept, 1 .. num)
    BY <1>2, <1>3 DEF Injection, IsInjective
  <2>2. IsFiniteSet(1 .. num) /\ Cardinality(1 .. num) = num
    BY <1>1, FS_Interval
  <2>3. rank \in Surjection(kept, 1 .. num)
    BY <2>1, <2>2, FS_Injection
  <2>4. QED BY <2>3 DEF Surjection
<1>5. ASSUME NEW n \in 1 .. num
      PROVE  nth(n) \in kept /\ rank[nth(n)] = n /\ nth(n) >= n
  <2>1. \E i \in kept : Cardinality(upTo(i)) = n
    BY <1>4
  <2>2. nth(n) \in kept /\ Cardinality(upTo(nth(n))) = n
    BY <2>1
  <2>3. rank[nth(n)] = n
    BY <2>2
  <2>4. QED BY <2>2, <2>3, <1>2
<1>6. Erase(s, out) = [n \in 1 .. num |-> s[nth(n)]]
  BY DEF Erase
<1>. HIDE DEF nth, num, rank
<1>7. \A n \in 1 .. num : nth(n) \in 1 .. Len(s) /\ nth(n) \notin out
  BY <1>5
<1>8. \A n \in 1 .. num : s[nth(n)] \in T
  BY <1>7, ElementOfSeq
<1>9. Erase(s, out) \in Seq(T) /\ Len(Erase(s, out)) = num
  <2>1. [n \in 1 .. num |-> s[nth(n)]] \in Seq(T)
    BY <1>1, <1>8, IsASeq
  <2>2. DOMAIN [n \in 1 .. num |-> s[nth(n)]] = 1 .. num
    OBVIOUS
  <2>3. QED BY <1>1, <1>6, <2>1, <2>2, LenProperties
<1>10. /\ f \in [1 .. num -> 1 .. Len(s)]
       /\ \A m, n \in 1 .. num : f[m] = f[n] => m = n
       /\ \A n \in 1 .. num : Erase(s, out)[n] = s[f[n]] /\ f[n] >= n /\ f[n] \notin out
  <2>1. \A m, n \in 1 .. num : nth(m) = nth(n) => m = n
    BY <1>5
  <2>2. QED BY <1>5, <1>6, <1>7, <2>1
<1>. HIDE DEF f
<1>11. QED BY <1>1, <1>9, <1>10

\* A new slot never comes in front of another one, and the others keep their
\* order (JyMsgTimer::insertSlot).
LEMMA InsertFacts ==
    ASSUME NEW s \in Seq(Slots), NEW slot \in Slots
    PROVE  /\ InsertSlot(s, slot) \in Seq(Slots)
           /\ Len(InsertSlot(s, slot)) = Len(s) + 1 /\ Len(s) \in Nat
           /\ \A i \in 1 .. Len(s) + 1 :
                 \/ InsertSlot(s, slot)[i] = slot /\ (i = 1 => Len(s) = 0)
                 \/ \E j \in 1 .. Len(s) : InsertSlot(s, slot)[i] = s[j] /\ (i = 1 <=> j = 1)
<1>. DEFINE n == Len(s)
            earlier == {i \in 1 .. n : s[i].left < slot.left}
            min == CHOOSE k \in earlier : \A j \in earlier : k <= j
<1>1. n \in Nat /\ \A i \in 1 .. n : s[i] \in Slots
  BY LenProperties, ElementOfSeq
<1>2. CASE earlier = {}
  <2>1. InsertSlot(s, slot) = Append(s, slot)
    BY <1>2 DEF InsertSlot
  <2>2. /\ Append(s, slot) \in Seq(Slots) /\ Len(Append(s, slot)) = n + 1
        /\ \A i \in 1 .. n : Append(s, slot)[i] = s[i]
        /\ Append(s, slot)[n + 1] = slot
    BY AppendProperties
  <2>3. ASSUME NEW i \in 1 .. n + 1
        PROVE  \/ Append(s, slot)[i] = slot /\ (i = 1 => n = 0)
               \/ \E j \in 1 .. n : Append(s, slot)[i] = s[j] /\ (i = 1 <=> j = 1)
    <3>1. CASE i = n + 1
      BY <3>1, <2>2, <1>1
    <3>2. CASE i \in 1 .. n
      BY <3>2, <2>2
    <3>3. QED BY <3>1, <3>2, <1>1
  <2>4. QED BY <1>1, <2>1, <2>2, <2>3
<1>3. CASE earlier # {}
  <2>1. min \in 1 .. n
    <3>1. earlier \subseteq Nat
      OBVIOUS
    <3>2. \E k \in earlier : \A j \in earlier : k <= j
      BY <1>3, <3>1, LeastNat
    <3>3. min \in earlier
      BY <3>2
    <3>4. QED BY <3>3
  <2>2. InsertSlot(s, slot) = SubSeq(s, 1, min) \o <<slot>> \o SubSeq(s, min + 1, n)
    BY <1>3 DEF InsertSlot
  <2>. HIDE DEF min
  <2>. DEFINE a == SubSeq(s, 1, min)
              b == SubSeq(s, min + 1, n)
  <2>3. /\ a \in Seq(Slots) /\ Len(a) = min /\ \A i \in 1 .. min : a[i] = s[i]
        /\ b \in Seq(Slots) /\ Len(b) = n - min /\ \A i \in 1 .. n - min : b[i] = s[min + i]
    BY <1>1, <2>1, SubSeqProperties
  <2>. HIDE DEF a, b
  <2>4. /\ a \o <<slot>> \in Seq(Slots) /\ Len(a \o <<slot>>) = min + 1
        /\ \A i \in 1 .. min : (a \o <<slot>>)[i] = s[i]
        /\ (a \o <<slot>>)[min + 1] = slot
    <3>1. a \o <<slot>> = Append(a, slot)
      BY <2>3, AppendIsConcat
    <3>2. QED BY <2>1, <2>3, <3>1, AppendProperties
  <2>5. /\ (a \o <<slot>>) \o b \in Seq(Slots) /\ Len((a \o <<slot>>) \o b) = n + 1
        /\ \A i \in 1 .. min + 1 : ((a \o <<slot>>) \o b)[i] = (a \o <<slot>>)[i]
        /\ \A i \in min + 2 .. n + 1 : ((a \o <<slot>>) \o b)[i] = b[i - (min + 1)]
    <3>. DEFINE c == a \o <<slot>>
    <3>. HIDE DEF c
    <3>1. c \in Seq(Slots) /\ Len(c) = min + 1
      BY <2>4 DEF c
    <3>2. /\ c \o b \in Seq(Slots) /\ Len(c \o b) = Len(c) + Len(b)
          /\ \A i \in 1 .. Len(c) + Len(b) :
                (c \o b)[i] = IF i <= Len(c) THEN c[i] ELSE b[i - Len(c)]
      BY <2>3, <3>1, ConcatProperties
    <3>3. min \in Nat /\ n - min \in Nat /\ Len(c) + Len(b) = n + 1
      BY <1>1, <2>1, <2>3, <3>1
    <3>4. /\ c \o b \in Seq(Slots) /\ Len(c \o b) = n + 1
          /\ \A i \in 1 .. min + 1 : (c \o b)[i] = c[i]
          /\ \A i \in min + 2 .. n + 1 : (c \o b)[i] = b[i - (min + 1)]
      BY <3>1, <3>2, <3>3
    <3>5. QED BY <3>4 DEF c
  <2>6. ASSUME NEW i \in 1 .. n + 1
        PROVE  \/ ((a \o <<slot>>) \o b)[i] = slot /\ (i = 1 => n = 0)
               \/ \E j \in 1 .. n : ((a \o <<slot>>) \o b)[i] = s[j] /\ (i = 1 <=> j = 1)
    <3>1. CASE i \in 1 .. min
      <4>1. ((a \o <<slot>>) \o b)[i] = s[i] /\ i \in 1 .. n
        BY <3>1, <1>1, <2>1, <2>4, <2>5
      <4>2. QED BY <4>1
    <3>2. CASE i = min + 1
      BY <3>2, <1>1, <2>1, <2>4, <2>5
    <3>3. CASE i \in min + 2 .. n + 1
      <4>1. i - (min + 1) \in 1 .. n - min /\ min + (i - (min + 1)) = i - 1
        BY <3>3, <1>1, <2>1
      <4>2. ((a \o <<slot>>) \o b)[i] = s[i - 1]
        BY <3>3, <4>1, <2>3, <2>5
      <4>3. i - 1 \in 1 .. n /\ i # 1 /\ i - 1 # 1
        BY <3>3, <1>1, <2>1
      <4>4. QED BY <4>2, <4>3
    <3>4. i \in 1 .. min \/ i = min + 1 \/ i \in min + 2 .. n + 1
      BY <1>1, <2>1
    <3>5. QED BY <3>1, <3>2, <3>3, <3>4
  <2>7. QED BY <1>1, <2>2, <2>5, <2>6 DEF a, b
<1>4. QED BY <1>2, <1>3

\* The places of a queue that hold one message.
At(q, x) == {i \in 1 .. Len(q) : q[i] = x}

LEMMA AtFinite ==
    ASSUME NEW T, NEW q \in Seq(T), NEW x
    PROVE  IsFiniteSet(At(q, x)) /\ Cardinality(At(q, x)) \in Nat
<1>1. IsFiniteSet(1 .. Len(q))
  BY LenProperties, FS_Interval
<1>2. At(q, x) \subseteq 1 .. Len(q)
  BY DEF At
<1>3. QED BY <1>1, <1>2, FS_Subset, FS_CardinalityType

\* A queue from which something was taken holds no message more often.
LEMMA AtEmbeds ==
    ASSUME NEW T, NEW q \in Seq(T), NEW r, NEW f \in [1 .. Len(r) -> 1 .. Len(q)],
           \A m, n \in 1 .. Len(r) : f[m] = f[n] => m = n,
           \A n \in 1 .. Len(r) : r[n] = q[f[n]], NEW x
    PROVE  Cardinality(At(r, x)) <= Cardinality(At(q, x))
<1>. DEFINE g == [n \in At(r, x) |-> f[n]]
<1>1. g \in [At(r, x) -> At(q, x)] /\ \A m, n \in At(r, x) : g[m] = g[n] => m = n
  BY DEF At
<1>2. g \in Injection(At(r, x), At(q, x))
  BY <1>1 DEF Injection, IsInjective
<1>3. QED BY <1>2, AtFinite, FS_Injection

LEMMA AtTail ==
    ASSUME NEW T, NEW q \in Seq(T), q # <<>>, NEW x
    PROVE  Cardinality(At(Tail(q), x)) <= Cardinality(At(q, x))
<1>. DEFINE f == [n \in 1 .. Len(Tail(q)) |-> n + 1]
<1>1. /\ Len(q) \in Nat \ {0} /\ Len(Tail(q)) = Len(q) - 1
      /\ \A i \in 1 .. Len(Tail(q)) : Tail(q)[i] = q[i + 1]
  BY HeadTailProperties, EmptySeq
<1>2. /\ f \in [1 .. Len(Tail(q)) -> 1 .. Len(q)]
      /\ \A m, n \in 1 .. Len(Tail(q)) : f[m] = f[n] => m = n
      /\ \A n \in 1 .. Len(Tail(q)) : Tail(q)[n] = q[f[n]]
  BY <1>1
<1>. HIDE DEF f
<1>3. QED BY <1>2, AtEmbeds

LEMMA AtAppend ==
    ASSUME NEW T, NEW q \in Seq(T), NEW m \in T, NEW x
    PROVE  Cardinality(At(Append(q, m), x)) = Cardinality(At(q, x)) + (IF m = x THEN 1 ELSE 0)
<1>. DEFINE n == Len(q)
<1>1. /\ n \in Nat /\ Len(Append(q, m)) = n + 1
      /\ \A i \in 1 .. n : Append(q, m)[i] = q[i]
      /\ Append(q, m)[n + 1] = m
  BY AppendProperties, LenProperties
<1>2. IsFiniteSet(At(q, x)) /\ Cardinality(At(q, x)) \in Nat
  BY AtFinite
<1>3. CASE m = x
  <2>1. At(Append(q, m), x) = At(q, x) \cup {n + 1} /\ n + 1 \notin At(q, x)
    BY <1>1, <1>3 DEF At
  <2>2. QED BY <1>2, <1>3, <2>1, FS_AddElement
<1>4. CASE m # x
  <2>1. At(Append(q, m), x) = At(q, x)
    BY <1>1, <1>4 DEF At
  <2>2. QED BY <1>2, <1>4, <2>1
<1>5. QED BY <1>3, <1>4

-----------------------------------------------------------------------------
(* The steps                                                               *)

Msgs == Ids \cup {"INIT", "FINI"}

NoSlot(id) == \A i \in 1 .. Len(schedule) : schedule[i].id # id
InHand(id) == IF pc = "post" /\ hand = id THEN 1 ELSE 0

LEMMA QuietIs ==
    CancelQuiet <=> \A id \in killed : NoSlot(id) /\ Cardinality(At(queue, id)) + InHand(id) <= 1
BY DEF CancelQuiet, NoSlot, InHand, At

LEMMA QuietNext ==
    CancelQuiet' <=> \A id \in killed' : NoSlot(id)' /\ Cardinality(At(queue', id)) + InHand(id)' <= 1
BY DEF CancelQuiet, NoSlot, InHand, At

LEMMA InvFacts ==
    ASSUME TypeOK
    PROVE  /\ schedule \in Seq(Slots) /\ Len(schedule) \in Nat
           /\ \A i \in 1 .. Len(schedule) :
                 /\ schedule[i] \in Slots
                 /\ schedule[i].id \in Ids /\ schedule[i].left \in Int /\ schedule[i].age \in Nat
                 /\ Interval[schedule[i].id] \in Nat \ {0}
           /\ queue \in Seq(Msgs) /\ Len(queue) \in Nat
           /\ \A id : Cardinality(At(queue, id)) \in Nat
           /\ killed \subseteq Ids
           /\ early \in Nat /\ signals \in Nat /\ spare \in Nat /\ wait \in Nat
<1>1. schedule \in Seq(Slots) /\ queue \in Seq(Msgs) /\ killed \subseteq Ids
      /\ early \in Nat /\ signals \in Nat /\ spare \in Nat /\ wait \in Nat
  BY DEF TypeOK, Msgs
<1>2. \A i \in 1 .. Len(schedule) : schedule[i] \in Slots
  BY <1>1, ElementOfSeq
<1>3. ASSUME NEW i \in 1 .. Len(schedule)
      PROVE  /\ schedule[i].id \in Ids /\ schedule[i].left \in Int /\ schedule[i].age \in Nat
             /\ Interval[schedule[i].id] \in Nat \ {0}
  BY <1>2, TimerAssumption DEF Slots
<1>4. \A id : Cardinality(At(queue, id)) \in Nat
  BY <1>1, AtFinite
<1>5. QED BY <1>1, <1>2, <1>3, <1>4, LenProperties

\* WhCond::signal adds one at most.
LEMMA SignalType == TypeOK => Signalled \in Nat /\ Signalled <= signals + 1
BY TimerAssumption DEF TypeOK, Signalled

\* The schedule and the queue stay as they are: CancelQuiet can only be helped.
LEMMA StillQuiet ==
    ASSUME InductiveInv, UNCHANGED <<schedule, queue, todo, erasing, killed, hand>>,
           pc' \in {pc, "test", "look", "wait", "waitTimed", "done"}
    PROVE  ErasingInv' /\ CancelQuiet'
<1>1. ErasingInv'
  BY DEF InductiveInv, ErasingInv
<1>2. CancelQuiet'
  <2>1. SUFFICES ASSUME NEW id \in killed
                 PROVE  NoSlot(id)' /\ Cardinality(At(queue', id)) + InHand(id)' <= 1
    BY QuietNext
  <2>2. NoSlot(id) /\ Cardinality(At(queue, id)) + InHand(id) <= 1
    BY QuietIs DEF InductiveInv
  <2>3. InHand(id)' <= InHand(id) /\ InHand(id) \in Nat /\ InHand(id)' \in Nat
    BY DEF InHand
  <2>4. At(queue', id) = At(queue, id) /\ Cardinality(At(queue, id)) \in Nat
    BY InvFacts DEF InductiveInv
  <2>5. QED BY <2>2, <2>3, <2>4 DEF NoSlot, At
<1>3. QED BY <1>1, <1>2

\* The turns of workProc that touch neither the schedule nor the queue, and the
\* owner's steps that post nothing.
LEMMA ThreadStep ==
    ASSUME InductiveInv,
           \/ TestRunning \/ WaitForSlot \/ Wake \/ TimeOut
           \/ StartTimer \/ StopReset \/ StopSignal \/ NullTimer
    PROVE  InductiveInv'
<1>. USE DEF InductiveInv
<1>1. UNCHANGED <<cond, schedule, queue, todo, erasing, killed, hand, early, spare>>
  BY DEF TestRunning, WaitForSlot, Wake, TimeOut, StartTimer, StopReset, StopSignal, NullTimer,
         timerVars, loopVars, histVars
<1>2. pc' \in {pc, "test", "look", "wait", "done"} /\ (pc' # pc => pc' # "post")
  BY DEF TestRunning, WaitForSlot, Wake, TimeOut, StartTimer, StopReset, StopSignal, NullTimer,
         timerVars
<1>3. TypeOK'
  <2>1. /\ pc' \in {"none", "test", "look", "wait", "waitTimed", "post", "done"}
        /\ pc' = "post" => hand \in Ids
    BY <1>2 DEF TypeOK
  <2>2. wait' \in {0, wait} /\ running' \in {TRUE, FALSE, running}
        /\ alive' \in {FALSE, alive} /\ dead' \in {TRUE, dead}
    BY DEF TypeOK, TestRunning, WaitForSlot, Wake, TimeOut, StartTimer, StopReset, StopSignal,
           NullTimer, timerVars, loopVars
  <2>3. owner' \in {"start", "startTimer", "started", "signal", "join", "fini"}
    BY DEF TypeOK, TestRunning, WaitForSlot, Wake, TimeOut, StartTimer, StopReset, StopSignal,
           NullTimer
  <2>4. signals' \in Nat
    <3>1. signals' \in {signals, Signalled, 0} \/ (signals > 0 /\ signals' = signals - 1)
      BY DEF TestRunning, WaitForSlot, Wake, TimeOut, StartTimer, StopReset, StopSignal, NullTimer
    <3>2. QED BY <3>1, SignalType DEF TypeOK
  <2>5. /\ wait \in Nat /\ running \in BOOLEAN /\ alive \in BOOLEAN /\ dead \in BOOLEAN
        /\ cond \in Conds /\ schedule \in Seq(Slots) /\ hand \in Ids \cup {None}
        /\ queue \in Seq(Ids \cup {"INIT", "FINI"}) /\ todo \in Seq(Timers)
        /\ erasing \in Ids \cup {None} /\ spare \in Nat /\ early \in Nat /\ killed \subseteq Ids
    BY DEF TypeOK
  <2>6. wait' \in Nat
    BY <2>2, <2>5
  <2>7. running' \in BOOLEAN /\ alive' \in BOOLEAN /\ dead' \in BOOLEAN
    BY <2>2, <2>5, Zenon
  <2>8. QED BY <1>1, <2>1, <2>3, <2>4, <2>5, <2>6, <2>7 DEF TypeOK
<1>4. ErasingInv' /\ CancelQuiet'
  BY <1>1, <1>2, StillQuiet
<1>5. SlotsInv'
  <2>1. pc' = "waitTimed" => pc = "waitTimed" /\ wait' = wait
    BY <1>2
    DEF TestRunning, WaitForSlot, Wake, TimeOut, StartTimer, StopReset, StopSignal, NullTimer, timerVars
  <2>2. QED BY <1>1, <2>1 DEF SlotsInv
<1>6. SignalsInv'
  <2>1. /\ early \in Nat /\ signals \in Nat /\ spare \in Nat /\ wait \in Nat
        /\ \A i \in 1 .. Len(schedule) :
              schedule[i].age \in Nat /\ Interval[schedule[i].id] \in Nat \ {0}
        /\ schedule \in Seq(Slots)
    BY InvFacts
  <2>2. CASE TestRunning \/ WaitForSlot
    <3>1. UNCHANGED <<signals, owner>> /\ pc \notin {"none", "wait", "waitTimed"}
          /\ (pc' = "wait" => schedule = <<>>) /\ pc' \in {"look", "done", "wait"}
      BY <2>2 DEF TestRunning, WaitForSlot
    <3>2. pc' = "wait" => ~FrontEarly'
      BY <1>1, <3>1 DEF FrontEarly
    <3>3. FrontEarly' <=> FrontEarly
      BY <1>1 DEF FrontEarly
    <3>4. QED BY <1>1, <2>1, <3>1, <3>2, <3>3 DEF SignalsInv
  <2>3. CASE Wake
    <3>1. /\ pc \in {"wait", "waitTimed"} /\ owner' = owner /\ pc' = "test"
          /\ cond = "semaphore" => signals > 0 /\ signals' = signals - 1
      BY <2>3, TimerAssumption DEF Wake, TypeOK
    <3>2. owner \notin {"start", "startTimer"}
      BY <3>1 DEF SignalsInv
    <3>3. FrontEarly' <=> FrontEarly
      BY <1>1 DEF FrontEarly
    <3>4. QED BY <1>1, <2>1, <3>1, <3>2, <3>3 DEF SignalsInv
  <2>4. CASE TimeOut
    <3>1. /\ pc = "waitTimed" /\ owner' = owner /\ pc' = "test" /\ signals' = signals
          /\ cond \in {"semaphore", "pthread"} /\ (cond = "semaphore" => wait = 0 /\ signals = 0)
      BY <2>4, TimerAssumption DEF TimeOut, TypeOK
    <3>2. owner \notin {"start", "startTimer"}
      BY <3>1 DEF SignalsInv
    <3>3. cond = "semaphore" /\ owner = "started" => early + signals' <= spare
      BY <2>1, <3>1 DEF SignalsInv
    <3>4. cond = "semaphore" => ~FrontEarly'
      <4>1. SUFFICES ASSUME cond = "semaphore", schedule # <<>>, schedule[1].left < 0
                     PROVE  ~(schedule[1].age < Interval[schedule[1].id])
        BY <1>1 DEF FrontEarly
      <4>2. 1 \in 1 .. Len(schedule)
        BY <2>1, <4>1, EmptySeq
      <4>3. schedule[1].age + 0 >= Interval[schedule[1].id]
        BY <3>1, <4>1 DEF SlotsInv
      <4>4. QED BY <2>1, <4>2, <4>3
    <3>5. QED BY <1>1, <2>1, <3>1, <3>2, <3>3, <3>4 DEF SignalsInv
  <2>5. CASE StartTimer
    <3>1. /\ owner = "startTimer" /\ pc = "none" /\ owner' = "started" /\ pc' = "test"
          /\ signals' = signals
      BY <2>5 DEF StartTimer, SignalsInv
    <3>2. QED BY <1>1, <3>1 DEF SignalsInv, FrontEarly
  <2>6. CASE StopReset \/ StopSignal
    BY <2>6 DEF SignalsInv, StopReset, StopSignal
  <2>7. CASE NullTimer
    BY <2>7, <1>1 DEF SignalsInv, FrontEarly, NullTimer, timerVars
  <2>8. QED BY <2>2, <2>3, <2>4, <2>5, <2>6, <2>7
<1>7. QED BY <1>3, <1>4, <1>5, <1>6

\* Time passes: what a slot has left goes down and its age goes up.
LEMMA TickStep ==
    ASSUME InductiveInv, Tick
    PROVE  InductiveInv'
<1>. USE DEF InductiveInv
<1>1. /\ UNCHANGED <<cond, pc, hand, signals, running, queue, todo, erasing, dead, owner, alive,
                     spare, early, killed>>
      /\ wait' \in Nat /\ (wait' = wait - 1 \/ (wait = 0 /\ wait' = 0))
  <2>1. wait' = IF wait = 0 THEN 0 ELSE wait - 1
    BY DEF Tick
  <2>2. wait \in Nat
    BY DEF TypeOK
  <2>3. wait' \in Nat /\ (wait' = wait - 1 \/ (wait = 0 /\ wait' = 0))
    <3>1. CASE wait = 0
      BY <2>1, <3>1
    <3>2. CASE wait # 0
      <4>1. wait' = wait - 1
        BY <2>1, <3>2
      <4>2. QED BY <2>2, <3>2, <4>1
    <3>3. QED BY <3>1, <3>2
  <2>4. QED BY <2>3 DEF Tick, loopVars, histVars
<1>2. /\ schedule \in Seq(Slots) /\ Len(schedule) \in Nat /\ wait \in Nat
      /\ \A i \in 1 .. Len(schedule) :
            /\ schedule[i] \in Slots /\ schedule[i].id \in Ids
            /\ schedule[i].left \in Int /\ schedule[i].age \in Nat
            /\ Interval[schedule[i].id] \in Nat \ {0}
      /\ early \in Nat /\ signals \in Nat /\ spare \in Nat
  BY InvFacts
<1>. DEFINE aged(i) == [schedule[i] EXCEPT !.left = IF @ < 0 THEN -1 ELSE @ - 1,
                                 !.age = IF @ < Interval[schedule[i].id] THEN @ + 1 ELSE @]
<1>3. schedule' = [i \in 1 .. Len(schedule) |-> aged(i)]
  BY DEF Tick
<1>4. ASSUME NEW i \in 1 .. Len(schedule)
      PROVE  /\ aged(i) \in Slots /\ aged(i).id = schedule[i].id
             /\ aged(i).left = IF schedule[i].left < 0 THEN -1 ELSE schedule[i].left - 1
             /\ aged(i).age = IF schedule[i].age < Interval[schedule[i].id]
                              THEN schedule[i].age + 1 ELSE schedule[i].age
  <2>1. schedule[i] \in Slots /\ Interval[schedule[i].id] \in Nat
    BY <1>2
  <2>2. /\ schedule[i].left \in Int /\ schedule[i].age \in Nat
    BY <1>2
  <2>3. /\ (IF schedule[i].left < 0 THEN -1 ELSE schedule[i].left - 1) \in Int
        /\ (IF schedule[i].age < Interval[schedule[i].id]
            THEN schedule[i].age + 1 ELSE schedule[i].age) \in Nat
    BY <2>2
  <2>. DEFINE l == IF schedule[i].left < 0 THEN -1 ELSE schedule[i].left - 1
              a == IF schedule[i].age < Interval[schedule[i].id]
                   THEN schedule[i].age + 1 ELSE schedule[i].age
  <2>4. aged(i) = [schedule[i] EXCEPT !.left = l, !.age = a]
    OBVIOUS
  <2>5. l \in Int /\ a \in Nat
    BY <2>3
  <2>. HIDE DEF aged, l, a
  <2>6. aged(i) \in Slots /\ aged(i).id = schedule[i].id /\ aged(i).left = l /\ aged(i).age = a
    <3>. DEFINE slot == schedule[i]
    <3>. HIDE DEF slot
    <3>1. /\ slot \in Slots /\ aged(i) = [slot EXCEPT !.left = l, !.age = a]
      BY <2>1, <2>4 DEF slot
    <3>2. aged(i) \in Slots
      BY <2>5, <3>1, Zenon DEF Slots
    <3>3. aged(i).id = slot.id /\ aged(i).left = l /\ aged(i).age = a
      BY <2>5, <3>1 DEF Slots
    <3>4. QED BY <3>2, <3>3 DEF slot
  <2>7. QED BY <2>6 DEF l, a
<1>. HIDE DEF aged
<1>5. /\ schedule' \in Seq(Slots) /\ Len(schedule') = Len(schedule)
      /\ \A i \in 1 .. Len(schedule) :
            /\ schedule'[i].id = schedule[i].id
            /\ schedule'[i].left = IF schedule[i].left < 0 THEN -1 ELSE schedule[i].left - 1
            /\ schedule'[i].age = IF schedule[i].age < Interval[schedule[i].id]
                                  THEN schedule[i].age + 1 ELSE schedule[i].age
  <2>1. [i \in 1 .. Len(schedule) |-> aged(i)] \in Seq(Slots)
    BY <1>2, <1>4, IsASeq
  <2>2. DOMAIN schedule' = 1 .. Len(schedule)
    BY <1>3
  <2>3. schedule' \in Seq(Slots) /\ Len(schedule') = Len(schedule)
    BY <1>2, <1>3, <2>1, <2>2, LenProperties
  <2>4. QED BY <1>3, <1>4, <2>3
<1>6. TypeOK'
  BY <1>1, <1>2, <1>5 DEF TypeOK
<1>7. SlotsInv'
  <2>1. ASSUME NEW i \in 1 .. Len(schedule)
        PROVE  /\ schedule'[i].left >= 0 => schedule'[i].left + schedule'[i].age >= Interval[schedule'[i].id]
               /\ i > 1 /\ schedule'[i].left < 0 => schedule'[i].age >= Interval[schedule'[i].id]
    <3>1. /\ schedule[i].left >= 0 => schedule[i].left + schedule[i].age >= Interval[schedule[i].id]
          /\ i > 1 /\ schedule[i].left < 0 => schedule[i].age >= Interval[schedule[i].id]
      BY DEF SlotsInv
    <3>2. /\ schedule[i].left \in Int /\ schedule[i].age \in Nat
          /\ Interval[schedule[i].id] \in Nat
      BY <1>2
    <3>3. /\ schedule'[i].id = schedule[i].id
          /\ schedule'[i].left = IF schedule[i].left < 0 THEN -1 ELSE schedule[i].left - 1
          /\ schedule'[i].age = IF schedule[i].age < Interval[schedule[i].id]
                                THEN schedule[i].age + 1 ELSE schedule[i].age
      BY <1>5
    <3>4. CASE schedule[i].left < 0
      BY <3>1, <3>2, <3>3, <3>4
    <3>5. CASE schedule[i].left >= 0
      BY <3>1, <3>2, <3>3, <3>5
    <3>6. QED BY <3>2, <3>4, <3>5
  <2>2. ASSUME pc = "waitTimed", schedule' # <<>>, schedule'[1].left < 0
        PROVE  schedule'[1].age + wait' >= Interval[schedule'[1].id]
    <3>1. 1 \in 1 .. Len(schedule) /\ schedule # <<>>
      BY <1>2, <1>5, <2>2, EmptySeq
    <3>2. /\ schedule[1].left \in Int /\ schedule[1].age \in Nat
          /\ Interval[schedule[1].id] \in Nat
      BY <1>2, <3>1
    <3>3. /\ schedule'[1].id = schedule[1].id
          /\ schedule'[1].left = IF schedule[1].left < 0 THEN -1 ELSE schedule[1].left - 1
          /\ schedule'[1].age = IF schedule[1].age < Interval[schedule[1].id]
                                THEN schedule[1].age + 1 ELSE schedule[1].age
      BY <1>5, <3>1
    <3>4. /\ schedule[1].left >= 0 => schedule[1].left + schedule[1].age >= Interval[schedule[1].id]
          /\ schedule[1].left < 0 => schedule[1].age + wait >= Interval[schedule[1].id]
      BY <2>2, <3>1 DEF SlotsInv
    <3>5. wait' \in Nat /\ (wait' = wait - 1 \/ (wait = 0 /\ wait' = 0))
      BY <1>1
    <3>6. CASE schedule[1].left < 0
      BY <1>2, <3>2, <3>3, <3>4, <3>5, <3>6
    <3>7. CASE schedule[1].left >= 0
      BY <2>2, <3>2, <3>3, <3>4, <3>5, <3>7
    <3>8. QED BY <3>2, <3>6, <3>7
  <2>3. QED BY <1>1, <1>5, <2>1, <2>2 DEF SlotsInv
<1>8. SignalsInv'
  <2>1. FrontEarly' => FrontEarly
    <3>1. SUFFICES ASSUME schedule' # <<>>, schedule'[1].left < 0,
                          schedule'[1].age < Interval[schedule'[1].id]
                   PROVE  FrontEarly
      BY <1>1 DEF FrontEarly
    <3>2. 1 \in 1 .. Len(schedule) /\ schedule # <<>>
      BY <1>2, <1>5, <3>1, EmptySeq
    <3>3. /\ schedule[1].left \in Int /\ schedule[1].age \in Nat
          /\ Interval[schedule[1].id] \in Nat
          /\ schedule[1].left >= 0 => schedule[1].left + schedule[1].age >= Interval[schedule[1].id]
      BY <1>2, <3>2 DEF SlotsInv
    <3>4. /\ schedule'[1].id = schedule[1].id
          /\ schedule'[1].left = IF schedule[1].left < 0 THEN -1 ELSE schedule[1].left - 1
          /\ schedule'[1].age = IF schedule[1].age < Interval[schedule[1].id]
                                THEN schedule[1].age + 1 ELSE schedule[1].age
      BY <1>5, <3>2
    <3>5. schedule[1].left < 0 /\ schedule[1].age < Interval[schedule[1].id]
      BY <3>1, <3>3, <3>4
    <3>6. QED BY <3>1, <3>2, <3>5 DEF FrontEarly
  <2>2. QED BY <1>1, <1>2, <2>1 DEF SignalsInv
<1>9. ErasingInv'
  BY <1>1, <1>5 DEF ErasingInv
<1>10. CancelQuiet'
  BY <1>1, <1>5 DEF CancelQuiet
<1>11. QED BY <1>6, <1>7, <1>8, <1>9, <1>10

\* A slot is added (createTimer, delayWork): it is not early, it comes in front of
\* none, and a signal that wakes nobody is counted.
LEMMA AddSlotStep ==
    ASSUME InductiveInv, NEW id \in Ids, AddSlot(id), erasing = None,
           UNCHANGED <<cond, pc, hand, wait, running, erasing, dead, owner, alive>>,
           todo' \in Seq(Timers), queue' \in Seq(Msgs),
           \A x : Cardinality(At(queue', x)) <= Cardinality(At(queue, x))
    PROVE  InductiveInv'
<1>. USE DEF InductiveInv
<1>. DEFINE new == Slot(id, Interval[id])
<1>1. /\ new \in Slots /\ new.id = id /\ new.left = Interval[id] /\ new.age = 0
      /\ Interval[id] \in Nat \ {0}
  BY SlotNew
<1>2. schedule' = InsertSlot(schedule, new) /\ early' = early /\ killed' = killed \ {id}
  BY DEF AddSlot
<1>. HIDE DEF new
<1>3. /\ schedule \in Seq(Slots) /\ Len(schedule) \in Nat /\ wait \in Nat
      /\ \A i \in 1 .. Len(schedule) :
            /\ schedule[i].id \in Ids /\ schedule[i].left \in Int /\ schedule[i].age \in Nat
            /\ Interval[schedule[i].id] \in Nat \ {0}
      /\ early \in Nat /\ signals \in Nat /\ spare \in Nat /\ killed \subseteq Ids
  BY InvFacts
<1>4. /\ schedule' \in Seq(Slots) /\ Len(schedule') = Len(schedule) + 1
      /\ \A i \in 1 .. Len(schedule') :
            \/ schedule'[i] = new /\ (i = 1 => Len(schedule) = 0)
            \/ \E j \in 1 .. Len(schedule) : schedule'[i] = schedule[j] /\ (i = 1 <=> j = 1)
  <2>. DEFINE s == InsertSlot(schedule, new)
  <2>1. /\ s \in Seq(Slots) /\ Len(s) = Len(schedule) + 1
        /\ \A i \in 1 .. Len(schedule) + 1 :
              \/ s[i] = new /\ (i = 1 => Len(schedule) = 0)
              \/ \E j \in 1 .. Len(schedule) : s[i] = schedule[j] /\ (i = 1 <=> j = 1)
    BY <1>1, <1>3, InsertFacts
  <2>2. schedule' = s
    BY <1>2
  <2>. HIDE DEF s
  <2>3. QED BY <2>1, <2>2
<1>5. 1 \in 1 .. Len(schedule') /\ (schedule' # <<>>)
  BY <1>3, <1>4, EmptySeq
<1>6. \/ schedule'[1] = new
      \/ schedule # <<>> /\ schedule'[1] = schedule[1]
  BY <1>3, <1>4, <1>5, EmptySeq
<1>7. /\ spare' \in Nat /\ signals' \in Nat
      /\ \/ /\ schedule = <<>> /\ pc \in {"wait", "waitTimed"} /\ signals = 0
            /\ spare' = spare /\ signals' <= 1
         \/ signals' <= signals + 1 /\ spare' = spare + 1
         \/ signals' = signals /\ spare' = spare
  <2>1. CASE schedule = <<>> /\ Asleep
    <3>1. spare' = spare /\ signals' = Signalled
      BY <2>1 DEF AddSlot
    <3>2. QED BY <1>3, <2>1, <3>1, SignalType DEF Asleep
  <2>2. CASE schedule = <<>> /\ ~Asleep
    <3>1. spare' = spare + 1 /\ signals' = Signalled
      BY <2>2 DEF AddSlot
    <3>2. QED BY <1>3, <3>1, SignalType
  <2>3. CASE schedule # <<>>
    <3>1. spare' = spare /\ signals' = signals
      BY <2>3 DEF AddSlot
    <3>2. QED BY <1>3, <3>1
  <2>4. QED BY <2>1, <2>2, <2>3
<1>8. TypeOK'
  <2>1. killed' \subseteq Ids
    BY <1>2, <1>3
  <2>2. QED BY <1>2, <1>4, <1>7, <2>1 DEF TypeOK, Msgs
<1>9. SlotsInv'
  <2>1. ASSUME NEW i \in 1 .. Len(schedule')
        PROVE  /\ schedule'[i].left >= 0 => schedule'[i].left + schedule'[i].age >= Interval[schedule'[i].id]
               /\ i > 1 /\ schedule'[i].left < 0 => schedule'[i].age >= Interval[schedule'[i].id]
    <3>1. CASE schedule'[i] = new
      BY <1>1, <3>1
    <3>2. ASSUME NEW j \in 1 .. Len(schedule), schedule'[i] = schedule[j], i = 1 <=> j = 1
          PROVE  /\ schedule'[i].left >= 0 => schedule'[i].left + schedule'[i].age >= Interval[schedule'[i].id]
                 /\ i > 1 /\ schedule'[i].left < 0 => schedule'[i].age >= Interval[schedule'[i].id]
      <4>1. /\ schedule[j].left >= 0 => schedule[j].left + schedule[j].age >= Interval[schedule[j].id]
            /\ j > 1 /\ schedule[j].left < 0 => schedule[j].age >= Interval[schedule[j].id]
        BY DEF SlotsInv
      <4>2. i > 1 => j > 1
        BY <1>3, <3>2
      <4>3. QED BY <3>2, <4>1, <4>2
    <3>3. QED BY <1>4, <3>1, <3>2
  <2>2. ASSUME pc = "waitTimed", schedule'[1].left < 0
        PROVE  schedule'[1].age + wait >= Interval[schedule'[1].id]
    <3>1. schedule # <<>> /\ schedule'[1] = schedule[1]
      BY <1>1, <1>6, <2>2
    <3>2. QED BY <2>2, <3>1 DEF SlotsInv
  <2>3. QED BY <2>1, <2>2 DEF SlotsInv
<1>10. SignalsInv'
  <2>1. (FrontEarly' => FrontEarly) /\ (FrontEarly => schedule # <<>>)
    BY <1>1, <1>6 DEF FrontEarly
  <2>2. /\ early \in Nat /\ signals \in Nat /\ spare \in Nat /\ early' = early
        /\ spare' \in Nat /\ signals' \in Nat
    BY <1>2, <1>3, <1>7
  <2>3. UNCHANGED <<cond, pc, owner>>
    OBVIOUS
  <2>4. CASE /\ schedule = <<>> /\ pc \in {"wait", "waitTimed"} /\ signals = 0
             /\ spare' = spare /\ signals' <= 1
    <3>1. early <= spare => early' <= spare' /\ early' + signals' <= spare' + 1
      <4>1. \A e, n, k \in Nat : e <= n /\ k <= 1 => e + k <= n + 1
        OBVIOUS
      <4>2. early' = early /\ spare' = spare /\ signals' \in Nat /\ signals' <= 1
        BY <2>2, <2>4
      <4>3. QED BY <2>2, <4>1, <4>2
    <3>2. ~FrontEarly' /\ pc' \in {"wait", "waitTimed"}
      BY <2>1, <2>3, <2>4
    <3>3. QED BY <2>3, <2>4, <3>1, <3>2 DEF SignalsInv
  <2>5. CASE signals' <= signals + 1 /\ spare' = spare + 1
    <3>1. /\ early + signals <= spare + 1 => early + signals' <= spare' + 1
          /\ early + signals <= spare => early + signals' <= spare'
          /\ early + signals < spare => early + signals' < spare'
          /\ early <= spare => early <= spare'
      BY <2>2, <2>5, <1>3
    <3>2. QED BY <2>1, <2>2, <2>3, <3>1 DEF SignalsInv
  <2>6. CASE signals' = signals /\ spare' = spare
    BY <2>1, <2>2, <2>3, <2>6 DEF SignalsInv
  <2>7. QED BY <1>7, <2>4, <2>5, <2>6
<1>11. ErasingInv'
  BY DEF ErasingInv
<1>12. CancelQuiet'
  <2>1. SUFFICES ASSUME NEW x \in killed, x # id
                 PROVE  NoSlot(x)' /\ Cardinality(At(queue', x)) + InHand(x)' <= 1
    BY <1>2, QuietNext
  <2>2. NoSlot(x) /\ Cardinality(At(queue, x)) + InHand(x) <= 1
    BY QuietIs
  <2>3. NoSlot(x)'
    BY <1>1, <1>4, <2>1, <2>2 DEF NoSlot
  <2>4. InHand(x)' = InHand(x) /\ InHand(x) \in Nat
    BY DEF InHand
  <2>5. Cardinality(At(queue', x)) \in Nat /\ Cardinality(At(queue, x)) \in Nat
    BY AtFinite, InvFacts
  <2>6. QED BY <2>2, <2>3, <2>4, <2>5
<1>13. QED BY <1>8, <1>9, <1>10, <1>11, <1>12

LEMMA TailType ==
    ASSUME NEW T, NEW q \in Seq(T), q # <<>>
    PROVE  Head(q) \in T /\ Tail(q) \in Seq(T)
BY HeadTailProperties

LEMMA CreateTimerStep == InductiveInv /\ CreateTimer => InductiveInv'
<1>. SUFFICES ASSUME InductiveInv, CreateTimer PROVE InductiveInv'
  OBVIOUS
<1>1. todo \in Seq(Timers) /\ queue \in Seq(Msgs) /\ (erasing # None => todo = <<>>)
  BY DEF InductiveInv, TypeOK, ErasingInv, Msgs
<1>2. /\ todo # <<>> /\ todo' = Tail(todo) /\ AddSlot(Head(todo))
      /\ UNCHANGED <<cond, pc, hand, wait, running, queue, erasing, dead, owner, alive>>
  BY DEF CreateTimer, timerVars
<1>3. Head(todo) \in Ids /\ todo' \in Seq(Timers)
  BY <1>1, <1>2, TailType DEF Ids
<1>4. \A x : Cardinality(At(queue', x)) <= Cardinality(At(queue, x))
  BY <1>1, <1>2, AtFinite
<1>5. QED BY <1>1, <1>2, <1>3, <1>4, AddSlotStep

LEMMA DelayWorkStep ==
    ASSUME InductiveInv, NEW id \in Delays, DelayWork(id)
    PROVE  InductiveInv'
<1>1. todo \in Seq(Timers) /\ queue \in Seq(Msgs)
  BY DEF InductiveInv, TypeOK, Msgs
<1>2. /\ queue # <<>> /\ queue' = Tail(queue) /\ AddSlot(id) /\ erasing = None
      /\ UNCHANGED <<cond, pc, hand, wait, running, todo, erasing, dead, owner, alive>>
  BY DEF DelayWork, Handles, timerVars
<1>3. id \in Ids /\ todo' \in Seq(Timers) /\ queue' \in Seq(Msgs)
  BY <1>1, <1>2, TailType DEF Ids
<1>4. \A x : Cardinality(At(queue', x)) <= Cardinality(At(queue, x))
  BY <1>1, <1>2, AtTail
<1>5. QED BY <1>2, <1>3, <1>4, AddSlotStep

\* A handler that takes its message and leaves the schedule alone.
LEMMA TakeStep ==
    ASSUME InductiveInv, queue # <<>>, queue' = Tail(queue), erasing = None,
           todo' \in Seq(Timers),
           UNCHANGED <<cond, schedule, pc, hand, wait, signals, running, erasing, dead, owner,
                       alive, spare, early, killed>>
    PROVE  InductiveInv'
<1>. USE DEF InductiveInv
<1>1. queue \in Seq(Msgs)
  BY DEF TypeOK, Msgs
<1>2. queue' \in Seq(Msgs)
  BY <1>1, TailType
<1>3. TypeOK'
  BY <1>2 DEF TypeOK, Msgs
<1>4. SlotsInv' /\ SignalsInv' /\ ErasingInv'
  BY DEF SlotsInv, SignalsInv, ErasingInv, FrontEarly
<1>5. CancelQuiet'
  <2>1. SUFFICES ASSUME NEW x \in killed
                 PROVE  NoSlot(x)' /\ Cardinality(At(queue', x)) + InHand(x)' <= 1
    BY QuietNext
  <2>2. NoSlot(x) /\ Cardinality(At(queue, x)) + InHand(x) <= 1
    BY QuietIs
  <2>3. Cardinality(At(queue', x)) <= Cardinality(At(queue, x))
    BY <1>1, AtTail
  <2>4. InHand(x)' = InHand(x) /\ InHand(x) \in Nat
    BY DEF InHand
  <2>5. Cardinality(At(queue', x)) \in Nat /\ Cardinality(At(queue, x)) \in Nat
    BY <1>1, <1>2, AtFinite
  <2>6. QED BY <2>2, <2>3, <2>4, <2>5 DEF NoSlot
<1>6. QED BY <1>3, <1>4, <1>5

LEMMA OnMessageStep == InductiveInv /\ OnMessage => InductiveInv'
<1>. SUFFICES ASSUME InductiveInv, OnMessage PROVE InductiveInv'
  OBVIOUS
<1>1. todo' \in Seq(Timers)
  BY DEF OnMessage, InductiveInv, TypeOK
<1>2. QED BY <1>1, TakeStep DEF OnMessage, Handles, timerVars, histVars

LEMMA OnInitStep == InductiveInv /\ OnInit => InductiveInv'
<1>. SUFFICES ASSUME InductiveInv, OnInit PROVE InductiveInv'
  OBVIOUS
<1>1. todo' \in Seq(Timers)
  <2>1. PICK order \in Orders(Timers) : todo' = order
    BY DEF OnInit
  <2>2. Cardinality(Timers) \in Nat
    BY TimerAssumption, FS_CardinalityType
  <2>3. order \in [1 .. Cardinality(Timers) -> Timers]
    BY DEF Orders
  <2>4. order \in Seq(Timers)
    BY <2>2, <2>3 DEF Seq
  <2>5. QED BY <2>1, <2>4
<1>2. QED BY <1>1, TakeStep DEF OnInit, Handles, timerVars, histVars

\* The front slot fires: the others are behind it, so what they have left is
\* right, and a repeating one starts again with its whole interval.
LEMMA FireStep == InductiveInv /\ Fire => InductiveInv'
<1>. SUFFICES ASSUME InductiveInv, Fire PROVE InductiveInv'
  OBVIOUS
<1>. USE DEF InductiveInv
<1>. DEFINE slot == Head(schedule)
            new  == Slot(slot.id, Interval[slot.id])
            rest == Tail(schedule)
<1>1. /\ schedule \in Seq(Slots) /\ Len(schedule) \in Nat
      /\ \A i \in 1 .. Len(schedule) :
            /\ schedule[i] \in Slots
            /\ schedule[i].id \in Ids /\ schedule[i].left \in Int /\ schedule[i].age \in Nat
            /\ Interval[schedule[i].id] \in Nat \ {0}
      /\ early \in Nat /\ signals \in Nat /\ spare \in Nat /\ killed \subseteq Ids
  BY InvFacts
<1>2. /\ pc = "look" /\ schedule # <<>> /\ slot.left < 0 /\ hand' = slot.id /\ pc' = "post"
      /\ schedule' = IF slot.repeat THEN InsertSlot(rest, new) ELSE rest
      /\ early' = IF slot.age < Interval[slot.id] /\ early <= spare THEN early + 1 ELSE early
      /\ UNCHANGED <<cond, wait, signals, running, queue, todo, erasing, dead, owner, alive,
                     spare, killed>>
  BY DEF Fire, loopVars
<1>3. /\ slot = schedule[1] /\ 1 \in 1 .. Len(schedule)
      /\ rest \in Seq(Slots) /\ Len(rest) = Len(schedule) - 1
      /\ \A i \in 1 .. Len(rest) : rest[i] = schedule[i + 1]
  BY <1>1, <1>2, HeadTailProperties, EmptySeq
<1>4. /\ slot.id \in Ids /\ slot.left \in Int /\ slot.age \in Nat
      /\ Interval[slot.id] \in Nat \ {0}
  BY <1>1, <1>3
<1>5. /\ new \in Slots /\ new.id = slot.id /\ new.left = Interval[slot.id] /\ new.age = 0
  BY <1>4, SlotNew
<1>. HIDE DEF slot, new, rest
<1>6. \A i \in 1 .. Len(rest) :
         /\ rest[i].left >= 0 => rest[i].left + rest[i].age >= Interval[rest[i].id]
         /\ rest[i].left < 0 => rest[i].age >= Interval[rest[i].id]
         /\ \E j \in 1 .. Len(schedule) : rest[i] = schedule[j]
  <2>1. SUFFICES ASSUME NEW i \in 1 .. Len(rest)
                 PROVE  /\ rest[i].left >= 0 => rest[i].left + rest[i].age >= Interval[rest[i].id]
                        /\ rest[i].left < 0 => rest[i].age >= Interval[rest[i].id]
                        /\ \E j \in 1 .. Len(schedule) : rest[i] = schedule[j]
    OBVIOUS
  <2>2. i + 1 \in 1 .. Len(schedule) /\ i + 1 > 1 /\ rest[i] = schedule[i + 1]
    BY <1>1, <1>3
  <2>3. QED BY <2>2 DEF SlotsInv
<1>7. /\ schedule' \in Seq(Slots)
      /\ \A i \in 1 .. Len(schedule') :
            \/ schedule'[i] = new
            \/ \E j \in 1 .. Len(rest) : schedule'[i] = rest[j]
  <2>1. CASE slot.repeat
    <3>. DEFINE s == InsertSlot(rest, new)
    <3>1. /\ s \in Seq(Slots) /\ Len(s) = Len(rest) + 1
          /\ \A i \in 1 .. Len(rest) + 1 :
                \/ s[i] = new /\ (i = 1 => Len(rest) = 0)
                \/ \E j \in 1 .. Len(rest) : s[i] = rest[j] /\ (i = 1 <=> j = 1)
      BY <1>3, <1>5, InsertFacts
    <3>2. schedule' = s
      BY <1>2, <2>1
    <3>. HIDE DEF s
    <3>3. QED BY <3>1, <3>2
  <2>2. CASE ~slot.repeat
    <3>1. schedule' = rest
      BY <1>2, <2>2
    <3>2. QED BY <1>3, <3>1
  <2>3. QED BY <2>1, <2>2
<1>8. \A i \in 1 .. Len(schedule') :
         /\ schedule'[i].left >= 0 => schedule'[i].left + schedule'[i].age >= Interval[schedule'[i].id]
         /\ schedule'[i].left < 0 => schedule'[i].age >= Interval[schedule'[i].id]
         /\ \/ schedule'[i].id = slot.id
            \/ \E j \in 1 .. Len(schedule) : schedule'[i].id = schedule[j].id
  <2>1. SUFFICES ASSUME NEW i \in 1 .. Len(schedule')
                 PROVE  /\ schedule'[i].left >= 0
                              => schedule'[i].left + schedule'[i].age >= Interval[schedule'[i].id]
                        /\ schedule'[i].left < 0 => schedule'[i].age >= Interval[schedule'[i].id]
                        /\ \/ schedule'[i].id = slot.id
                           \/ \E j \in 1 .. Len(schedule) : schedule'[i].id = schedule[j].id
    OBVIOUS
  <2>2. CASE schedule'[i] = new
    BY <1>4, <1>5, <2>2
  <2>3. CASE \E j \in 1 .. Len(rest) : schedule'[i] = rest[j]
    BY <1>6, <2>3
  <2>4. QED BY <1>7, <2>2, <2>3
<1>9. TypeOK'
  <2>1. early' \in Nat
    BY <1>1, <1>2
  <2>2. QED BY <1>2, <1>4, <1>7, <2>1 DEF TypeOK
<1>10. SlotsInv'
  BY <1>2, <1>8 DEF SlotsInv
<1>11. SignalsInv'
  <2>1. ~FrontEarly'
    <3>1. SUFFICES ASSUME schedule' # <<>>, schedule'[1].left < 0,
                          schedule'[1].age < Interval[schedule'[1].id]
                   PROVE  FALSE
      BY DEF FrontEarly
    <3>2. 1 \in 1 .. Len(schedule')
      BY <1>7, <3>1, EmptySeq, LenProperties
    <3>3. schedule'[1].age \in Nat /\ Interval[schedule'[1].id] \in Nat
      <4>1. schedule'[1] \in Slots
        BY <1>7, <3>2, ElementOfSeq
      <4>2. QED BY <4>1, TimerAssumption DEF Slots
    <3>4. QED BY <1>8, <3>1, <3>2, <3>3
  <2>2. ASSUME cond = "semaphore", owner \in {"start", "startTimer", "started"}
        PROVE  early' + signals <= spare
    <3>1. early + signals <= spare /\ (FrontEarly => early + signals < spare)
      BY <1>2, <2>2 DEF SignalsInv
    <3>2. CASE slot.age < Interval[slot.id]
      <4>1. FrontEarly
        BY <1>2, <1>3, <3>2 DEF FrontEarly
      <4>2. early' \in {early, early + 1}
        BY <1>2
      <4>3. \A e, s, n \in Nat : e + s < n => e + s <= n /\ (e + 1) + s <= n
        OBVIOUS
      <4>4. QED BY <1>1, <3>1, <4>1, <4>2, <4>3
    <3>3. CASE ~(slot.age < Interval[slot.id])
      <4>1. early' = early
        BY <1>2, <3>3
      <4>2. QED BY <3>1, <4>1
    <3>4. QED BY <3>2, <3>3
  <2>3. /\ cond = "semaphore" /\ owner \in {"start", "startTimer", "started"} => early' <= spare
        /\ pc' \notin {"wait", "waitTimed"} /\ owner \notin {"start", "startTimer"}
    BY <1>1, <1>2, <2>2 DEF SignalsInv
  <2>4. QED BY <1>2, <2>1, <2>2, <2>3 DEF SignalsInv
<1>12. ErasingInv' /\ CancelQuiet'
  <2>1. ASSUME NEW x, NoSlot(x) PROVE NoSlot(x)' /\ x # slot.id
    BY <1>3, <1>8, <2>1 DEF NoSlot
  <2>2. ErasingInv'
    BY <1>2, <2>1 DEF ErasingInv, NoSlot
  <2>3. ASSUME NEW x \in killed
        PROVE  NoSlot(x)' /\ Cardinality(At(queue', x)) + InHand(x)' <= 1
    <3>1. NoSlot(x) /\ Cardinality(At(queue, x)) + InHand(x) <= 1
      BY QuietIs
    <3>2. InHand(x) = 0 /\ InHand(x)' = 0
      BY <1>2, <2>1, <3>1 DEF InHand
    <3>3. At(queue', x) = At(queue, x)
      BY <1>2 DEF At
    <3>4. QED BY <2>1, <3>1, <3>2, <3>3
  <2>4. CancelQuiet'
    BY <1>2, <2>3, QuietNext
  <2>5. QED BY <2>2, <2>4
<1>13. QED BY <1>9, <1>10, <1>11, <1>12

\* The timed wait begins: its time is what the front slot had left.
LEMMA WaitTimedStep == InductiveInv /\ WaitTimed => InductiveInv'
<1>. SUFFICES ASSUME InductiveInv, WaitTimed PROVE InductiveInv'
  OBVIOUS
<1>. USE DEF InductiveInv
<1>1. /\ schedule \in Seq(Slots) /\ Len(schedule) \in Nat
      /\ \A i \in 1 .. Len(schedule) :
            /\ schedule[i] \in Slots
            /\ schedule[i].id \in Ids /\ schedule[i].left \in Int /\ schedule[i].age \in Nat
            /\ Interval[schedule[i].id] \in Nat \ {0}
      /\ early \in Nat /\ signals \in Nat /\ spare \in Nat /\ killed \subseteq Ids
  BY InvFacts
<1>2. /\ pc = "look" /\ pc' = "waitTimed" /\ schedule # <<>> /\ schedule[1].left >= 0
      /\ 1 \in 1 .. Len(schedule) /\ wait' = schedule[1].left
      /\ schedule' = [schedule EXCEPT ![1] = [schedule[1] EXCEPT !.left = -1]]
      /\ UNCHANGED <<cond, hand, signals, running, queue, todo, erasing, dead, owner, alive,
                     spare, early, killed>>
  <2>1. schedule # <<>> /\ Head(schedule) = schedule[1] /\ 1 \in 1 .. Len(schedule)
    BY <1>1, HeadTailProperties, EmptySeq DEF WaitTimed
  <2>2. QED BY <2>1 DEF WaitTimed, loopVars, histVars
<1>. DEFINE front == [schedule[1] EXCEPT !.left = -1]
<1>3. /\ front \in Slots /\ front.id = schedule[1].id /\ front.left = -1
      /\ front.age = schedule[1].age
  BY <1>1, <1>2, SlotPastDue
<1>. HIDE DEF front
<1>4. /\ schedule' \in Seq(Slots) /\ Len(schedule') = Len(schedule)
      /\ \A i \in 1 .. Len(schedule) : schedule'[i] = IF i = 1 THEN front ELSE schedule[i]
  <2>. DEFINE s == [schedule EXCEPT ![1] = front]
  <2>1. schedule' = s
    BY <1>2 DEF front
  <2>2. /\ s \in Seq(Slots) /\ Len(s) = Len(schedule)
        /\ \A i \in 1 .. Len(schedule) : s[i] = IF i = 1 THEN front ELSE schedule[i]
    BY <1>1, <1>2, <1>3, ExceptSeq
  <2>. HIDE DEF s
  <2>3. QED BY <2>1, <2>2
<1>5. \A i \in 1 .. Len(schedule) : schedule'[i].id = schedule[i].id
  BY <1>3, <1>4
<1>6. TypeOK'
  <2>1. wait' \in Nat
    BY <1>1, <1>2
  <2>2. QED BY <1>2, <1>4, <2>1 DEF TypeOK
<1>7. SlotsInv'
  <2>1. \A i \in 1 .. Len(schedule') :
           /\ schedule'[i].left >= 0 => schedule'[i].left + schedule'[i].age >= Interval[schedule'[i].id]
           /\ i > 1 /\ schedule'[i].left < 0 => schedule'[i].age >= Interval[schedule'[i].id]
    BY <1>3, <1>4 DEF SlotsInv
  <2>2. schedule'[1].age + wait' >= Interval[schedule'[1].id]
    <3>1. schedule[1].left + schedule[1].age >= Interval[schedule[1].id]
      BY <1>2 DEF SlotsInv
    <3>2. schedule'[1].age = schedule[1].age /\ schedule'[1].id = schedule[1].id
      BY <1>2, <1>3, <1>4
    <3>3. schedule[1].left \in Int /\ schedule[1].age \in Nat /\ Interval[schedule[1].id] \in Nat
      BY <1>1, <1>2
    <3>4. QED BY <1>2, <3>1, <3>2, <3>3
  <2>3. QED BY <2>1, <2>2 DEF SlotsInv
<1>8. SignalsInv'
  BY <1>1, <1>2 DEF SignalsInv
<1>9. ErasingInv'
  BY <1>2, <1>4, <1>5 DEF ErasingInv
<1>10. CancelQuiet'
  <2>1. SUFFICES ASSUME NEW x \in killed
                 PROVE  NoSlot(x)' /\ Cardinality(At(queue', x)) + InHand(x)' <= 1
    BY <1>2, QuietNext
  <2>2. NoSlot(x) /\ Cardinality(At(queue, x)) + InHand(x) <= 1
    BY QuietIs
  <2>3. InHand(x)' = InHand(x) /\ At(queue', x) = At(queue, x)
    BY <1>2 DEF InHand, At
  <2>4. NoSlot(x)'
    BY <1>4, <1>5, <2>2 DEF NoSlot
  <2>5. QED BY <2>2, <2>3, <2>4
<1>11. QED BY <1>6, <1>7, <1>8, <1>9, <1>10

-----------------------------------------------------------------------------
(* The queue                                                               *)

\* start() and stop() post INIT and FINI, which are no timer's.
LEMMA OwnerPosts == InductiveInv /\ (StartLoop \/ StopJoined) => InductiveInv'
<1>. SUFFICES ASSUME InductiveInv, StartLoop \/ StopJoined PROVE InductiveInv'
  OBVIOUS
<1>. USE DEF InductiveInv
<1>1. PICK m \in {"INIT", "FINI"} : queue' = Append(queue, m)
  BY DEF StartLoop, StopJoined
<1>2. /\ UNCHANGED <<cond, schedule, pc, hand, wait, signals, running, todo, erasing, dead,
                     alive, spare, early, killed>>
      /\ \/ owner = "start" /\ owner' = "startTimer"
         \/ owner' = "fini"
  BY DEF StartLoop, StopJoined, timerVars, histVars
<1>3. queue \in Seq(Msgs) /\ m \in Msgs /\ m \notin Ids /\ killed \subseteq Ids
  BY TimerAssumption DEF TypeOK, Msgs
<1>4. queue' \in Seq(Msgs)
  BY <1>1, <1>3, AppendProperties
<1>5. TypeOK'
  BY <1>2, <1>4 DEF TypeOK, Msgs
<1>6. SlotsInv' /\ SignalsInv' /\ ErasingInv'
  BY <1>2 DEF SlotsInv, SignalsInv, ErasingInv, FrontEarly
<1>7. CancelQuiet'
  <2>1. SUFFICES ASSUME NEW x \in killed
                 PROVE  NoSlot(x)' /\ Cardinality(At(queue', x)) + InHand(x)' <= 1
    BY <1>2, QuietNext
  <2>2. NoSlot(x) /\ Cardinality(At(queue, x)) + InHand(x) <= 1
    BY QuietIs
  <2>3. InHand(x)' = InHand(x) /\ InHand(x) \in Nat
    BY <1>2 DEF InHand
  <2>4. Cardinality(At(queue', x)) = Cardinality(At(queue, x))
    <3>1. m # x
      BY <1>3
    <3>2. Cardinality(At(Append(queue, m), x)) = Cardinality(At(queue, x)) + 0
      BY <1>3, <3>1, AtAppend
    <3>3. QED BY <1>1, <1>3, <3>2, AtFinite
  <2>5. QED BY <1>2, <2>2, <2>3, <2>4 DEF NoSlot
<1>8. QED BY <1>5, <1>6, <1>7

\* What the thread had in hand goes into the queue: the sum stays.
LEMMA PostTimerStep == InductiveInv /\ PostTimer => InductiveInv'
<1>. SUFFICES ASSUME InductiveInv, PostTimer PROVE InductiveInv'
  OBVIOUS
<1>. USE DEF InductiveInv
<1>1. /\ pc = "post" /\ pc' = "test" /\ hand' = None /\ queue' = Append(queue, hand)
      /\ UNCHANGED <<cond, schedule, wait, signals, running, todo, erasing, dead, owner, alive,
                     spare, early, killed>>
  BY DEF PostTimer, histVars
<1>2. queue \in Seq(Msgs) /\ hand \in Ids /\ hand \in Msgs /\ killed \subseteq Ids
  BY <1>1 DEF TypeOK, Msgs
<1>3. queue' \in Seq(Msgs)
  BY <1>1, <1>2, AppendProperties
<1>4. TypeOK'
  BY <1>1, <1>3 DEF TypeOK, Msgs
<1>5. SlotsInv' /\ ErasingInv'
  BY <1>1 DEF SlotsInv, ErasingInv
<1>6. SignalsInv'
  <2>1. FrontEarly' => FrontEarly
    BY <1>1 DEF FrontEarly
  <2>2. early \in Nat /\ signals \in Nat /\ spare \in Nat
    BY InvFacts
  <2>3. QED BY <1>1, <2>1, <2>2 DEF SignalsInv
<1>7. CancelQuiet'
  <2>1. SUFFICES ASSUME NEW x \in killed
                 PROVE  NoSlot(x)' /\ Cardinality(At(queue', x)) + InHand(x)' <= 1
    BY <1>1, QuietNext
  <2>2. NoSlot(x) /\ Cardinality(At(queue, x)) + InHand(x) <= 1
    BY QuietIs
  <2>3. InHand(x) = (IF hand = x THEN 1 ELSE 0) /\ InHand(x)' = 0
    BY <1>1 DEF InHand
  <2>4. Cardinality(At(queue', x)) = Cardinality(At(queue, x)) + (IF hand = x THEN 1 ELSE 0)
    BY <1>1, <1>2, AtAppend
  <2>5. Cardinality(At(queue', x)) \in Nat
    BY <1>3, AtFinite
  <2>6. QED BY <1>1, <2>2, <2>3, <2>4, <2>5 DEF NoSlot
<1>8. QED BY <1>4, <1>5, <1>6, <1>7

\* cancelWork takes the slots of one id away: what was behind one of them may be
\* the first now, but it was not early.
LEMMA CancelWorkStep ==
    ASSUME InductiveInv, NEW id \in Ids, CancelWork(id)
    PROVE  InductiveInv'
<1>. USE DEF InductiveInv
<1>. DEFINE out  == {i \in 1 .. Len(schedule) : schedule[i].id = id}
            left == Erase(schedule, out)
<1>1. /\ schedule \in Seq(Slots) /\ Len(schedule) \in Nat /\ wait \in Nat
      /\ \A i \in 1 .. Len(schedule) :
            /\ schedule[i].id \in Ids /\ schedule[i].left \in Int /\ schedule[i].age \in Nat
            /\ Interval[schedule[i].id] \in Nat \ {0}
      /\ killed \subseteq Ids
  BY InvFacts
<1>2. /\ queue # <<>> /\ todo = <<>> /\ queue' = Tail(queue) /\ schedule' = left /\ erasing' = id
      /\ UNCHANGED <<cond, pc, hand, wait, signals, running, todo, dead, owner, alive,
                     spare, early, killed>>
  BY DEF CancelWork, Handles, timerVars, histVars
<1>3. PICK f \in [1 .. Len(left) -> 1 .. Len(schedule)] :
         /\ \A m, n \in 1 .. Len(left) : f[m] = f[n] => m = n
         /\ \A n \in 1 .. Len(left) : left[n] = schedule[f[n]] /\ f[n] >= n /\ f[n] \notin out
  <2>1. schedule \in Seq(Slots)
    BY <1>1
  <2>. HIDE DEF out
  <2>2. QED BY <2>1, EraseFacts
<1>4. left \in Seq(Slots) /\ Len(left) \in Nat
  BY <1>1, EraseFacts
<1>5. \A n \in 1 .. Len(left) : f[n] \in 1 .. Len(schedule) /\ schedule[f[n]].id # id
  BY <1>3
<1>. HIDE DEF left, out
<1>6. queue \in Seq(Msgs) /\ queue' \in Seq(Msgs)
  BY <1>2, TailType DEF TypeOK, Msgs
<1>7. TypeOK'
  BY <1>2, <1>4, <1>6 DEF TypeOK, Msgs
<1>8. SlotsInv'
  <2>1. ASSUME NEW n \in 1 .. Len(schedule')
        PROVE  /\ schedule'[n].left >= 0 => schedule'[n].left + schedule'[n].age >= Interval[schedule'[n].id]
               /\ n > 1 /\ schedule'[n].left < 0 => schedule'[n].age >= Interval[schedule'[n].id]
    <3>1. /\ schedule'[n] = schedule[f[n]] /\ f[n] \in 1 .. Len(schedule)
          /\ n > 1 => f[n] > 1
      BY <1>1, <1>2, <1>3, <1>4
    <3>2. QED BY <3>1 DEF SlotsInv
  <2>2. ASSUME pc = "waitTimed", schedule' # <<>>, schedule'[1].left < 0
        PROVE  schedule'[1].age + wait >= Interval[schedule'[1].id]
    <3>1. 1 \in 1 .. Len(left)
      BY <1>2, <1>4, <2>2, EmptySeq
    <3>. DEFINE j == f[1]
    <3>2. schedule'[1] = schedule[j] /\ j \in 1 .. Len(schedule)
      BY <1>2, <1>3, <3>1
    <3>. HIDE DEF j
    <3>3. /\ schedule[j].age \in Nat /\ Interval[schedule[j].id] \in Nat
          /\ schedule[j].left < 0 /\ schedule # <<>>
      BY <1>1, <2>2, <3>2, EmptySeq
    <3>4. CASE j = 1
      BY <2>2, <3>2, <3>3, <3>4 DEF SlotsInv
    <3>5. CASE j > 1
      <4>1. schedule[j].age >= Interval[schedule[j].id]
        BY <3>2, <3>3, <3>5 DEF SlotsInv
      <4>2. QED BY <1>1, <3>2, <3>3, <4>1
    <3>6. QED BY <1>1, <3>2, <3>4, <3>5
  <2>3. QED BY <1>2, <2>1, <2>2 DEF SlotsInv
<1>9. SignalsInv'
  <2>1. FrontEarly' => FrontEarly
    <3>1. SUFFICES ASSUME schedule' # <<>>, schedule'[1].left < 0,
                          schedule'[1].age < Interval[schedule'[1].id]
                   PROVE  FrontEarly
      BY <1>2 DEF FrontEarly
    <3>2. 1 \in 1 .. Len(left)
      BY <1>2, <1>4, <3>1, EmptySeq
    <3>. DEFINE j == f[1]
    <3>3. schedule'[1] = schedule[j] /\ j \in 1 .. Len(schedule)
      BY <1>2, <1>3, <3>2
    <3>. HIDE DEF j
    <3>4. /\ schedule[j].age \in Nat /\ Interval[schedule[j].id] \in Nat
          /\ schedule[j].left < 0 /\ schedule # <<>>
      BY <1>1, <3>1, <3>3, EmptySeq
    <3>5. j = 1
      <4>1. ASSUME j > 1 PROVE FALSE
        <5>1. schedule[j].age >= Interval[schedule[j].id]
          BY <3>3, <3>4, <4>1 DEF SlotsInv
        <5>2. QED BY <3>1, <3>3, <3>4, <5>1
      <4>2. QED BY <1>1, <3>3, <4>1
    <3>6. QED BY <3>1, <3>3, <3>4, <3>5 DEF FrontEarly
  <2>2. early \in Nat /\ signals \in Nat /\ spare \in Nat
    BY InvFacts
  <2>3. QED BY <1>2, <2>1, <2>2 DEF SignalsInv
<1>10. ErasingInv'
  <2>1. \A i \in 1 .. Len(schedule') : schedule'[i].id # id
    BY <1>2, <1>3, <1>5
  <2>2. QED BY <1>2, <2>1 DEF ErasingInv
<1>11. CancelQuiet'
  <2>1. SUFFICES ASSUME NEW x \in killed
                 PROVE  NoSlot(x)' /\ Cardinality(At(queue', x)) + InHand(x)' <= 1
    BY <1>2, QuietNext
  <2>2. NoSlot(x) /\ Cardinality(At(queue, x)) + InHand(x) <= 1
    BY QuietIs
  <2>3. Cardinality(At(queue', x)) <= Cardinality(At(queue, x))
    BY <1>2, <1>6, AtTail
  <2>4. InHand(x)' = InHand(x) /\ InHand(x) \in Nat
    BY <1>2 DEF InHand
  <2>5. Cardinality(At(queue', x)) \in Nat /\ Cardinality(At(queue, x)) \in Nat
    BY <1>6, AtFinite
  <2>6. NoSlot(x)'
    BY <1>2, <1>3, <1>5, <2>2 DEF NoSlot
  <2>7. QED BY <2>2, <2>3, <2>4, <2>5, <2>6
<1>12. QED BY <1>7, <1>8, <1>9, <1>10, <1>11

\* Then no message of that id is left, but for what the thread has in hand.
LEMMA CancelEraseStep == InductiveInv /\ CancelErase => InductiveInv'
<1>. SUFFICES ASSUME InductiveInv, CancelErase PROVE InductiveInv'
  OBVIOUS
<1>. USE DEF InductiveInv
<1>. DEFINE out  == {i \in 1 .. Len(queue) : queue[i] = erasing}
            left == Erase(queue, out)
<1>1. /\ erasing # None /\ queue' = left /\ erasing' = None /\ killed' = killed \cup {erasing}
      /\ UNCHANGED <<cond, schedule, pc, hand, wait, signals, running, todo, dead, owner, alive,
                     spare, early>>
  BY DEF CancelErase, timerVars
<1>2. queue \in Seq(Msgs) /\ killed \subseteq Ids /\ erasing \in Ids
  BY <1>1 DEF TypeOK, Msgs
<1>3. PICK f \in [1 .. Len(left) -> 1 .. Len(queue)] :
         /\ \A m, n \in 1 .. Len(left) : f[m] = f[n] => m = n
         /\ \A n \in 1 .. Len(left) : left[n] = queue[f[n]] /\ f[n] >= n /\ f[n] \notin out
  BY <1>2, EraseFacts
<1>4. left \in Seq(Msgs)
  BY <1>2, EraseFacts
<1>5. \A n \in 1 .. Len(left) : left[n] # erasing
  BY <1>3
<1>. HIDE DEF left, out
<1>6. TypeOK'
  BY <1>1, <1>2, <1>4 DEF TypeOK, Msgs
<1>7. SlotsInv' /\ SignalsInv' /\ ErasingInv'
  BY <1>1 DEF SlotsInv, SignalsInv, ErasingInv, FrontEarly
<1>8. CancelQuiet'
  <2>1. SUFFICES ASSUME NEW x \in killed \cup {erasing}
                 PROVE  NoSlot(x)' /\ Cardinality(At(queue', x)) + InHand(x)' <= 1
    BY <1>1, QuietNext
  <2>2. InHand(x)' = InHand(x) /\ InHand(x) \in {0, 1}
    BY <1>1 DEF InHand
  <2>3. Cardinality(At(left, x)) \in Nat /\ Cardinality(At(queue, x)) \in Nat
    BY <1>2, <1>4, AtFinite
  <2>4. CASE x = erasing
    <3>1. At(left, x) = {}
      BY <1>5, <2>4 DEF At
    <3>2. Cardinality(At(left, x)) = 0
      BY <3>1, FS_EmptySet
    <3>3. NoSlot(x)'
      BY <1>1, <2>4 DEF ErasingInv, NoSlot
    <3>4. QED BY <1>1, <2>2, <3>2, <3>3
  <2>5. CASE x \in killed
    <3>1. NoSlot(x) /\ Cardinality(At(queue, x)) + InHand(x) <= 1
      BY <2>5, QuietIs
    <3>2. Cardinality(At(left, x)) <= Cardinality(At(queue, x))
      BY <1>2, <1>3, AtEmbeds
    <3>3. QED BY <1>1, <2>2, <2>3, <3>1, <3>2 DEF NoSlot
  <2>6. QED BY <2>1, <2>4, <2>5
<1>9. QED BY <1>6, <1>7, <1>8

-----------------------------------------------------------------------------
(* The theorems                                                            *)

LEMMA InitHolds == Init => InductiveInv
<1>. SUFFICES ASSUME Init PROVE InductiveInv
  OBVIOUS
<1>1. /\ cond \in Conds /\ schedule = <<>> /\ pc = "none" /\ hand = None /\ wait = 0
      /\ signals = 0 /\ running = FALSE /\ queue = <<>> /\ todo = <<>> /\ erasing = None
      /\ owner = "start" /\ alive = TRUE /\ dead = FALSE /\ spare = 0 /\ early = 0 /\ killed = {}
  BY DEF Init
<1>2. Len(schedule) = 0
  BY <1>1
<1>3. TypeOK
  <2>1. schedule \in Seq(Slots) /\ queue \in Seq(Ids \cup {"INIT", "FINI"}) /\ todo \in Seq(Timers)
    BY <1>1
  <2>2. running \in BOOLEAN /\ alive \in BOOLEAN /\ dead \in BOOLEAN
    BY <1>1
  <2>3. QED BY <1>1, <2>1, <2>2 DEF TypeOK
<1>4. SlotsInv /\ SignalsInv /\ ErasingInv /\ CancelQuiet
  BY <1>1, <1>2 DEF SlotsInv, SignalsInv, FrontEarly, ErasingInv, CancelQuiet
<1>5. QED BY <1>3, <1>4 DEF InductiveInv

LEMMA NextHolds == InductiveInv /\ [Next]_vars => InductiveInv'
<1>. SUFFICES ASSUME InductiveInv, [Next]_vars PROVE InductiveInv'
  OBVIOUS
<1>1. CASE Tick
  BY <1>1, TickStep
<1>2. CASE TestRunning \/ WaitForSlot \/ Wake \/ TimeOut \/ StartTimer \/ StopReset \/ StopSignal
           \/ NullTimer
  BY <1>2, ThreadStep
<1>3. CASE Fire \/ WaitTimed \/ PostTimer
  BY <1>3, FireStep, WaitTimedStep, PostTimerStep
<1>4. CASE StartLoop \/ StopJoined
  BY <1>4, OwnerPosts
<1>5. CASE OnInit \/ CreateTimer \/ OnMessage \/ CancelErase
  BY <1>5, OnInitStep, CreateTimerStep, OnMessageStep, CancelEraseStep
<1>6. CASE Work
  <2>1. CASE \E id \in Delays : DelayWork(id)
    BY <2>1, DelayWorkStep
  <2>2. CASE \E id \in Ids : CancelWork(id)
    BY <2>2, CancelWorkStep
  <2>3. QED BY <1>6, <2>1, <2>2 DEF Work
<1>7. CASE UNCHANGED vars
  <2>1. UNCHANGED <<cond, schedule, pc, hand, wait, signals, running, queue, todo, erasing, dead,
                    owner, alive, spare, early, killed>>
    BY <1>7 DEF vars, timerVars, loopVars, histVars
  <2>2. TypeOK'
    BY <2>1 DEF InductiveInv, TypeOK
  <2>3. SlotsInv' /\ SignalsInv'
    BY <2>1 DEF InductiveInv, SlotsInv, SignalsInv, FrontEarly
  <2>4. ErasingInv' /\ CancelQuiet'
    BY <2>1, StillQuiet
  <2>5. QED BY <2>2, <2>3, <2>4 DEF InductiveInv
<1>8. QED BY <1>1, <1>2, <1>3, <1>4, <1>5, <1>6, <1>7
          DEF Next, TimerThread, Stopping, Handler

\* Every step of Spec keeps the inductive invariant.
THEOREM InvariantHolds == Spec => []InductiveInv
<1>1. QED BY InitHolds, NextHolds, PTL DEF Spec

\* The variables keep their types.
THEOREM TimerTypes == Spec => []TypeOK
<1>1. InductiveInv => TypeOK
  BY DEF InductiveInv
<1>2. QED BY <1>1, InvariantHolds, PTL

\* A tick that comes before its interval is over was paid for by a signal of
\* addSlot that woke nobody when it was sent, the thread not waiting or a signal
\* being there already: with the semaphore, while the loop is not being stopped,
\* there are never more of those ticks than such signals.
THEOREM EarlyTicksArePaid == Spec => []EarlyTicks
<1>1. InductiveInv => EarlyTicks
  BY DEF InductiveInv, SignalsInv, EarlyTicks
<1>2. QED BY <1>1, InvariantHolds, PTL

\* After cancelWork the id has no slot, and one message at most, that was on its
\* way when the schedule was locked.
THEOREM CancelledIsQuiet == Spec => []CancelQuiet
<1>1. InductiveInv => CancelQuiet
  BY DEF InductiveInv
<1>2. QED BY <1>1, InvariantHolds, PTL
=============================================================================
