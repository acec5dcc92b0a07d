--------------------------- MODULE WorkTraceProofs ---------------------------
(***************************************************************************)
(* The invariants of WorkTrace for every number of slots and days, every    *)
(* jump of less than a day, and any number of runs and events.              *)
(***************************************************************************)
EXTENDS WorkTrace, TLAPS

-----------------------------------------------------------------------------
(* Minutes, days and slots                                                 *)

LEMMA DivMod ==
    ASSUME NEW m \in Nat
    PROVE  /\ DayOf(m) \in Nat /\ SlotOf(m) \in 0 .. Slots - 1
           /\ m = Slots * DayOf(m) + SlotOf(m)
<1>1. Slots \in Nat \ {0}
  BY TraceAssumption
<1>2. QED BY <1>1 DEF DayOf, SlotOf

\* A product grows by a whole day at least.
LEMMA DayLess ==
    ASSUME NEW a \in Nat, NEW b \in Nat, a < b
    PROVE  Slots * a \in Nat /\ Slots * b \in Nat /\ Slots * a + Slots <= Slots * b
<1>1. Slots \in Nat \ {0}
  BY TraceAssumption
<1>2. PICK c \in Nat : b = a + 1 + c
  <2>1. b - a - 1 \in Nat /\ b = a + 1 + (b - a - 1)
    OBVIOUS
  <2>2. QED BY <2>1
<1>3. Slots * b = Slots * a + Slots + Slots * c
  BY <1>1, <1>2
<1>4. Slots * a \in Nat /\ Slots * b \in Nat /\ Slots * c \in Nat
  BY <1>1
<1>5. QED BY <1>1, <1>3, <1>4

LEMMA MinuteFacts ==
    ASSUME NEW m \in Minutes
    PROVE  DayOf(m) \in 0 .. Days - 1 /\ SlotOf(m) \in SlotSet
<1>1. /\ m \in Nat /\ m < Days * Slots /\ Slots \in Nat \ {0} /\ Days \in Nat \ {0}
      /\ Days * Slots = Slots * Days /\ Slots * Days \in Nat
  BY TraceAssumption DEF Minutes
<1>2. DayOf(m) \in Nat /\ SlotOf(m) \in 0 .. Slots - 1 /\ m = Slots * DayOf(m) + SlotOf(m)
  BY <1>1, DivMod
<1>3. Slots * DayOf(m) \in Nat
  BY <1>1, <1>2
<1>4. ASSUME DayOf(m) >= Days PROVE FALSE
  <2>1. Slots * Days <= Slots * DayOf(m)
    <3>1. CASE DayOf(m) = Days
      BY <1>1, <3>1
    <3>2. CASE Days < DayOf(m)
      BY <1>1, <1>2, <3>2, DayLess
    <3>3. QED BY <1>1, <1>2, <1>4, <3>1, <3>2
  <2>2. QED BY <1>1, <1>2, <1>3, <2>1
<1>5. QED BY <1>1, <1>2, <1>4 DEF SlotSet

\* Within a day minutes and slots have the same order.
LEMMA SameDay ==
    ASSUME NEW m \in Nat, NEW n \in Nat, DayOf(m) = DayOf(n)
    PROVE  (m = n <=> SlotOf(m) = SlotOf(n)) /\ (m < n <=> SlotOf(m) < SlotOf(n))
<1>1. /\ SlotOf(m) \in Int /\ m = Slots * DayOf(m) + SlotOf(m)
      /\ SlotOf(n) \in Int /\ n = Slots * DayOf(n) + SlotOf(n)
  BY DivMod
<1>2. PICK x \in Int : x = Slots * DayOf(m)
  BY DivMod, TraceAssumption
<1>3. m = x + SlotOf(m) /\ n = x + SlotOf(n)
  BY <1>1, <1>2
<1>4. QED BY <1>1, <1>3

LEMMA DayGrows ==
    ASSUME NEW m \in Nat, NEW n \in Nat, m <= n
    PROVE  DayOf(m) <= DayOf(n)
<1>1. /\ DayOf(m) \in Nat /\ SlotOf(m) \in 0 .. Slots - 1 /\ m = Slots * DayOf(m) + SlotOf(m)
      /\ DayOf(n) \in Nat /\ SlotOf(n) \in 0 .. Slots - 1 /\ n = Slots * DayOf(n) + SlotOf(n)
      /\ Slots \in Nat
  BY DivMod, TraceAssumption
<1>2. ASSUME DayOf(n) < DayOf(m) PROVE FALSE
  <2>1. /\ Slots * DayOf(n) \in Nat /\ Slots * DayOf(m) \in Nat
        /\ Slots * DayOf(n) + Slots <= Slots * DayOf(m)
    BY <1>1, <1>2, DayLess
  <2>2. QED BY <1>1, <2>1
<1>3. QED BY <1>1, <1>2

\* Less than a day later it is the same day, or the next and an earlier slot: the
\* test of payloadAddOne.
LEMMA NextDay ==
    ASSUME NEW m \in Nat, NEW n \in Nat, m <= n, n - m < Slots
    PROVE  \/ DayOf(n) = DayOf(m) /\ SlotOf(m) <= SlotOf(n)
           \/ DayOf(n) = DayOf(m) + 1 /\ SlotOf(n) < SlotOf(m)
<1>1. /\ DayOf(m) \in Nat /\ SlotOf(m) \in 0 .. Slots - 1 /\ m = Slots * DayOf(m) + SlotOf(m)
      /\ DayOf(n) \in Nat /\ SlotOf(n) \in 0 .. Slots - 1 /\ n = Slots * DayOf(n) + SlotOf(n)
      /\ Slots \in Nat /\ DayOf(m) <= DayOf(n)
  BY DivMod, DayGrows, TraceAssumption
<1>2. CASE DayOf(n) = DayOf(m)
  <2>1. m < n => SlotOf(m) < SlotOf(n)
    BY <1>2, SameDay
  <2>2. m = n => SlotOf(m) = SlotOf(n)
    BY <1>2, SameDay
  <2>3. QED BY <1>1, <1>2, <2>1, <2>2
<1>3. CASE DayOf(n) = DayOf(m) + 1
  <2>1. PICK x \in Nat : x = Slots * DayOf(m)
    BY <1>1
  <2>2. Slots * DayOf(n) = x + Slots
    BY <1>1, <1>3, <2>1
  <2>3. n = x + Slots + SlotOf(n) /\ m = x + SlotOf(m)
    BY <1>1, <2>1, <2>2
  <2>4. SlotOf(n) < SlotOf(m)
    BY <1>1, <2>1, <2>3
  <2>5. QED BY <1>3, <2>4
<1>4. CASE DayOf(n) > DayOf(m) + 1
  <2>1. /\ Slots * (DayOf(m) + 1) \in Nat /\ Slots * DayOf(n) \in Nat
        /\ Slots * (DayOf(m) + 1) + Slots <= Slots * DayOf(n)
    BY <1>1, <1>4, DayLess
  <2>2. PICK x \in Nat : x = Slots * DayOf(m)
    BY <1>1
  <2>3. Slots * (DayOf(m) + 1) = x + Slots
    BY <1>1, <2>2
  <2>4. x + Slots + Slots <= n /\ m = x + SlotOf(m)
    BY <1>1, <2>1, <2>2, <2>3
  <2>5. QED BY <1>1, <2>2, <2>4
<1>5. QED BY <1>1, <1>2, <1>3, <1>4

-----------------------------------------------------------------------------
(* What is recorded of a day                                               *)

Records == [SlotSet -> [Types -> Int]]

LEMMA EmptyFacts ==
    Empty \in Records /\ \A s \in SlotSet, t \in Types : Empty[s][t] = NoRecord
BY DEF Empty, Records, NoRecord

\* An event counts in its own slot only.
LEMMA EventFacts ==
    ASSUME NEW p \in Records, NEW slot \in SlotSet, NEW type \in Types \cup {None}
    PROVE  /\ AddEvent(p, slot, type) \in Records
           /\ \A s \in SlotSet, t \in Types :
                 AddEvent(p, slot, type)[s][t] =
                    IF s = slot /\ t = type THEN IF p[s][t] < 0 THEN 2 ELSE p[s][t] + 1 ELSE p[s][t]
<1>1. None \notin Types
  BY TraceAssumption
<1>2. CASE type = None
  BY <1>1, <1>2 DEF AddEvent
<1>3. CASE type \in Types
  <2>. DEFINE value == IF p[slot][type] < 0 THEN 2 ELSE p[slot][type] + 1
              q == [p EXCEPT ![slot][type] = value]
  <2>1. AddEvent(p, slot, type) = q
    BY <1>1, <1>3 DEF AddEvent
  <2>2. value \in Int
    BY <1>3 DEF Records
  <2>. HIDE DEF value
  <2>3. q \in Records
    BY <1>3, <2>2 DEF Records
  <2>4. \A s \in SlotSet, t \in Types : q[s][t] = IF s = slot /\ t = type THEN value ELSE p[s][t]
    BY <1>3 DEF Records
  <2>. HIDE DEF q
  <2>5. QED BY <2>1, <2>3, <2>4 DEF value
<1>4. QED BY <1>2, <1>3

\* Filling a gap replaces what was not recorded, and leaves nothing of that in it.
LEMMA GapFacts ==
    ASSUME NEW p \in Records, NEW from \in SlotSet \cup {-1}, NEW to \in SlotSet, from <= to
    PROVE  /\ UpdateNoMoveGap(p, from, to) \in Records
           /\ \A s \in SlotSet, t \in Types :
                 \/ UpdateNoMoveGap(p, from, to)[s][t] = p[s][t]
                 \/ p[s][t] = NoRecord /\ UpdateNoMoveGap(p, from, to)[s][t] \in {NoMove, HangUp}
           /\ from >= 0 => \A s \in from .. to, t \in Types :
                              UpdateNoMoveGap(p, from, to)[s][t] # NoRecord
           /\ from = -1 => UpdateNoMoveGap(p, from, to) = p
<1>1. CASE from = -1
  <2>1. UpdateNoMoveGap(p, from, to) = p
    BY <1>1 DEF UpdateNoMoveGap
  <2>2. QED BY <1>1, <2>1
<1>2. CASE from \in SlotSet
  <2>. DEFINE value == IF to - from \in {-1, 0, 1} THEN NoMove ELSE HangUp
              gap == IF from > to THEN (from .. Slots - 1) \cup (0 .. to - 1) ELSE from .. to
              filled(g) == [s \in SlotSet |-> [t \in Types |->
                              IF s \in g /\ p[s][t] = NoRecord THEN value ELSE p[s][t]]]
              q == filled(from .. to)
  <2>1. from >= 0 /\ ~(from < 0) /\ ~(from > to)
    BY <1>2 DEF SlotSet
  <2>2. UpdateNoMoveGap(p, from, to) = q
    <3>1. UpdateNoMoveGap(p, from, to) = IF from < 0 THEN p ELSE filled(gap)
      BY DEF UpdateNoMoveGap
    <3>2. gap = from .. to
      BY <2>1
    <3>. HIDE DEF filled, gap
    <3>3. QED BY <2>1, <3>1, <3>2
  <2>3. value \in {NoMove, HangUp} /\ value \in Int /\ value # NoRecord
    BY DEF NoMove, HangUp, NoRecord
  <2>. HIDE DEF value
  <2>4. \A s \in SlotSet, t \in Types :
           q[s][t] = IF s \in from .. to /\ p[s][t] = NoRecord THEN value ELSE p[s][t]
    OBVIOUS
  <2>5. q \in Records
    BY <2>3 DEF Records
  <2>. HIDE DEF q
  <2>6. from .. to \subseteq SlotSet
    BY <1>2, TraceAssumption DEF SlotSet
  <2>7. QED BY <1>2, <2>2, <2>3, <2>4, <2>5, <2>6 DEF SlotSet
<1>3. QED BY <1>1, <1>2

\* What is said of a minute: no use without an event, and every event unless a run
\* ended in it.
Tells(p, ev, m, t) ==
    /\ ev[m][t] = 0 => p[SlotOf(m)][t] < 0
    /\ ev[m][t] > 0 /\ m \notin cut => p[SlotOf(m)][t] = ev[m][t] + 1

LEMMA TypeFacts ==
    ASSUME TypeOK
    PROVE  /\ payload \in Records /\ table \in [0 .. Days - 1 -> Records]
           /\ \A d \in 0 .. Days - 1, s \in SlotSet, t \in Types : table[d][s][t] \in Int
           /\ \A s \in SlotSet, t \in Types : payload[s][t] \in Int
           /\ \A m \in Minutes, t \in Types : events[m][t] \in Nat
           /\ now \in Minutes /\ Today \in 0 .. Days - 1 /\ SlotOf(now) \in SlotSet
<1>1. payload \in Records /\ table \in [0 .. Days - 1 -> Records] /\ now \in Minutes
  BY DEF TypeOK, Records
<1>2. Today \in 0 .. Days - 1 /\ SlotOf(now) \in SlotSet
  BY <1>1, MinuteFacts DEF Today
<1>3. \A d \in 0 .. Days - 1, s \in SlotSet, t \in Types : table[d][s][t] \in Int
  <2>1. \A row \in Records, s \in SlotSet, t \in Types : row[s][t] \in Int
    BY DEF Records
  <2>2. \A d \in 0 .. Days - 1 : table[d] \in Records
    BY <1>1
  <2>3. QED BY <2>1, <2>2
<1>4. /\ \A s \in SlotSet, t \in Types : payload[s][t] \in Int
      /\ \A m \in Minutes, t \in Types : events[m][t] \in Nat
  BY DEF TypeOK
<1>5. QED BY <1>1, <1>2, <1>3, <1>4

\* A run that was called holds the truth about the day of its last call,
LEMMA HeldTells ==
    ASSUME InductiveInv, alive, since >= 0, ~InCarried(last),
           NEW m \in Minutes, DayOf(m) = DayOf(last), NEW t \in Types
    PROVE  Tells(payload, events, m, t)
<1>1. /\ since \in Minutes \cup {-1} /\ last \in Minutes \cup {-1} /\ since <= last
      /\ lastSlot = SlotOf(last)
  BY DEF InductiveInv, CalledInv, TypeOK
<1>2. last \in Minutes /\ last \in Nat /\ m \in Nat
  BY <1>1, TraceAssumption DEF Minutes
<1>3. CASE m = last
  BY <1>1, <1>3 DEF InductiveInv, CalledInv, Tells
<1>4. CASE m # last
  <2>1. SlotOf(m) # lastSlot /\ SlotOf(m) \in SlotSet
    BY <1>1, <1>2, <1>4, SameDay, MinuteFacts
  <2>2. payload[SlotOf(m)] = table[DayOf(m)][SlotOf(m)]
    BY <2>1 DEF InductiveInv, CalledInv
  <2>3. /\ events[m][t] = 0 => Row(m, t) < 0
        /\ events[m][t] > 0 /\ m \notin cut => Row(m, t) = events[m][t] + 1
    BY <1>4 DEF InductiveInv, OwnDay, OneMinuteLost, InCarried
  <2>4. QED BY <2>2, <2>3 DEF Row, Tells
<1>5. QED BY <1>3, <1>4

\* and has no hole in it before that call.
LEMMA HeldWhole ==
    ASSUME InductiveInv, alive, since >= 0,
           NEW m \in Minutes, since <= m, m < last, DayOf(m) = DayOf(last), NEW t \in Types
    PROVE  payload[SlotOf(m)][t] # NoRecord
<1>1. /\ since \in Minutes \cup {-1} /\ last \in Minutes \cup {-1} /\ since <= last
      /\ lastSlot = SlotOf(last)
  BY DEF InductiveInv, CalledInv, TypeOK
<1>2. last \in Minutes /\ last \in Nat /\ m \in Nat /\ since \in Nat
  BY <1>1, TraceAssumption DEF Minutes
<1>3. SlotOf(m) # lastSlot /\ SlotOf(m) \in SlotSet
  BY <1>1, <1>2, SameDay, MinuteFacts
<1>4. payload[SlotOf(m)] = table[DayOf(m)][SlotOf(m)]
  BY <1>3 DEF InductiveInv, CalledInv
<1>5. m \in since .. last - 1
  BY <1>2
<1>6. Row(m, t) # NoRecord
  BY <1>5 DEF InductiveInv, NoHole
<1>7. QED BY <1>4, <1>6 DEF Row

-----------------------------------------------------------------------------
(* One call of payloadAddOne                                               *)

NewDay == SlotOf(now) < lastSlot
From   == IF NewDay THEN 0 ELSE lastSlot

\* The first call of a run, one on the day of the last call, one on the next day.
First == since < 0 /\ last = -1 /\ ~NewDay /\ From = -1 /\ payload = table[began]
Same  == /\ since >= 0 /\ last \in Minutes /\ since <= last /\ last <= now
         /\ DayOf(last) = Today /\ ~NewDay /\ From = SlotOf(last) /\ From <= SlotOf(now)
Later == /\ since >= 0 /\ last \in Minutes /\ since <= last /\ last <= now
         /\ Today = DayOf(last) + 1 /\ NewDay /\ From = 0
         /\ lastSlot = SlotOf(last) /\ SlotOf(now) < SlotOf(last)

LEMMA CallCases ==
    ASSUME InductiveInv, alive
    PROVE  First \/ Same \/ Later
<1>1. /\ since \in Minutes \cup {-1} /\ last \in Minutes \cup {-1} /\ now \in Minutes
      /\ Minutes \subseteq Nat
  BY TraceAssumption DEF InductiveInv, TypeOK, Minutes
<1>2. SlotOf(now) \in 0 .. Slots - 1 /\ SlotOf(now) \in Nat
  BY <1>1, MinuteFacts DEF SlotSet
<1>3. CASE since < 0
  <2>1. last = -1 /\ lastSlot = -1 /\ payload = table[began]
    BY <1>3 DEF InductiveInv, IdleInv
  <2>2. ~NewDay
    BY <1>2, <2>1 DEF NewDay
  <2>3. QED BY <1>3, <2>1, <2>2 DEF First, From
<1>4. CASE since >= 0
  <2>1. since <= last /\ last <= now /\ now - last <= MaxJump /\ lastSlot = SlotOf(last)
    BY <1>4 DEF InductiveInv, CalledInv
  <2>2. last \in Minutes /\ last \in Nat /\ now \in Nat
    BY <1>1, <1>4, <2>1
  <2>3. now - last < Slots
    BY <2>1, <2>2, TraceAssumption
  <2>4. \/ DayOf(now) = DayOf(last) /\ SlotOf(last) <= SlotOf(now)
        \/ DayOf(now) = DayOf(last) + 1 /\ SlotOf(now) < SlotOf(last)
    BY <2>1, <2>2, <2>3, NextDay
  <2>5. SlotOf(last) \in 0 .. Slots - 1 /\ SlotOf(last) \in Nat
    BY <2>2, MinuteFacts DEF SlotSet
  <2>6. CASE DayOf(now) = DayOf(last) /\ SlotOf(last) <= SlotOf(now)
    <3>1. ~NewDay
      BY <1>2, <2>1, <2>5, <2>6 DEF NewDay
    <3>2. QED BY <1>4, <2>1, <2>2, <2>6, <3>1 DEF Same, From, Today
  <2>7. CASE DayOf(now) = DayOf(last) + 1 /\ SlotOf(now) < SlotOf(last)
    <3>1. NewDay
      BY <2>1, <2>7 DEF NewDay
    <3>2. QED BY <1>4, <2>1, <2>2, <2>7, <3>1 DEF Later, From, Today
  <2>8. QED BY <2>4, <2>6, <2>7
<1>5. QED BY <1>1, <1>3, <1>4

\* The events of the call.
LEMMA CallEvents ==
    ASSUME TypeOK, NEW type \in Types \cup {None}, PayloadAddOne(type)
    PROVE  /\ events' \in [Minutes -> [Types -> Nat]]
           /\ \A m \in Minutes, t \in Types :
                 events'[m][t] = IF m = now /\ t = type THEN events[m][t] + 1 ELSE events[m][t]
<1>1. events \in [Minutes -> [Types -> Nat]] /\ now \in Minutes
  BY DEF TypeOK
<1>2. CASE type = None
  <2>1. events' = events
    BY <1>2 DEF PayloadAddOne
  <2>2. QED BY <1>1, <1>2, <2>1, TraceAssumption
<1>3. CASE type \in Types
  <2>1. events' = [events EXCEPT ![now][type] = events[now][type] + 1]
    BY <1>3, TraceAssumption DEF PayloadAddOne
  <2>2. events[now][type] + 1 \in Nat
    BY <1>1, <1>3
  <2>3. QED BY <1>1, <1>3, <2>1, <2>2
<1>4. QED BY <1>2, <1>3

\* What is held after the call.
LEMMA CallPayload ==
    ASSUME InductiveInv, NEW type \in Types \cup {None}, PayloadAddOne(type)
    PROVE  LET p == AddEvent(Payload(NewDay), SlotOf(now), type) IN
           /\ p \in Records /\ payload' \in Records
           /\ \A s \in SlotSet, t \in Types :
                 \/ payload'[s][t] = p[s][t]
                 \/ p[s][t] = NoRecord /\ payload'[s][t] \in {NoMove, HangUp}
           /\ From >= 0 /\ From # SlotOf(now)
                 => \A s \in From .. SlotOf(now), t \in Types : payload'[s][t] # NoRecord
           /\ From = SlotOf(now) => payload' = p
<1>. DEFINE slot == SlotOf(now)
            p == AddEvent(Payload(NewDay), slot, type)
            u == UpdateNoMoveGap(p, From, slot)
<1>1. payload \in Records /\ slot \in SlotSet /\ SlotSet \subseteq Nat
  BY TypeFacts DEF InductiveInv, SlotSet
<1>2. Payload(NewDay) \in Records
  BY <1>1, EmptyFacts DEF Payload
<1>3. p \in Records
  BY <1>1, <1>2, EventFacts
<1>4. From \in SlotSet \cup {-1} /\ From <= slot
  <2>1. alive
    BY DEF PayloadAddOne
  <2>2. CASE First
    <3>1. From = -1 /\ slot \in Nat
      BY <1>1, <2>2 DEF First
    <3>2. QED BY <3>1
  <2>3. CASE Same
    BY <2>3, MinuteFacts DEF Same
  <2>4. CASE Later
    BY <1>1, <2>4, TraceAssumption DEF Later, SlotSet
  <2>5. QED BY <2>1, <2>2, <2>3, <2>4, CallCases
<1>5. payload' = IF From # slot THEN u ELSE p
  BY DEF PayloadAddOne, NewDay, From
<1>. HIDE DEF p, u, slot
<1>6. /\ u \in Records
      /\ \A s \in SlotSet, t \in Types :
            u[s][t] = p[s][t] \/ (p[s][t] = NoRecord /\ u[s][t] \in {NoMove, HangUp})
      /\ From >= 0 => \A s \in From .. slot, t \in Types : u[s][t] # NoRecord
  BY <1>1, <1>3, <1>4, GapFacts DEF u
<1>7. QED BY <1>3, <1>5, <1>6 DEF p, slot

\* What is in the table after the call.
LEMMA CallTable ==
    ASSUME InductiveInv, NEW type \in Types \cup {None}, PayloadAddOne(type)
    PROVE  /\ table' \in [0 .. Days - 1 -> Records]
           /\ \A d \in 0 .. Days - 1 :
                 table'[d] = IF d = Today /\ From # SlotOf(now) THEN payload'
                             ELSE IF NewDay /\ d = Today - 1
                                  THEN UpdateNoMoveGap(payload, lastSlot, Slots - 1)
                             ELSE table[d]
<1>. DEFINE u == UpdateNoMoveGap(payload, lastSlot, Slots - 1)
            old == Table(NewDay)
<1>1. /\ payload \in Records /\ payload' \in Records /\ table \in [0 .. Days - 1 -> Records]
      /\ Today \in 0 .. Days - 1
  BY TypeFacts, CallPayload DEF InductiveInv
<1>2. NewDay => Today - 1 \in 0 .. Days - 1 /\ u \in Records
  <2>1. SUFFICES ASSUME NewDay PROVE Today - 1 \in 0 .. Days - 1 /\ u \in Records
    OBVIOUS
  <2>2. Later
    BY <2>1, CallCases DEF PayloadAddOne, First, Same
  <2>3. DayOf(last) \in 0 .. Days - 1 /\ Today = DayOf(last) + 1
    BY <2>2, MinuteFacts DEF Later
  <2>4. lastSlot \in SlotSet /\ Slots - 1 \in SlotSet /\ lastSlot <= Slots - 1
    BY <2>2, MinuteFacts, TraceAssumption DEF Later, SlotSet
  <2>5. u \in Records
    BY <1>1, <2>4, GapFacts
  <2>6. QED BY <1>1, <2>3, <2>5
<1>3. old = IF NewDay THEN [table EXCEPT ![Today - 1] = u] ELSE table
  BY DEF Table
<1>4. table' = IF From # SlotOf(now) THEN [old EXCEPT ![Today] = payload'] ELSE old
  BY DEF PayloadAddOne, NewDay, From
<1>. HIDE DEF u, old
<1>5. /\ old \in [0 .. Days - 1 -> Records]
      /\ \A d \in 0 .. Days - 1 : old[d] = IF NewDay /\ d = Today - 1 THEN u ELSE table[d]
  BY <1>1, <1>2, <1>3
<1>6. QED BY <1>1, <1>4, <1>5 DEF u

-----------------------------------------------------------------------------
(* What is told after the call                                             *)

\* What the call starts from is true of the day, unless the day is carried: it is
\* the row that was read, what was held, or nothing on a new day.
LEMMA BaseTells ==
    ASSUME InductiveInv, NEW type \in Types \cup {None}, PayloadAddOne(type),
           Today \notin carried', NEW m \in Minutes, DayOf(m) = Today, NEW t \in Types
    PROVE  Tells(Payload(NewDay), events, m, t)
<1>1. alive /\ Today \notin carried /\ (since < 0 => began = Today)
  BY DEF PayloadAddOne
<1>2. CASE First
  <2>1. Payload(NewDay) = table[DayOf(m)] /\ m \notin {last}
    BY <1>1, <1>2, TraceAssumption DEF First, Payload, Minutes
  <2>2. /\ events[m][t] = 0 => Row(m, t) < 0
        /\ events[m][t] > 0 /\ m \notin cut => Row(m, t) = events[m][t] + 1
    BY <1>1, <2>1 DEF InductiveInv, OwnDay, OneMinuteLost, InCarried
  <2>3. QED BY <2>1, <2>2 DEF Row, Tells
<1>3. CASE Same
  <2>1. Payload(NewDay) = payload
    BY <1>3 DEF Same, Payload
  <2>2. since >= 0 /\ ~InCarried(last) /\ DayOf(m) = DayOf(last)
    BY <1>1, <1>3 DEF Same, InCarried
  <2>3. QED BY <1>1, <2>1, <2>2, HeldTells
<1>4. CASE Later
  <2>1. Payload(NewDay) = Empty /\ SlotOf(m) \in SlotSet
    BY <1>4, MinuteFacts DEF Later, Payload
  <2>2. Empty[SlotOf(m)][t] < 0
    BY <2>1, EmptyFacts DEF NoRecord
  <2>3. events[m][t] = 0
    <3>1. last \in Nat /\ m \in Nat /\ last \in Minutes
      BY <1>4, TraceAssumption DEF Later, Minutes
    <3>2. DayOf(last) \in Int /\ DayOf(m) = DayOf(last) + 1
      BY <1>4, <3>1, DivMod DEF Later
    <3>3. ~(m <= last)
      BY <3>1, <3>2, DayGrows, DivMod
    <3>4. since >= 0 /\ m > last
      BY <1>4, <3>1, <3>3 DEF Later
    <3>5. QED BY <1>1, <3>4 DEF InductiveInv, CalledInv
  <2>4. QED BY <2>1, <2>2, <2>3 DEF Tells
<1>5. QED BY <1>1, <1>2, <1>3, <1>4, CallCases

\* So is what is held after it.
LEMMA CallTells ==
    ASSUME InductiveInv, NEW type \in Types \cup {None}, PayloadAddOne(type),
           Today \notin carried', NEW m \in Minutes, DayOf(m) = Today, NEW t \in Types
    PROVE  Tells(payload', events', m, t)
<1>. DEFINE base == Payload(NewDay)
            slot == SlotOf(now)
            s    == SlotOf(m)
            p    == AddEvent(base, slot, type)
<1>1. Tells(base, events, m, t)
  BY BaseTells
<1>2. slot \in SlotSet /\ s \in SlotSet /\ (s = slot <=> m = now)
  <2>1. now \in Minutes /\ now \in Nat /\ m \in Nat /\ DayOf(now) = DayOf(m)
    BY TraceAssumption DEF InductiveInv, TypeOK, Minutes, Today
  <2>2. QED BY <2>1, MinuteFacts, SameDay
<1>3. base \in Records /\ base[s][t] \in Int /\ events[m][t] \in Nat
  <2>1. base \in Records
    BY TypeFacts, EmptyFacts DEF InductiveInv, Payload
  <2>2. QED BY <1>2, <2>1, TypeFacts DEF InductiveInv, Records
<1>4. p[s][t] = IF s = slot /\ t = type THEN IF base[s][t] < 0 THEN 2 ELSE base[s][t] + 1
                ELSE base[s][t]
  BY <1>2, <1>3, EventFacts
<1>5. /\ p \in Records /\ payload' \in Records
      /\ payload'[s][t] = p[s][t] \/ (p[s][t] = NoRecord /\ payload'[s][t] \in {NoMove, HangUp})
  BY <1>2, CallPayload
<1>6. events'[m][t] = IF m = now /\ t = type THEN events[m][t] + 1 ELSE events[m][t]
  BY CallEvents DEF InductiveInv
<1>7. /\ events[m][t] = 0 => base[s][t] < 0
      /\ events[m][t] > 0 /\ m \notin cut => base[s][t] = events[m][t] + 1
  BY <1>1 DEF Tells
<1>. HIDE DEF base, slot, s, p
<1>8. /\ events'[m][t] = 0 => p[s][t] < 0
      /\ events'[m][t] > 0 /\ m \notin cut => p[s][t] = events'[m][t] + 1
  <2>1. CASE m = now /\ t = type
    <3>1. /\ p[s][t] = IF base[s][t] < 0 THEN 2 ELSE base[s][t] + 1
          /\ events'[m][t] = events[m][t] + 1
      BY <1>2, <1>4, <1>6, <2>1
    <3>2. CASE events[m][t] = 0
      BY <1>3, <1>7, <3>1, <3>2
    <3>3. CASE events[m][t] > 0
      BY <1>3, <1>7, <3>1, <3>3
    <3>4. QED BY <1>3, <3>2, <3>3
  <2>2. CASE ~(m = now /\ t = type)
    <3>1. p[s][t] = base[s][t] /\ events'[m][t] = events[m][t]
      BY <1>2, <1>4, <1>6, <2>2
    <3>2. QED BY <1>7, <3>1
  <2>3. QED BY <2>1, <2>2
<1>9. CASE payload'[s][t] = p[s][t]
  BY <1>8, <1>9 DEF Tells, s
<1>10. CASE p[s][t] = NoRecord /\ payload'[s][t] \in {NoMove, HangUp}
  <2>1. payload'[s][t] < 0 /\ p[s][t] < 0
    BY <1>10 DEF NoRecord, NoMove, HangUp
  <2>2. events'[m][t] \in Nat
    BY <1>3, <1>6
  <2>3. ~(events'[m][t] > 0 /\ m \notin cut)
    BY <1>8, <2>1, <2>2
  <2>4. QED BY <2>1, <2>3 DEF Tells, s
<1>11. QED BY <1>5, <1>9, <1>10

\* And the rows of the table, which may be late about the minute of the call.
LEMMA RowTells ==
    ASSUME InductiveInv, NEW type \in Types \cup {None}, PayloadAddOne(type),
           NEW m \in Minutes, DayOf(m) \notin carried', NEW t \in Types
    PROVE  /\ events'[m][t] = 0 => table'[DayOf(m)][SlotOf(m)][t] < 0
           /\ events'[m][t] > 0 /\ m \notin cut /\ m # now
                 => table'[DayOf(m)][SlotOf(m)][t] = events'[m][t] + 1
<1>1. /\ alive /\ ~InCarried(m) /\ DayOf(m) \in 0 .. Days - 1 /\ SlotOf(m) \in SlotSet
      /\ now \in Nat /\ m \in Nat /\ Today \in 0 .. Days - 1
  <2>1. alive /\ ~InCarried(m)
    BY DEF PayloadAddOne, InCarried
  <2>2. now \in Nat /\ m \in Nat
    BY TraceAssumption DEF InductiveInv, TypeOK, Minutes
  <2>3. QED BY <2>1, <2>2, MinuteFacts, TypeFacts DEF InductiveInv
<1>2. /\ events'[m][t] = IF m = now /\ t = type THEN events[m][t] + 1 ELSE events[m][t]
      /\ events[m][t] \in Nat
  BY CallEvents, TypeFacts DEF InductiveInv
<1>3. table'[DayOf(m)] = IF DayOf(m) = Today /\ From # SlotOf(now) THEN payload'
                         ELSE IF NewDay /\ DayOf(m) = Today - 1
                              THEN UpdateNoMoveGap(payload, lastSlot, Slots - 1)
                         ELSE table[DayOf(m)]
  BY <1>1, CallTable
<1>4. First \/ Same \/ Later
  BY <1>1, CallCases
<1>5. CASE DayOf(m) = Today /\ From # SlotOf(now)
  BY <1>3, <1>5, CallTells DEF Tells
<1>6. CASE NewDay /\ DayOf(m) = Today - 1
  <2>1. Later
    BY <1>4, <1>6 DEF First, Same
  <2>2. /\ DayOf(m) = DayOf(last) /\ since >= 0 /\ ~InCarried(last) /\ DayOf(m) # Today
        /\ lastSlot \in SlotSet /\ Slots - 1 \in SlotSet /\ lastSlot <= Slots - 1
    BY <1>1, <1>6, <2>1, MinuteFacts, TraceAssumption DEF Later, InCarried, SlotSet
  <2>3. Tells(payload, events, m, t)
    BY <1>1, <2>2, HeldTells
  <2>. DEFINE u == UpdateNoMoveGap(payload, lastSlot, Slots - 1)
  <2>4. \/ u[SlotOf(m)][t] = payload[SlotOf(m)][t]
        \/ payload[SlotOf(m)][t] = NoRecord /\ u[SlotOf(m)][t] \in {NoMove, HangUp}
    BY <1>1, <2>2, TypeFacts, GapFacts DEF InductiveInv
  <2>5. table'[DayOf(m)] = u /\ events'[m][t] = events[m][t]
    BY <1>2, <1>3, <1>6, <2>2 DEF Today
  <2>. HIDE DEF u
  <2>6. CASE u[SlotOf(m)][t] = payload[SlotOf(m)][t]
    BY <2>3, <2>5, <2>6 DEF Tells
  <2>7. CASE payload[SlotOf(m)][t] = NoRecord /\ u[SlotOf(m)][t] \in {NoMove, HangUp}
    <3>1. u[SlotOf(m)][t] < 0 /\ payload[SlotOf(m)][t] < 0
      BY <2>7 DEF NoRecord, NoMove, HangUp
    <3>2. ~(events[m][t] > 0 /\ m \notin cut)
      BY <1>2, <2>3, <3>1 DEF Tells
    <3>3. QED BY <2>5, <3>1, <3>2
  <2>8. QED BY <2>4, <2>6, <2>7
<1>7. CASE /\ ~(DayOf(m) = Today /\ From # SlotOf(now)) /\ ~(NewDay /\ DayOf(m) = Today - 1)
  <2>1. table'[DayOf(m)][SlotOf(m)][t] = Row(m, t)
    BY <1>3, <1>7 DEF Row
  <2>2. m # now => m # last
    <3>1. SUFFICES ASSUME m = last PROVE m = now
      OBVIOUS
    <3>2. ~First
      BY <1>1, <3>1 DEF First
    <3>3. ~Later
      BY <1>1, <1>7, <3>1 DEF Later
    <3>4. Same
      BY <1>4, <3>2, <3>3
    <3>5. DayOf(m) = DayOf(now) /\ SlotOf(m) = SlotOf(now)
      BY <1>7, <3>1, <3>4 DEF Same, Today
    <3>6. QED BY <1>1, <3>5, SameDay
  <2>3. /\ events[m][t] = 0 => Row(m, t) < 0
        /\ events[m][t] > 0 /\ m \notin cut /\ m # now => Row(m, t) = events[m][t] + 1
    BY <1>1, <2>2 DEF InductiveInv, OwnDay, OneMinuteLost
  <2>4. events'[m][t] = 0 => events[m][t] = 0
    BY <1>2
  <2>5. m # now => events'[m][t] = events[m][t]
    BY <1>2
  <2>6. QED BY <2>1, <2>3, <2>4, <2>5
<1>8. QED BY <1>5, <1>6, <1>7

\* From the first call of the run to this one there is no hole in the table.
LEMMA CallWhole ==
    ASSUME InductiveInv, NEW type \in Types \cup {None}, PayloadAddOne(type)
    PROVE  NoHole'
<1>1. /\ alive /\ now \in Minutes /\ now \in Nat /\ Today \in 0 .. Days - 1
      /\ SlotOf(now) \in SlotSet /\ Minutes \subseteq Nat
      /\ since' = (IF since < 0 THEN now ELSE since) /\ last' = now
  <2>1. /\ alive /\ since' = (IF since < 0 THEN now ELSE since) /\ last' = now
    BY DEF PayloadAddOne
  <2>2. Minutes \subseteq Nat
    BY TraceAssumption DEF Minutes
  <2>3. QED BY <2>1, <2>2, TypeFacts DEF InductiveInv
<1>2. First \/ Same \/ Later
  BY <1>1, CallCases
<1>3. CASE First
  <2>1. since' = now
    BY <1>1, <1>3 DEF First
  <2>2. since' .. last' - 1 = {}
    BY <1>1, <2>1
  <2>3. QED BY <2>2 DEF NoHole
<1>4. CASE Same \/ Later
  <2>1. /\ since' = since /\ since >= 0 /\ last \in Minutes /\ since \in Nat
        /\ since <= last /\ last <= now
    BY <1>1, <1>4 DEF Same, Later, InductiveInv, TypeOK
  <2>2. SUFFICES ASSUME NEW m \in since .. now - 1, NEW t \in Types
                 PROVE  table'[DayOf(m)][SlotOf(m)][t] # NoRecord
    BY <1>1, <2>1 DEF NoHole, Row
  <2>3. /\ m \in Minutes /\ m \in Nat /\ m < now /\ since <= m /\ last \in Nat
        /\ DayOf(m) \in 0 .. Days - 1 /\ SlotOf(m) \in SlotSet /\ DayOf(m) <= Today
    <3>1. m \in Nat /\ m < now /\ since <= m
      BY <1>1, <2>1
    <3>2. m \in Minutes
      <4>1. Days * Slots \in Nat
        BY TraceAssumption
      <4>2. QED BY <1>1, <3>1, <4>1 DEF Minutes
    <3>3. QED BY <1>1, <2>1, <3>1, <3>2, MinuteFacts, DayGrows DEF Today
  <2>4. table'[DayOf(m)] = IF DayOf(m) = Today /\ From # SlotOf(now) THEN payload'
                           ELSE IF NewDay /\ DayOf(m) = Today - 1
                                THEN UpdateNoMoveGap(payload, lastSlot, Slots - 1)
                           ELSE table[DayOf(m)]
    BY <2>3, CallTable
  <2>5. m < last => Row(m, t) # NoRecord
    <3>1. m < last => m \in since .. last - 1
      BY <2>1, <2>3
    <3>2. QED BY <1>1, <2>1, <3>1 DEF InductiveInv, NoHole
  <2>6. m < last /\ DayOf(m) = DayOf(last) => payload[SlotOf(m)][t] # NoRecord
    BY <1>1, <2>1, <2>3, HeldWhole
  <2>7. /\ DayOf(m) = Today => SlotOf(m) < SlotOf(now)
        /\ DayOf(m) = DayOf(last) /\ ~(m < last) => SlotOf(last) <= SlotOf(m)
    <3>1. SlotOf(m) \in Nat /\ SlotOf(last) \in Nat /\ SlotOf(now) \in Nat
      BY <1>1, <2>1, <2>3, MinuteFacts DEF SlotSet
    <3>2. DayOf(m) = Today => SlotOf(m) < SlotOf(now)
      BY <1>1, <2>3, SameDay DEF Today
    <3>3. DayOf(m) = DayOf(last) => (SlotOf(m) < SlotOf(last) => m < last)
      BY <2>3, SameDay
    <3>4. QED BY <3>1, <3>2, <3>3
  <2>8. CASE DayOf(m) = Today /\ From # SlotOf(now)
    <3>1. table'[DayOf(m)] = payload'
      BY <2>4, <2>8
    <3>2. From \in Nat
      <4>1. CASE Same
        BY <2>1, <4>1, MinuteFacts DEF Same, SlotSet
      <4>2. CASE Later
        BY <4>2 DEF Later
      <4>3. QED BY <1>4, <4>1, <4>2
    <3>3. CASE From <= SlotOf(m)
      <4>1. SlotOf(m) \in From .. SlotOf(now)
        BY <1>1, <2>3, <2>7, <2>8, <3>2, <3>3 DEF SlotSet
      <4>2. payload'[SlotOf(m)][t] # NoRecord
        BY <2>8, <3>2, <4>1, CallPayload
      <4>3. QED BY <3>1, <4>2
    <3>4. CASE ~(From <= SlotOf(m))
      <4>1. Same
        BY <1>4, <2>3, <3>4 DEF Later, SlotSet
      <4>2. DayOf(m) = DayOf(last) /\ m < last /\ Payload(NewDay) = payload
        BY <2>7, <2>8, <3>4, <4>1 DEF Same, Payload
      <4>. DEFINE p == AddEvent(payload, SlotOf(now), type)
      <4>3. p[SlotOf(m)][t] = payload[SlotOf(m)][t]
        <5>1. SlotOf(m) # SlotOf(now)
          BY <1>1, <2>3, <2>7, <2>8 DEF SlotSet
        <5>2. QED BY <1>1, <2>3, <5>1, EventFacts, TypeFacts DEF InductiveInv
      <4>4. \/ payload'[SlotOf(m)][t] = p[SlotOf(m)][t]
            \/ payload'[SlotOf(m)][t] \in {NoMove, HangUp}
        BY <2>3, <4>2, CallPayload
      <4>. HIDE DEF p
      <4>5. payload'[SlotOf(m)][t] # NoRecord
        BY <2>6, <4>2, <4>3, <4>4 DEF NoMove, HangUp, NoRecord
      <4>6. QED BY <3>1, <4>5
    <3>5. QED BY <3>3, <3>4
  <2>9. CASE NewDay /\ DayOf(m) = Today - 1
    <3>1. Later /\ DayOf(m) = DayOf(last) /\ DayOf(m) # Today
      <4>1. Later
        BY <1>4, <2>9 DEF Same
      <4>2. DayOf(last) \in Nat
        BY <2>3, DivMod
      <4>3. QED BY <2>3, <2>9, <4>1, <4>2 DEF Later
    <3>. DEFINE u == UpdateNoMoveGap(payload, lastSlot, Slots - 1)
    <3>2. table'[DayOf(m)] = u
      BY <2>4, <2>9, <3>1
    <3>3. lastSlot = SlotOf(last) /\ lastSlot \in SlotSet /\ lastSlot \in Nat
          /\ Slots - 1 \in SlotSet /\ lastSlot <= Slots - 1
      BY <2>1, <3>1, MinuteFacts, TraceAssumption DEF Later, SlotSet
    <3>4. /\ \/ u[SlotOf(m)][t] = payload[SlotOf(m)][t]
             \/ u[SlotOf(m)][t] \in {NoMove, HangUp}
          /\ SlotOf(m) \in lastSlot .. Slots - 1 => u[SlotOf(m)][t] # NoRecord
      <4>1. payload \in Records /\ lastSlot \in SlotSet /\ lastSlot >= 0
            /\ Slots - 1 \in SlotSet /\ lastSlot <= Slots - 1 /\ SlotOf(m) \in SlotSet
        BY <2>3, <3>3, TypeFacts DEF InductiveInv
      <4>2. \/ u[SlotOf(m)][t] = payload[SlotOf(m)][t]
            \/ payload[SlotOf(m)][t] = NoRecord /\ u[SlotOf(m)][t] \in {NoMove, HangUp}
        BY <4>1, GapFacts
      <4>3. SlotOf(m) \in lastSlot .. Slots - 1 => u[SlotOf(m)][t] # NoRecord
        BY <4>1, GapFacts
      <4>. HIDE DEF u
      <4>4. QED BY <4>2, <4>3
    <3>. HIDE DEF u
    <3>5. CASE m < last
      BY <2>6, <3>1, <3>2, <3>4, <3>5 DEF NoMove, HangUp, NoRecord
    <3>6. CASE ~(m < last)
      <4>1. SlotOf(m) \in lastSlot .. Slots - 1
        BY <2>3, <2>7, <3>1, <3>3, <3>6 DEF SlotSet
      <4>2. QED BY <3>2, <3>4, <4>1
    <3>7. QED BY <3>5, <3>6
  <2>10. CASE ~(DayOf(m) = Today /\ From # SlotOf(now)) /\ ~(NewDay /\ DayOf(m) = Today - 1)
    <3>1. table'[DayOf(m)][SlotOf(m)][t] = Row(m, t)
      BY <2>4, <2>10 DEF Row
    <3>2. m < last
      <4>1. CASE Same /\ DayOf(m) = Today
        <5>1. From = SlotOf(now) /\ From = SlotOf(last) /\ DayOf(last) = DayOf(now)
          BY <2>10, <4>1 DEF Same, Today
        <5>2. last = now
          BY <1>1, <2>3, <5>1, SameDay
        <5>3. QED BY <2>3, <5>2
      <4>2. CASE Same /\ DayOf(m) # Today
        <5>1. DayOf(m) < DayOf(last)
          BY <1>1, <2>3, <4>2 DEF Same
        <5>2. QED BY <2>3, <5>1, DayGrows, DivMod
      <4>3. CASE Later /\ DayOf(m) = Today
        BY <1>1, <2>3, <2>7, <2>10, <4>3 DEF Later, SlotSet
      <4>4. CASE Later /\ DayOf(m) # Today
        <5>1. DayOf(m) < DayOf(last)
          BY <1>1, <2>3, <2>10, <4>4, DivMod DEF Later
        <5>2. QED BY <2>3, <5>1, DayGrows, DivMod
      <4>5. QED BY <1>4, <4>1, <4>2, <4>3, <4>4
    <3>3. QED BY <2>5, <3>1, <3>2
  <2>11. QED BY <2>8, <2>9, <2>10
<1>5. QED BY <1>2, <1>3, <1>4

\* After the call what is held is the row of this day but for this minute.
LEMMA CallHolds ==
    ASSUME InductiveInv, NEW type \in Types \cup {None}, PayloadAddOne(type)
    PROVE  CalledInv'
<1>. DEFINE slot == SlotOf(now)
            p == AddEvent(Payload(NewDay), slot, type)
<1>1. /\ alive /\ UNCHANGED <<now, cut>> /\ last' = now /\ lastSlot' = slot
      /\ since' = IF since < 0 THEN now ELSE since
  BY DEF PayloadAddOne
<1>2. /\ now \in Minutes /\ now \in Nat /\ Today \in 0 .. Days - 1 /\ slot \in SlotSet
      /\ slot \in Nat /\ DayOf(now) = Today
  <2>1. now \in Minutes /\ Today \in 0 .. Days - 1 /\ slot \in SlotSet
    BY TypeFacts DEF InductiveInv
  <2>2. QED BY <2>1, TraceAssumption DEF Minutes, SlotSet, Today
<1>3. First \/ Same \/ Later
  BY <1>1, CallCases
<1>4. since' <= now
  <2>1. CASE since < 0
    BY <1>1, <1>2, <2>1
  <2>2. CASE ~(since < 0)
    BY <1>1, <1>3, <2>2, TraceAssumption DEF First, Same, Later, InductiveInv, TypeOK, Minutes
  <2>3. QED BY <2>1, <2>2
<1>5. 0 <= MaxJump /\ now - now = 0
  BY <1>2, TraceAssumption
<1>6. ASSUME NEW m \in Minutes, NEW t \in Types, m > now PROVE events'[m][t] = 0
  <2>1. events[m][t] = 0 /\ m # now
    BY <1>2, <1>6 DEF InductiveInv, FutureInv
  <2>2. QED BY <2>1, CallEvents DEF InductiveInv
<1>7. ASSUME NEW d \in 0 .. Days - 1, d > Today PROVE table'[d] = Empty
  <2>1. table[d] = Empty /\ d # Today /\ d # Today - 1
    BY <1>2, <1>7 DEF InductiveInv, FutureInv
  <2>2. QED BY <2>1, CallTable
<1>8. ASSUME NEW s \in SlotSet \ {slot} PROVE payload'[s] = table'[Today][s]
  <2>1. CASE From # slot
    BY <1>2, <2>1, CallTable
  <2>2. CASE From = slot
    <3>1. payload' = p /\ p \in Records
      BY <2>2, CallPayload
    <3>2. table'[Today] = table[Today]
      BY <1>2, <2>2, CallTable
    <3>3. \A t \in Types : p[s][t] = table[Today][s][t]
      <4>1. CASE Same
        <5>1. Payload(NewDay) = payload /\ since >= 0 /\ DayOf(last) = Today /\ SlotOf(last) = slot
          BY <2>2, <4>1 DEF Same, Payload
        <5>2. payload[s] = table[Today][s]
          BY <1>1, <1>8, <5>1 DEF InductiveInv, CalledInv
        <5>3. \A t \in Types : p[s][t] = payload[s][t]
          BY <1>2, <1>8, <5>1, EventFacts, TypeFacts DEF InductiveInv
        <5>4. QED BY <5>2, <5>3
      <4>2. CASE Later
        <5>1. Payload(NewDay) = Empty /\ since >= 0 /\ Today > DayOf(last)
          BY <1>2, <4>2, DivMod, TraceAssumption DEF Later, Payload, Minutes
        <5>2. table[Today] = Empty
          BY <1>1, <1>2, <5>1 DEF InductiveInv, CalledInv
        <5>3. \A t \in Types : p[s][t] = Empty[s][t]
          BY <1>2, <1>8, <5>1, EventFacts, EmptyFacts
        <5>4. QED BY <5>2, <5>3
      <4>3. CASE First
        BY <1>2, <2>2, <4>3 DEF First
      <4>4. QED BY <1>3, <4>1, <4>2, <4>3
    <3>4. p[s] \in [Types -> Int] /\ table[Today][s] \in [Types -> Int]
      BY <1>2, <3>1, TypeFacts DEF InductiveInv, Records
    <3>. HIDE DEF p
    <3>5. p[s] = table[Today][s]
      BY <3>3, <3>4
    <3>6. QED BY <3>1, <3>2, <3>5
  <2>3. QED BY <2>1, <2>2
<1>9. ASSUME Today \notin carried', NEW t \in Types
      PROVE  /\ events'[now][t] = 0 => payload'[slot][t] < 0
             /\ events'[now][t] > 0 /\ now \notin cut => payload'[slot][t] = events'[now][t] + 1
  BY <1>2, <1>9, CallTells DEF Tells
<1>. HIDE DEF slot, p
<1>10. QED BY <1>1, <1>2, <1>4, <1>5, <1>6, <1>7, <1>8, <1>9 DEF CalledInv, InCarried, slot

-----------------------------------------------------------------------------
(* The steps                                                               *)

LEMMA CallStep ==
    ASSUME InductiveInv, NEW type \in Types \cup {None}, PayloadAddOne(type)
    PROVE  InductiveInv'
<1>1. /\ alive /\ UNCHANGED <<now, alive, cut, runs, began>> /\ last' = now
      /\ lastSlot' = SlotOf(now)
      /\ since' = (IF since < 0 THEN now ELSE since)
      /\ carried' = (IF since < 0 /\ began # Today THEN carried \cup {Today} ELSE carried)
  BY DEF PayloadAddOne
<1>2. now \in Minutes /\ Today \in 0 .. Days - 1 /\ SlotOf(now) \in SlotSet /\ Minutes \subseteq Nat
  BY TypeFacts, TraceAssumption DEF InductiveInv, Minutes
<1>3. since' \in Minutes /\ since' >= 0
  BY <1>1, <1>2 DEF InductiveInv, TypeOK
<1>4. TypeOK'
  <2>1. payload' \in Records /\ table' \in [0 .. Days - 1 -> Records]
        /\ events' \in [Minutes -> [Types -> Nat]]
    BY CallPayload, CallTable, CallEvents DEF InductiveInv
  <2>2. carried' \subseteq 0 .. Days - 1
    BY <1>1, <1>2 DEF InductiveInv, TypeOK
  <2>3. alive' \in BOOLEAN
    BY <1>1
  <2>4. runs \in Nat /\ cut \subseteq Minutes \cup {-1} /\ began \in 0 .. Days - 1
    BY DEF InductiveInv, TypeOK
  <2>5. QED BY <1>1, <1>2, <1>3, <2>1, <2>2, <2>3, <2>4 DEF TypeOK, Records
<1>5. CalledInv'
  BY CallHolds
<1>6. FutureInv' /\ IdleInv'
  <2>1. /\ \A m \in Minutes, t \in Types : m > now => events'[m][t] = 0
        /\ \A d \in 0 .. Days - 1 : d > DayOf(now) => table'[d] = Empty
    BY <1>1, <1>3, <1>5 DEF CalledInv
  <2>2. FutureInv'
    BY <1>1, <2>1 DEF FutureInv, Today
  <2>3. IdleInv'
    BY <1>1, <1>2, <1>3 DEF IdleInv
  <2>4. QED BY <2>2, <2>3
<1>7. OwnDay' /\ OneMinuteLost'
  <2>1. ASSUME NEW m \in Minutes, NEW t \in Types, DayOf(m) \notin carried'
        PROVE  /\ events'[m][t] = 0 => table'[DayOf(m)][SlotOf(m)][t] < 0
               /\ events'[m][t] > 0 /\ m \notin cut /\ m # now
                     => table'[DayOf(m)][SlotOf(m)][t] = events'[m][t] + 1
    BY <2>1, RowTells
  <2>2. OwnDay'
    BY <2>1 DEF OwnDay, InCarried, Row
  <2>3. OneMinuteLost'
    BY <1>1, <2>1 DEF OneMinuteLost, InCarried, Row
  <2>4. QED BY <2>2, <2>3
<1>8. NoHole'
  BY CallWhole
<1>9. QED BY <1>4, <1>5, <1>6, <1>7, <1>8 DEF InductiveInv

LEMMA StartStep == InductiveInv /\ StartRecord => InductiveInv'
<1>. SUFFICES ASSUME InductiveInv, StartRecord PROVE InductiveInv'
  OBVIOUS
<1>1. /\ ~alive /\ alive' = TRUE /\ runs' = runs + 1 /\ payload' = table[Today]
      /\ lastSlot' = -1 /\ since' = -1 /\ last' = -1 /\ began' = Today
      /\ UNCHANGED <<now, table, events, cut, carried>>
  BY DEF StartRecord
<1>2. last \in cut \cup {-1} /\ ~(since' >= 0) /\ last' \notin Minutes /\ -1 \notin Minutes
  BY <1>1, TraceAssumption DEF InductiveInv, IdleInv, Minutes
<1>3. TypeOK'
  <2>1. payload' \in Records /\ Today \in 0 .. Days - 1
    BY <1>1, TypeFacts DEF InductiveInv
  <2>2. alive' \in BOOLEAN /\ runs' \in Nat
    BY <1>1 DEF InductiveInv, TypeOK
  <2>3. QED BY <1>1, <2>1, <2>2 DEF InductiveInv, TypeOK, Records
<1>4. FutureInv' /\ IdleInv' /\ CalledInv' /\ NoHole'
  BY <1>1, <1>2 DEF InductiveInv, FutureInv, IdleInv, CalledInv, NoHole, Today
<1>5. OwnDay'
  BY <1>1 DEF InductiveInv, OwnDay, InCarried, Row
<1>6. OneMinuteLost'
  BY <1>1, <1>2 DEF InductiveInv, OneMinuteLost, InCarried, Row
<1>7. QED BY <1>3, <1>4, <1>5, <1>6 DEF InductiveInv

LEMMA StopStep == InductiveInv /\ StopRecord => InductiveInv'
<1>. SUFFICES ASSUME InductiveInv, StopRecord PROVE InductiveInv'
  OBVIOUS
<1>1. /\ alive' = FALSE /\ cut' = cut \cup {last}
      /\ UNCHANGED <<now, payload, lastSlot, table, events, runs, since, last, began, carried>>
  BY DEF StopRecord, recordVars
<1>2. TypeOK'
  <2>1. cut' \subseteq Minutes \cup {-1} /\ alive' \in BOOLEAN
    BY <1>1 DEF InductiveInv, TypeOK
  <2>2. QED BY <1>1, <2>1 DEF InductiveInv, TypeOK
<1>3. FutureInv' /\ IdleInv' /\ CalledInv' /\ NoHole'
  BY <1>1 DEF InductiveInv, FutureInv, IdleInv, CalledInv, NoHole, Today
<1>4. OwnDay'
  BY <1>1 DEF InductiveInv, OwnDay, InCarried, Row
<1>5. OneMinuteLost'
  BY <1>1 DEF InductiveInv, OneMinuteLost, InCarried, Row
<1>6. QED BY <1>2, <1>3, <1>4, <1>5 DEF InductiveInv

LEMMA AdvanceStep ==
    ASSUME InductiveInv, NEW k \in 1 .. MaxJump, Advance(k)
    PROVE  InductiveInv'
<1>1. /\ now' = now + k /\ now' \in Minutes
      /\ UNCHANGED <<payload, lastSlot, alive, table, events, runs, since, last, cut, began, carried>>
  BY DEF Advance, recordVars, histVars
<1>2. now \in Minutes /\ Minutes \subseteq Nat /\ k \in Nat /\ now < now'
  BY <1>1, TraceAssumption DEF InductiveInv, TypeOK, Minutes
<1>3. Today' >= Today /\ Today \in Nat /\ Today' \in Nat
  <2>1. now \in Nat /\ now' \in Nat
    BY <1>1, <1>2
  <2>2. DayOf(now) <= DayOf(now') /\ DayOf(now) \in Nat /\ DayOf(now') \in Nat
    BY <1>2, <2>1, DayGrows, DivMod
  <2>3. QED BY <2>2 DEF Today
<1>4. TypeOK'
  BY <1>1 DEF InductiveInv, TypeOK
<1>5. FutureInv'
  BY <1>1, <1>2, <1>3 DEF InductiveInv, FutureInv
<1>6. IdleInv' /\ OwnDay' /\ OneMinuteLost' /\ NoHole'
  BY <1>1 DEF InductiveInv, IdleInv, OwnDay, OneMinuteLost, NoHole, InCarried, Row
<1>7. CalledInv'
  <2>1. ASSUME alive, since >= 0
        PROVE  last <= now' /\ now' - last <= MaxJump
    <3>1. since \in Minutes \cup {-1} /\ last \in Minutes \cup {-1} /\ since <= last /\ last <= now
      BY <2>1 DEF InductiveInv, CalledInv, TypeOK
    <3>2. ~(last < 0) /\ last \in Nat
      BY <1>2, <2>1, <3>1
    <3>3. now + k - (IF last < 0 THEN now ELSE last) <= MaxJump
      BY <2>1 DEF Advance
    <3>4. QED BY <1>1, <1>2, <3>1, <3>2, <3>3
  <2>2. QED BY <1>1, <2>1 DEF InductiveInv, CalledInv, InCarried
<1>8. QED BY <1>4, <1>5, <1>6, <1>7 DEF InductiveInv

-----------------------------------------------------------------------------
(* The theorems                                                            *)

LEMMA InitHolds == Init => InductiveInv
<1>. SUFFICES ASSUME Init PROVE InductiveInv
  OBVIOUS
<1>1. /\ now = 0 /\ payload = Empty /\ lastSlot = -1 /\ alive = FALSE
      /\ table = [d \in 0 .. Days - 1 |-> Empty]
      /\ events = [m \in Minutes |-> [t \in Types |-> 0]]
      /\ runs = 0 /\ since = -1 /\ last = -1 /\ cut = {} /\ began = 0 /\ carried = {}
  BY DEF Init
<1>2. 0 \in Minutes /\ 0 \in 0 .. Days - 1
  <2>1. Days * Slots \in Nat /\ Days * Slots # 0
    BY TraceAssumption
  <2>2. QED BY <2>1, TraceAssumption DEF Minutes
<1>3. TypeOK
  <2>1. payload \in Records /\ table \in [0 .. Days - 1 -> Records]
    BY <1>1, EmptyFacts
  <2>2. events \in [Minutes -> [Types -> Nat]]
    BY <1>1
  <2>3. alive \in BOOLEAN
    BY <1>1
  <2>4. QED BY <1>1, <1>2, <2>1, <2>2, <2>3 DEF TypeOK, Records
<1>4. /\ \A m \in Minutes, t \in Types : events[m][t] = 0
      /\ \A d \in 0 .. Days - 1 : table[d] = Empty
  BY <1>1
<1>5. FutureInv /\ IdleInv /\ CalledInv /\ NoHole
  BY <1>1, <1>4 DEF FutureInv, IdleInv, CalledInv, NoHole
<1>6. OwnDay
  <2>1. ASSUME NEW m \in Minutes, NEW t \in Types PROVE Row(m, t) < 0
    BY <1>4, MinuteFacts, EmptyFacts DEF Row, NoRecord
  <2>2. QED BY <2>1 DEF OwnDay
<1>7. OneMinuteLost
  BY <1>4 DEF OneMinuteLost
<1>8. QED BY <1>3, <1>5, <1>6, <1>7 DEF InductiveInv

LEMMA NextHolds == InductiveInv /\ [Next]_vars => InductiveInv'
<1>. SUFFICES ASSUME InductiveInv, [Next]_vars PROVE InductiveInv'
  OBVIOUS
<1>1. CASE \E type \in Types \cup {None} : PayloadAddOne(type)
  BY <1>1, CallStep
<1>2. CASE StartRecord
  BY <1>2, StartStep
<1>3. CASE StopRecord
  BY <1>3, StopStep
<1>4. CASE \E k \in 1 .. MaxJump : Advance(k)
  BY <1>4, AdvanceStep
<1>5. CASE UNCHANGED vars
  <2>1. UNCHANGED <<now, payload, lastSlot, alive, table, events, runs, since, last, cut, began,
                    carried>>
    BY <1>5 DEF vars, recordVars, histVars
  <2>2. TypeOK' /\ FutureInv' /\ IdleInv' /\ NoHole'
    BY <2>1 DEF InductiveInv, TypeOK, FutureInv, IdleInv, NoHole, Today, Row
  <2>3. CalledInv'
    BY <2>1 DEF InductiveInv, CalledInv, InCarried
  <2>4. OwnDay' /\ OneMinuteLost'
    BY <2>1 DEF InductiveInv, OwnDay, OneMinuteLost, InCarried, Row
  <2>5. QED BY <2>2, <2>3, <2>4 DEF InductiveInv
<1>6. QED BY <1>1, <1>2, <1>3, <1>4, <1>5 DEF Next

\* Every step of Spec keeps the inductive invariant.
THEOREM InvariantHolds == Spec => []InductiveInv
<1>1. QED BY InitHolds, NextHolds, PTL DEF Spec

\* The variables keep their types.
THEOREM TraceTypes == Spec => []TypeOK
<1>1. InductiveInv => TypeOK
  BY DEF InductiveInv
<1>2. QED BY <1>1, InvariantHolds, PTL

\* No row shows use in a minute without events, over every change of day and
\* every restart, but the row of a day that a run begun earlier goes on with.
THEOREM RowsOfTheirDay == Spec => []OwnDay
<1>1. InductiveInv => OwnDay
  BY DEF InductiveInv
<1>2. QED BY <1>1, InvariantHolds, PTL

\* A run that ends, however it ends, loses the events of its last minute only.
THEOREM LosesOneMinute == Spec => []OneMinuteLost
<1>1. InductiveInv => OneMinuteLost
  BY DEF InductiveInv
<1>2. QED BY <1>1, InvariantHolds, PTL

\* Between the first and the last call of a run every minute has a record.
THEOREM LeavesNoHole == Spec => []NoHole
<1>1. InductiveInv => NoHole
  BY DEF InductiveInv
<1>2. QED BY <1>1, InvariantHolds, PTL
=============================================================================
