------------------------------ MODULE WorkTrace ------------------------------
(***************************************************************************)
(* WorkTrace: how much mouse and keyboard were used in every minute of the  *)
(* day.  payload_ holds one value per minute (slot) and type; a row of the  *)
(* table, under the date, keeps it.  The window procedure of the recording  *)
(* thread calls payloadAddOne for every event and every 30 seconds; the     *)
(* process may be stopped or die at any time and be started again.          *)
(***************************************************************************)
EXTENDS Integers

CONSTANTS
    Types,     \* mouse, keyboard
    Slots,     \* EUHAT_WT_PAYLOAD_COUNT, 60 * 24 in the code
    Days,      \* bound: days
    MaxJump,   \* bound: minutes between two calls; less than a day
    MaxEvents, \* bound: events of a type in a minute
    MaxRuns    \* bound: runs of the recording

None     == "none"
NoMove   == -1
HangUp   == -2
NoRecord == -3

ASSUME TraceAssumption ==
    /\ Slots \in Nat \ {0} /\ Days \in Nat \ {0} /\ MaxEvents \in Nat /\ MaxRuns \in Nat
    /\ MaxJump \in 1 .. Slots - 1
    /\ None \notin Types

VARIABLES
    now,       \* the clock: minutes since the first day began
    payload,   \* payload_
    lastSlot,  \* lastSlot_
    alive,     \* the recording thread runs
    table,     \* the rows of the table WorkTrace; a missing row is all NoRecord
    events,    \* history: events that reached payloadAddOne in each minute
    runs,      \* history: runs of the recording so far
    since,     \* history: minute of the first call of this run, -1 before it
    last,      \* history: minute of the last call of this run
    cut,       \* history: minutes in which a run ended
    began,     \* history: the day on which this run read its row
    carried    \* history: days that a run began one day earlier goes on with

recordVars == <<payload, lastSlot>>
histVars   == <<events, runs, since, last, cut, began, carried>>
vars == <<now, recordVars, alive, table, histVars>>

Minutes == 0 .. Days * Slots - 1
SlotSet == 0 .. Slots - 1

\* localtime: the day of a minute, and its slot in the day.
DayOf(m)  == m \div Slots
SlotOf(m) == m % Slots

Today   == DayOf(now)
Empty   == [s \in SlotSet |-> [t \in Types |-> NoRecord]]

Init ==
    /\ now = 0
    /\ payload = Empty /\ lastSlot = -1 /\ alive = FALSE
    /\ table = [d \in 0 .. Days - 1 |-> Empty]
    /\ events = [m \in Minutes |-> [t \in Types |-> 0]]
    /\ runs = 0 /\ since = -1 /\ last = -1 /\ cut = {} /\ began = 0 /\ carried = {}

-----------------------------------------------------------------------------
(* One call                                                                *)

\* The first event of a minute counts twice.
AddEvent(p, slot, type) ==
    IF type = None THEN p
    ELSE [p EXCEPT ![slot][type] = IF @ < 0 THEN 2 ELSE @ + 1]

\* Mutant: the last minute is not filled.
UpdateNoMoveGapShort(p, from, to) ==
    LET gap   == IF from > to THEN (from .. Slots - 1) \cup (0 .. to - 1) ELSE from + 1 .. to
        value == IF to - from \in {-1, 0, 1} THEN NoMove ELSE HangUp
    IN  IF from < 0 THEN p
        ELSE [s \in SlotSet |-> [t \in Types |->
                IF s \in gap /\ p[s][t] = NoRecord THEN value ELSE p[s][t]]]

\* updateNoMoveGap, updateNoMoveSlot: minutes without a record since the last
\* call had no move, or the machine was hung up.
UpdateNoMoveGap(p, from, to) ==
    LET gap   == IF from > to THEN (from .. Slots - 1) \cup (0 .. to - 1) ELSE from .. to
        value == IF to - from \in {-1, 0, 1} THEN NoMove ELSE HangUp
    IN  IF from < 0 THEN p
        ELSE [s \in SlotSet |-> [t \in Types |->
                IF s \in gap /\ p[s][t] = NoRecord THEN value ELSE p[s][t]]]

\* Mutant: payload_ goes on into the next day.
PayloadKept(newDay) == payload

\* What is recorded of the day: nothing, after payload_.reset().
Payload(newDay) == IF newDay THEN Empty ELSE payload

\* The row of the day that has ended, filled to its last minute.
Table(newDay) ==
    IF newDay THEN [table EXCEPT ![Today - 1] = UpdateNoMoveGap(payload, lastSlot, Slots - 1)]
    ELSE table

\* payloadAddOne: a slot below the last one means that a day has ended.  The row
\* is written when the minute changes.
PayloadAddOne(type) ==
    /\ alive
    /\ type # None => events[now][type] < MaxEvents
    /\ LET slot   == SlotOf(now)
           newDay == slot < lastSlot
           from   == IF newDay THEN 0 ELSE lastSlot
           p      == AddEvent(Payload(newDay), slot, type)
       IN /\ payload' = IF from # slot THEN UpdateNoMoveGap(p, from, slot) ELSE p
          /\ table' = IF from # slot THEN [Table(newDay) EXCEPT ![Today] = payload']
                      ELSE Table(newDay)
          /\ lastSlot' = slot
    /\ events' = IF type = None THEN events ELSE [events EXCEPT ![now][type] = @ + 1]
    /\ since' = IF since < 0 THEN now ELSE since
    /\ last' = now
    /\ carried' = IF since < 0 /\ began # Today THEN carried \cup {Today} ELSE carried
    /\ UNCHANGED <<now, alive, runs, cut, began>>

-----------------------------------------------------------------------------
(* Starting, stopping, time                                                *)

\* Mutant: the row of the day is not read.
StartRecordFresh ==
    /\ ~alive /\ alive' = TRUE
    /\ runs < MaxRuns /\ runs' = runs + 1
    /\ payload' = Empty /\ lastSlot' = -1
    /\ since' = -1 /\ last' = -1 /\ began' = Today
    /\ UNCHANGED <<now, table, events, cut, carried>>

\* startRecord, EuhatWtPayload::read
StartRecord ==
    /\ ~alive /\ alive' = TRUE
    /\ runs < MaxRuns /\ runs' = runs + 1
    /\ payload' = table[Today] /\ lastSlot' = -1
    /\ since' = -1 /\ last' = -1 /\ began' = Today
    /\ UNCHANGED <<now, table, events, cut, carried>>

\* stopRecord writes nothing, as little as a process that dies.
StopRecord ==
    /\ alive /\ alive' = FALSE
    /\ cut' = cut \cup {last}
    /\ UNCHANGED <<now, recordVars, table, events, runs, since, last, began, carried>>

Advance(k) ==
    /\ now + k \in Minutes
    /\ alive => now + k - (IF last < 0 THEN now ELSE last) <= MaxJump
    /\ now' = now + k
    /\ UNCHANGED <<recordVars, alive, table, histVars>>

-----------------------------------------------------------------------------
Next == \/ \E type \in Types \cup {None} : PayloadAddOne(type)
        \/ StartRecord \/ StopRecord
        \/ \E k \in 1 .. MaxJump : Advance(k)

Spec == Init /\ [][Next]_vars

-----------------------------------------------------------------------------
(* Properties                                                              *)

\* The types of the variables.
TypeOK ==
    /\ now \in Minutes /\ lastSlot \in SlotSet \cup {-1} /\ alive \in BOOLEAN
    /\ payload \in [SlotSet -> [Types -> Int]]
    /\ table \in [0 .. Days - 1 -> [SlotSet -> [Types -> Int]]]
    /\ events \in [Minutes -> [Types -> Nat]]
    /\ runs \in Nat /\ since \in Minutes \cup {-1} /\ last \in Minutes \cup {-1}
    /\ cut \subseteq Minutes \cup {-1}
    /\ began \in 0 .. Days - 1 /\ carried \subseteq 0 .. Days - 1

Row(m, t) == table[DayOf(m)][SlotOf(m)][t]
InCarried(m) == DayOf(m) \in carried

\* The row of a day shows no use in a minute without events (payloadAddOne at the
\* change of day, startRecord), but for a day before which the recording began
\* and had not yet been called: it goes on with the row of the day before.
OwnDay ==
    \A m \in Minutes, t \in Types : ~InCarried(m) /\ events[m][t] = 0 => Row(m, t) < 0

\* What the process can lose when it stops or dies is one minute: every other
\* minute is in the table, with all of its events.
OneMinuteLost ==
    \A m \in Minutes \ (cut \cup {last}), t \in Types :
        ~InCarried(m) /\ events[m][t] > 0 => Row(m, t) = events[m][t] + 1

\* From the first call of a run to its last there is no minute without a record,
\* over sleeps and changes of day (updateNoMoveGap).
NoHole ==
    alive /\ since >= 0 => \A m \in since .. last - 1, t \in Types : Row(m, t) # NoRecord

-----------------------------------------------------------------------------
(* The inductive invariant                                                 *)

\* Nothing is recorded of the time to come.
FutureInv ==
    /\ \A m \in Minutes, t \in Types : m > now => events[m][t] = 0
    /\ \A d \in 0 .. Days - 1 : d > Today => table[d] = Empty

\* A run that ended lost its last minute; one that was not called yet holds the
\* row it has read.
IdleInv ==
    /\ ~alive => last \in cut \cup {-1}
    /\ alive /\ since < 0 => last = -1 /\ lastSlot = -1 /\ payload = table[began]

\* A run that was called: what it holds is the row of the day of its last call,
\* but for the minute of that call, of which the table may be late.
CalledInv ==
    alive /\ since >= 0 =>
        /\ since <= last /\ last <= now /\ now - last <= MaxJump /\ lastSlot = SlotOf(last)
        /\ \A m \in Minutes, t \in Types : m > last => events[m][t] = 0
        /\ \A d \in 0 .. Days - 1 : d > DayOf(last) => table[d] = Empty
        /\ \A s \in SlotSet \ {lastSlot} : payload[s] = table[DayOf(last)][s]
        /\ ~InCarried(last) => \A t \in Types :
              /\ events[last][t] = 0 => payload[lastSlot][t] < 0
              /\ events[last][t] > 0 /\ last \notin cut
                    => payload[lastSlot][t] = events[last][t] + 1

InductiveInv ==
    TypeOK /\ FutureInv /\ IdleInv /\ CalledInv /\ OwnDay /\ OneMinuteLost /\ NoHole
=============================================================================
