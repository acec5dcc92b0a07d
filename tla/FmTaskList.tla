----------------------------- MODULE FmTaskList -----------------------------
(***************************************************************************)
(* FmScheduler::tasks_ and the operations FmScheduler offers on it          *)
(* (FmScheduler.cpp).  The list is a sequence of task ids; what a task is   *)
(* (type, result, priority) is kept by the modules that use the list and    *)
(* handed in, because the code shares the task objects by pointer.  Every   *)
(* operation runs under FmScheduler::mutex_.                                *)
(***************************************************************************)
EXTENDS Integers, Sequences, SequencesExt

\* What get, getByType and getFirst return for NULL.
NoTask == 0

\* Where add() puts a task of priority p[t]: behind the last task that is not
\* after it in priority, scanning from the back; 0 is the front.
Fits(s, p, t) == {i \in 1 .. Len(s) : p[t] >= p[s[i]]}

InsertPos(s, p, t) ==
    IF Fits(s, p, t) = {} THEN 0 ELSE Max(Fits(s, p, t))

\* Mutant: new tasks go to the back, whatever their priority.
AddBack(s, p, t) == Append(s, t)

\* FmScheduler::add
Add(s, p, t) == InsertAt(s, InsertPos(s, p, t) + 1, t)

\* Erase the first task in `which', if there is one.
EraseFirst(s, which) ==
    LET hits == {i \in 1 .. Len(s) : s[i] \in which}
    IN  IF hits = {} THEN s ELSE RemoveAt(s, Min(hits))

\* Mutant: the test of the result is inverted.
CleanErrorInverted(s, failed, connects) == EraseFirst(s, ToSet(s) \ (failed \cup connects))

\* FmScheduler::cleanError: ONE failed task goes, and never a Connect task.
CleanError(s, failed, connects) == EraseFirst(s, failed \ connects)

\* FmScheduler::remove
RemoveTask(s, t) == EraseFirst(s, {t})

\* The first task of `which' in list order: getByType, and the loop of getFirst.
FirstOf(s, which) ==
    LET hits == {i \in 1 .. Len(s) : s[i] \in which}
    IN  IF hits = {} THEN NoTask ELSE s[Min(hits)]

\* FmScheduler::getFirst: a failed task at the front blocks both engines; a
\* failed task further back does not, and may itself be returned.
GetFirst(s, ok, kind) ==
    IF s = <<>> THEN NoTask
    ELSE IF s[1] \notin ok THEN NoTask
    ELSE FirstOf(s, kind)

\* FmScheduler::get
Known(s, t) == \E i \in 1 .. Len(s) : s[i] = t

\* Task a is listed in front of task b.
Precedes(s, a, b) == \E i, j \in 1 .. Len(s) : i < j /\ s[i] = a /\ s[j] = b

\* The list is ordered by priority (small numbers first).
Sorted(s, p) == \A i, j \in 1 .. Len(s) : i < j => p[s[i]] <= p[s[j]]
=============================================================================
