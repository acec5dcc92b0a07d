-------------------------- MODULE FmTaskListProofs --------------------------
(***************************************************************************)
(* Lemmas about the task list of FmScheduler, for every list, every table  *)
(* of priorities and every task.                                           *)
(***************************************************************************)
EXTENDS FmTaskList, SequenceTheorems, WellFoundedInduction, TLAPS

\* A non-empty set of naturals has a least element.
LEMMA NatMin ==
    ASSUME NEW S, S \subseteq Nat, S # {}
    PROVE  \E x \in S : \A y \in S : x <= y
<1>1. PICK x \in S : \A y \in S : ~(<<y, x>> \in OpToRel(<, Nat))
    BY NatLessThanWellFounded, WFMin
<1>2. \A y \in S : <<y, x>> \in OpToRel(<, Nat) <=> y < x
    BY DEF OpToRel
<1>3. \A y \in S : ~(y < x)
    BY <1>1, <1>2
<1>4. \A y \in S : y \in Nat /\ x \in Nat
    OBVIOUS
<1>5. \A y \in S : x <= y
    BY <1>3, <1>4
<1>. QED
    BY <1>5

\* Min picks the least of a non-empty set of list positions.
LEMMA MinPos ==
    ASSUME NEW n \in Nat, NEW S, S \subseteq 1 .. n, S # {}
    PROVE  Min(S) \in S /\ \A y \in S : Min(S) <= y
<1>0. S \subseteq Nat
    OBVIOUS
<1>1. \E x \in S : \A y \in S : x <= y
    BY <1>0, NatMin
<1>. QED
    BY <1>1 DEF Min

\* Max picks the greatest of a non-empty set of list positions.
LEMMA MaxPos ==
    ASSUME NEW n \in Nat, NEW S, S \subseteq 1 .. n, S # {}
    PROVE  Max(S) \in S /\ \A y \in S : Max(S) >= y
<1>. DEFINE T == {n - x : x \in S}
<1>1. T \subseteq Nat /\ T # {}
    OBVIOUS
<1>2. PICK z \in T : \A y \in T : z <= y
    BY <1>1, NatMin
<1>3. PICK x \in S : z = n - x
    OBVIOUS
<1>4. ASSUME NEW y \in S PROVE x >= y
  <2>1. n - y \in T
    OBVIOUS
  <2>2. n - x <= n - y
    BY <1>2, <1>3, <2>1
  <2>. QED
    BY <2>2
<1>5. \E m \in S : \A y \in S : m >= y
    BY <1>4
<1>. QED
    BY <1>5 DEF Max

-----------------------------------------------------------------------------
\* InsertAt as a sequence: its length and its elements.
LEMMA InsertAtProperties ==
    ASSUME NEW T, NEW s \in Seq(T), NEW e \in T, NEW k \in 0 .. Len(s)
    PROVE  /\ InsertAt(s, k + 1, e) \in Seq(T)
           /\ Len(InsertAt(s, k + 1, e)) = Len(s) + 1
           /\ \A i \in 1 .. Len(s) + 1 :
                 InsertAt(s, k + 1, e)[i] = IF i <= k THEN s[i]
                                            ELSE IF i = k + 1 THEN e ELSE s[i - 1]
<1>. DEFINE a == SubSeq(s, 1, k)
            b == SubSeq(s, k + 1, Len(s))
<1>1. /\ a \in Seq(T) /\ Len(a) = k
      /\ \A i \in 1 .. k : a[i] = s[i]
    BY SubSeqProperties
<1>2. /\ b \in Seq(T) /\ Len(b) = Len(s) - k
      /\ \A i \in 1 .. Len(s) - k : b[i] = s[k + i]
    BY SubSeqProperties
<1>. DEFINE c == a \o <<e>>
<1>3. InsertAt(s, k + 1, e) = c \o b
  <2>1. (k + 1) - 1 = k
    OBVIOUS
  <2>. QED
    BY <2>1, Zenon DEF InsertAt
<1>. HIDE DEF a, b
<1>4. /\ c \in Seq(T) /\ Len(c) = k + 1
      /\ \A i \in 1 .. k + 1 : c[i] = IF i <= k THEN s[i] ELSE e
    BY <1>1
<1>. HIDE DEF c
<1>5. /\ c \o b \in Seq(T)
      /\ Len(c \o b) = Len(c) + Len(b)
      /\ \A i \in 1 .. Len(c) + Len(b) :
            (c \o b)[i] = IF i <= Len(c) THEN c[i] ELSE b[i - Len(c)]
    BY <1>2, <1>4, ConcatProperties
<1>6. Len(c) + Len(b) = Len(s) + 1
    BY <1>2, <1>4
<1>7. ASSUME NEW i \in 1 .. Len(s) + 1
      PROVE  (c \o b)[i] = IF i <= k THEN s[i]
                           ELSE IF i = k + 1 THEN e ELSE s[i - 1]
  <2>1. CASE i <= k + 1
    BY <1>4, <1>5, <1>6, <2>1
  <2>2. CASE i > k + 1
    <3>1. (c \o b)[i] = b[i - (k + 1)]
      BY <1>4, <1>5, <1>6, <2>2
    <3>2. i - (k + 1) \in 1 .. Len(s) - k /\ k + (i - (k + 1)) = i - 1
      BY <2>2
    <3>3. b[i - (k + 1)] = s[k + (i - (k + 1))]
      BY <1>2, <3>2
    <3>. QED
      BY <2>2, <3>1, <3>2, <3>3
  <2>3. i <= k + 1 \/ i > k + 1
    OBVIOUS
  <2>. QED
    BY <2>1, <2>2, <2>3, Zenon
<1>. QED
    BY <1>3, <1>5, <1>6, <1>7

\* RemoveAt as a sequence.
LEMMA RemoveAtProperties ==
    ASSUME NEW T, NEW s \in Seq(T), NEW k \in 1 .. Len(s)
    PROVE  /\ RemoveAt(s, k) \in Seq(T)
           /\ Len(RemoveAt(s, k)) = Len(s) - 1
           /\ \A i \in 1 .. Len(s) - 1 :
                 RemoveAt(s, k)[i] = IF i < k THEN s[i] ELSE s[i + 1]
<1>. DEFINE a == SubSeq(s, 1, k - 1)
            b == SubSeq(s, k + 1, Len(s))
<1>1. /\ a \in Seq(T) /\ Len(a) = k - 1
      /\ \A i \in 1 .. k - 1 : a[i] = s[i]
    BY SubSeqProperties
<1>2. /\ b \in Seq(T) /\ Len(b) = Len(s) - k
      /\ \A i \in 1 .. Len(s) - k : b[i] = s[k + i]
    BY SubSeqProperties
<1>3. RemoveAt(s, k) = a \o b
    BY DEF RemoveAt
<1>. HIDE DEF a, b
<1>4. /\ a \o b \in Seq(T) /\ Len(a \o b) = Len(s) - 1
      /\ \A i \in 1 .. Len(s) - 1 :
            (a \o b)[i] = IF i <= k - 1 THEN a[i] ELSE b[i - (k - 1)]
    BY <1>1, <1>2, ConcatProperties
<1>. QED
    BY <1>1, <1>2, <1>3, <1>4

-----------------------------------------------------------------------------
\* Where FmScheduler::add inserts: everything behind that place has a larger
\* priority number, the task right before it does not.
LEMMA InsertPosProperties ==
    ASSUME NEW T, NEW s \in Seq(T), NEW t \in T, NEW p \in [T -> Int]
    PROVE  /\ InsertPos(s, p, t) \in 0 .. Len(s)
           /\ InsertPos(s, p, t) > 0 => p[t] >= p[s[InsertPos(s, p, t)]]
           /\ \A i \in 1 .. Len(s) : i > InsertPos(s, p, t) => p[t] < p[s[i]]
<1>. DEFINE F == Fits(s, p, t)
<1>1. F \subseteq 1 .. Len(s) /\ Len(s) \in Nat
    BY DEF Fits
<1>2. \A i \in 1 .. Len(s) : p[s[i]] \in Int /\ p[t] \in Int
    OBVIOUS
<1>3. CASE F = {}
  <2>1. InsertPos(s, p, t) = 0
    BY <1>3 DEF InsertPos
  <2>2. \A i \in 1 .. Len(s) : p[t] < p[s[i]]
    BY <1>2, <1>3 DEF Fits
  <2>. QED
    BY <1>1, <2>1, <2>2
<1>4. CASE F # {}
  <2>1. InsertPos(s, p, t) = Max(F)
    BY <1>4 DEF InsertPos
  <2>2. Max(F) \in F /\ \A y \in F : Max(F) >= y
    BY <1>1, <1>4, MaxPos
  <2>3. Max(F) \in 1 .. Len(s) /\ p[t] >= p[s[Max(F)]]
    BY <2>2 DEF Fits
  <2>4. ASSUME NEW i \in 1 .. Len(s), i > Max(F) PROVE p[t] < p[s[i]]
    <3>1. i \notin F
      BY <2>2, <2>3, <2>4
    <3>. QED
      BY <3>1, <1>2 DEF Fits
  <2>. QED
    BY <2>1, <2>3, <2>4
<1>. QED
    BY <1>3, <1>4

\* FmScheduler::add inserts exactly the new task and moves nothing else.
LEMMA AddProperties ==
    ASSUME NEW T, NEW s \in Seq(T), NEW t \in T, NEW p \in [T -> Int]
    PROVE  /\ Add(s, p, t) \in Seq(T)
           /\ Len(Add(s, p, t)) = Len(s) + 1
           /\ \A i \in 1 .. Len(s) + 1 :
                 Add(s, p, t)[i] = IF i <= InsertPos(s, p, t) THEN s[i]
                                   ELSE IF i = InsertPos(s, p, t) + 1 THEN t
                                   ELSE s[i - 1]
<1>. DEFINE k == InsertPos(s, p, t)
<1>1. k \in 0 .. Len(s)
    BY InsertPosProperties
<1>2. Add(s, p, t) = InsertAt(s, k + 1, t)
    BY DEF Add
<1>. HIDE DEF k
<1>3. /\ InsertAt(s, k + 1, t) \in Seq(T)
      /\ Len(InsertAt(s, k + 1, t)) = Len(s) + 1
      /\ \A i \in 1 .. Len(s) + 1 :
            InsertAt(s, k + 1, t)[i] = IF i <= k THEN s[i]
                                       ELSE IF i = k + 1 THEN t ELSE s[i - 1]
    BY <1>1, InsertAtProperties
<1>. QED
    BY <1>2, <1>3 DEF k

\* FmScheduler::add keeps the list ordered by priority.
THEOREM AddKeepsSorted ==
    ASSUME NEW T, NEW s \in Seq(T), NEW t \in T, NEW p \in [T -> Int],
           Sorted(s, p)
    PROVE  Sorted(Add(s, p, t), p)
<1>. DEFINE k == InsertPos(s, p, t)
            r == Add(s, p, t)
<1>1. /\ k \in 0 .. Len(s)
      /\ k > 0 => p[t] >= p[s[k]]
      /\ \A i \in 1 .. Len(s) : i > k => p[t] < p[s[i]]
    BY InsertPosProperties
<1>2. /\ Len(r) = Len(s) + 1
      /\ \A i \in 1 .. Len(s) + 1 :
            r[i] = IF i <= k THEN s[i] ELSE IF i = k + 1 THEN t ELSE s[i - 1]
  <2>1. /\ Len(Add(s, p, t)) = Len(s) + 1
        /\ \A i \in 1 .. Len(s) + 1 :
              Add(s, p, t)[i] = IF i <= InsertPos(s, p, t) THEN s[i]
                                ELSE IF i = InsertPos(s, p, t) + 1 THEN t
                                ELSE s[i - 1]
    BY AddProperties
  <2>. QED
    BY <2>1
<1>3. Len(s) \in Nat /\ p[t] \in Int /\ \A i \in 1 .. Len(s) : p[s[i]] \in Int
    OBVIOUS
<1>4. \A i \in 1 .. Len(s) : i <= k => p[s[i]] <= p[t]
    BY <1>1, <1>3 DEF Sorted
<1>. HIDE DEF k, r
<1>5. ASSUME NEW i \in 1 .. Len(r), NEW j \in 1 .. Len(r), i < j
      PROVE  p[r[i]] <= p[r[j]]
  <2>1. CASE j <= k
    <3>1. /\ r[i] = s[i] /\ r[j] = s[j]
          /\ i \in 1 .. Len(s) /\ j \in 1 .. Len(s)
      BY <1>1, <1>2, <1>3, <1>5, <2>1
    <3>. QED
      BY <1>5, <3>1 DEF Sorted
  <2>2. CASE j = k + 1
    <3>1. i \in 1 .. Len(s) /\ i <= k /\ j \in 1 .. Len(s) + 1 /\ ~(j <= k)
      BY <1>1, <1>2, <1>3, <1>5, <2>2
    <3>2. i \in 1 .. Len(s) + 1
      BY <1>3, <3>1
    <3>3. r[i] = s[i] /\ r[j] = t
      BY <1>2, <2>2, <3>1, <3>2
    <3>. QED
      BY <1>4, <3>1, <3>3
  <2>3. CASE j > k + 1
    <3>1. r[j] = s[j - 1] /\ j - 1 \in 1 .. Len(s) /\ j - 1 > k
      BY <1>1, <1>2, <1>3, <2>3
    <3>2. CASE i <= k
      <4>1. r[i] = s[i] /\ i \in 1 .. Len(s) /\ i < j - 1
        BY <1>1, <1>2, <1>3, <1>5, <2>3, <3>2
      <4>. QED
        BY <3>1, <4>1 DEF Sorted
    <3>3. CASE i = k + 1
      BY <1>1, <1>2, <1>3, <1>5, <3>1, <3>3
    <3>4. CASE i > k + 1
      <4>1. r[i] = s[i - 1] /\ i - 1 \in 1 .. Len(s) /\ i - 1 < j - 1
        BY <1>1, <1>2, <1>3, <1>5, <2>3, <3>4
      <4>. QED
        BY <3>1, <4>1 DEF Sorted
    <3>. QED
      BY <1>1, <3>2, <3>3, <3>4
  <2>. QED
    BY <1>1, <1>2, <1>3, <2>1, <2>2, <2>3
<1>. QED
    BY <1>5 DEF Sorted, r

\* Erasing the first match of a list: the list, or the list without one place.
LEMMA EraseFirstProperties ==
    ASSUME NEW T, NEW s \in Seq(T), NEW W
    PROVE  \/ EraseFirst(s, W) = s
           \/ \E k \in 1 .. Len(s) : s[k] \in W /\ EraseFirst(s, W) = RemoveAt(s, k)
<1>. DEFINE H == {i \in 1 .. Len(s) : s[i] \in W}
<1>1. CASE H = {}
    BY <1>1 DEF EraseFirst
<1>2. CASE H # {}
  <2>1. H \subseteq 1 .. Len(s) /\ Len(s) \in Nat
    OBVIOUS
  <2>2. Min(H) \in H
    BY <1>2, <2>1, MinPos
  <2>3. EraseFirst(s, W) = RemoveAt(s, Min(H))
    BY <1>2 DEF EraseFirst
  <2>. QED
    BY <2>2, <2>3
<1>. QED
    BY <1>1, <1>2

\* cleanError and remove return a list of tasks.
LEMMA EraseFirstType ==
    ASSUME NEW T, NEW s \in Seq(T), NEW W
    PROVE  EraseFirst(s, W) \in Seq(T)
<1>1. CASE EraseFirst(s, W) = s
    BY <1>1
<1>2. CASE \E k \in 1 .. Len(s) : s[k] \in W /\ EraseFirst(s, W) = RemoveAt(s, k)
    BY <1>2, RemoveAtProperties
<1>. QED
    BY <1>1, <1>2, EraseFirstProperties

\* getFirst and getByType return a task of the list of the wanted kind, or NULL.
LEMMA FirstOfProperties ==
    ASSUME NEW T, NEW s \in Seq(T), NEW W
    PROVE  \/ FirstOf(s, W) = NoTask
           \/ FirstOf(s, W) \in T \cap W
<1>. DEFINE H == {i \in 1 .. Len(s) : s[i] \in W}
<1>1. CASE H = {}
    BY <1>1 DEF FirstOf
<1>2. CASE H # {}
  <2>1. H \subseteq 1 .. Len(s) /\ Len(s) \in Nat
    OBVIOUS
  <2>2. Min(H) \in H
    BY <1>2, <2>1, MinPos
  <2>3. FirstOf(s, W) = s[Min(H)]
    BY <1>2 DEF FirstOf
  <2>. QED
    BY <2>2, <2>3
<1>. QED
    BY <1>1, <1>2

\* Removing a task (remove, cleanError) keeps the list ordered by priority.
THEOREM EraseKeepsSorted ==
    ASSUME NEW T, NEW s \in Seq(T), NEW W, NEW p \in [T -> Int], Sorted(s, p)
    PROVE  Sorted(EraseFirst(s, W), p)
<1>1. CASE EraseFirst(s, W) = s
    BY <1>1
<1>2. ASSUME NEW k \in 1 .. Len(s), EraseFirst(s, W) = RemoveAt(s, k)
      PROVE  Sorted(EraseFirst(s, W), p)
  <2>. DEFINE r == RemoveAt(s, k)
  <2>1. /\ Len(r) = Len(s) - 1
        /\ \A i \in 1 .. Len(s) - 1 : r[i] = IF i < k THEN s[i] ELSE s[i + 1]
    BY RemoveAtProperties
  <2>. HIDE DEF r
  <2>2. ASSUME NEW i \in 1 .. Len(r), NEW j \in 1 .. Len(r), i < j
        PROVE  p[r[i]] <= p[r[j]]
    <3>. DEFINE a == IF i < k THEN i ELSE i + 1
                b == IF j < k THEN j ELSE j + 1
    <3>0. Len(s) \in Nat /\ i \in 1 .. Len(s) - 1
      BY <2>1
    <3>1. a \in 1 .. Len(s) /\ r[i] = s[a]
      <4>1. r[i] = IF i < k THEN s[i] ELSE s[i + 1]
        BY <2>1, <3>0
      <4>2. CASE i < k
        BY <3>0, <4>1, <4>2
      <4>3. CASE ~(i < k)
        BY <3>0, <4>1, <4>3
      <4>. QED
        BY <4>2, <4>3
    <3>2. b \in 1 .. Len(s) /\ r[j] = s[b]
      BY <2>1
    <3>3. a < b
      BY <2>1, <2>2
    <3>. HIDE DEF a, b
    <3>. QED
      BY <3>1, <3>2, <3>3 DEF Sorted
  <2>. QED
    BY <1>2, <2>2 DEF Sorted, r
<1>. QED
    BY <1>1, <1>2, EraseFirstProperties
-----------------------------------------------------------------------------
(* What is listed after an operation was listed before it, or was added.   *)

\* add() lists the new task and the old ones.
LEMMA KnownAdd ==
    ASSUME NEW T, NEW s \in Seq(T), NEW t \in T, NEW p \in [T -> Int],
           NEW x, Known(Add(s, p, t), x)
    PROVE  Known(s, x) \/ x = t
<1>. DEFINE k == InsertPos(s, p, t)
            r == Add(s, p, t)
<1>1. Len(s) \in Nat /\ k \in 0 .. Len(s)
    BY InsertPosProperties
<1>2. /\ Len(r) = Len(s) + 1
      /\ \A i \in 1 .. Len(s) + 1 :
            r[i] = IF i <= k THEN s[i] ELSE IF i = k + 1 THEN t ELSE s[i - 1]
    BY AddProperties
<1>. HIDE DEF k, r
<1>3. PICK i \in 1 .. Len(s) + 1 : r[i] = x
    BY <1>2 DEF Known, r
<1>4. CASE i <= k
    BY <1>1, <1>2, <1>3, <1>4 DEF Known
<1>5. CASE i = k + 1
    BY <1>1, <1>2, <1>3, <1>5
<1>6. CASE i > k + 1
  <2>1. i - 1 \in 1 .. Len(s) /\ ~(i <= k) /\ i # k + 1
    BY <1>1, <1>6
  <2>2. s[i - 1] = x
    BY <1>2, <1>3, <2>1
  <2>. QED
    BY <2>1, <2>2 DEF Known
<1>. QED
    BY <1>1, <1>4, <1>5, <1>6

\* Erasing lists nothing new.
LEMMA KnownErase ==
    ASSUME NEW T, NEW s \in Seq(T), NEW W, NEW x, Known(EraseFirst(s, W), x)
    PROVE  Known(s, x)
<1>1. CASE EraseFirst(s, W) = s
    BY <1>1
<1>2. ASSUME NEW k \in 1 .. Len(s), EraseFirst(s, W) = RemoveAt(s, k)
      PROVE  Known(s, x)
  <2>. DEFINE r == RemoveAt(s, k)
  <2>1. /\ Len(r) = Len(s) - 1
        /\ \A i \in 1 .. Len(s) - 1 : r[i] = IF i < k THEN s[i] ELSE s[i + 1]
    BY RemoveAtProperties
  <2>. HIDE DEF r
  <2>2. Len(s) \in Nat
    OBVIOUS
  <2>3. PICK i \in 1 .. Len(s) - 1 : r[i] = x
    BY <1>2, <2>1 DEF Known, r
  <2>4. i \in 1 .. Len(s) /\ i + 1 \in 1 .. Len(s)
    BY <2>2
  <2>5. s[i] = x \/ s[i + 1] = x
    BY <2>1, <2>3
  <2>. QED
    BY <2>4, <2>5 DEF Known
<1>. QED
    BY <1>1, <1>2, EraseFirstProperties

\* Append puts one element behind the others.
LEMMA KnownAppend ==
    ASSUME NEW T, NEW s \in Seq(T), NEW e \in T, NEW x, Known(Append(s, e), x)
    PROVE  Known(s, x) \/ x = e
<1>1. /\ Len(s) \in Nat
      /\ Len(Append(s, e)) = Len(s) + 1
      /\ \A i \in 1 .. Len(s) : Append(s, e)[i] = s[i]
      /\ Append(s, e)[Len(s) + 1] = e
    BY AppendProperties
<1>2. PICK i \in 1 .. Len(s) + 1 : Append(s, e)[i] = x
    BY <1>1 DEF Known
<1>3. i \in 1 .. Len(s) \/ i = Len(s) + 1
    BY <1>1
<1>. QED
    BY <1>1, <1>2, <1>3 DEF Known

\* Tail leaves nothing new, and the head was listed.
LEMMA KnownTail ==
    ASSUME NEW T, NEW s \in Seq(T), s # <<>>
    PROVE  /\ \A x : Known(Tail(s), x) => Known(s, x)
           /\ Known(s, Head(s))
<1>1. /\ Len(s) \in Nat /\ Len(s) # 0
      /\ Len(Tail(s)) = Len(s) - 1
      /\ \A i \in 1 .. Len(Tail(s)) : Tail(s)[i] = s[i + 1]
    BY HeadTailProperties, EmptySeq
<1>2. ASSUME NEW x, Known(Tail(s), x) PROVE Known(s, x)
  <2>1. PICK i \in 1 .. Len(s) - 1 : Tail(s)[i] = x
    BY <1>1, <1>2 DEF Known
  <2>2. i + 1 \in 1 .. Len(s) /\ s[i + 1] = x
    BY <1>1, <2>1
  <2>. QED
    BY <2>2 DEF Known
<1>3. 1 \in 1 .. Len(s) /\ Head(s) = s[1]
    BY <1>1
<1>. QED
    BY <1>2, <1>3 DEF Known
-----------------------------------------------------------------------------
(* What was listed stays listed, and in the same order.                    *)

\* add() drops nothing.
LEMMA AddKeeps ==
    ASSUME NEW T, NEW s \in Seq(T), NEW t \in T, NEW p \in [T -> Int],
           NEW x, Known(s, x) \/ x = t
    PROVE  Known(Add(s, p, t), x)
<1>. DEFINE k == InsertPos(s, p, t)
            r == Add(s, p, t)
<1>1. Len(s) \in Nat /\ k \in 0 .. Len(s)
    BY InsertPosProperties
<1>2. /\ Len(r) = Len(s) + 1
      /\ \A i \in 1 .. Len(s) + 1 :
            r[i] = IF i <= k THEN s[i] ELSE IF i = k + 1 THEN t ELSE s[i - 1]
    BY AddProperties
<1>. HIDE DEF k
<1>. SUFFICES \E i \in 1 .. Len(s) + 1 : r[i] = x
    BY <1>2 DEF Known
<1>. HIDE DEF r
<1>3. CASE x = t
  <2>1. k + 1 \in 1 .. Len(s) + 1 /\ r[k + 1] = t
    BY <1>1, <1>2
  <2>. QED
    BY <1>3, <2>1
<1>4. CASE Known(s, x)
  <2>1. PICK i \in 1 .. Len(s) : s[i] = x
    BY <1>4 DEF Known
  <2>2. CASE i <= k
    <3>1. i \in 1 .. Len(s) + 1
      BY <1>1
    <3>. QED
      BY <1>2, <2>1, <2>2, <3>1
  <2>3. CASE i > k
    <3>1. i + 1 \in 1 .. Len(s) + 1 /\ ~(i + 1 <= k) /\ i + 1 # k + 1 /\ (i + 1) - 1 = i
      BY <1>1, <2>3
    <3>. QED
      BY <1>2, <2>1, <3>1
  <2>. QED
    BY <1>1, <2>2, <2>3
<1>. QED
    BY <1>3, <1>4

\* Erasing a task of W drops no other task.
LEMMA EraseKeeps ==
    ASSUME NEW T, NEW s \in Seq(T), NEW W, NEW x, Known(s, x), x \notin W
    PROVE  Known(EraseFirst(s, W), x)
<1>1. CASE EraseFirst(s, W) = s
    BY <1>1
<1>2. ASSUME NEW k \in 1 .. Len(s), s[k] \in W, EraseFirst(s, W) = RemoveAt(s, k)
      PROVE  Known(EraseFirst(s, W), x)
  <2>. DEFINE r == RemoveAt(s, k)
  <2>1. /\ Len(r) = Len(s) - 1
        /\ \A i \in 1 .. Len(s) - 1 : r[i] = IF i < k THEN s[i] ELSE s[i + 1]
    BY RemoveAtProperties
  <2>. HIDE DEF r
  <2>2. Len(s) \in Nat
    OBVIOUS
  <2>3. PICK i \in 1 .. Len(s) : s[i] = x
    BY DEF Known
  <2>4. i # k
    BY <1>2, <2>3
  <2>5. CASE i < k
    <3>1. i \in 1 .. Len(s) - 1 /\ r[i] = x
      BY <2>1, <2>2, <2>3, <2>5
    <3>. QED
      BY <1>2, <2>1, <3>1 DEF Known, r
  <2>6. CASE i > k
    <3>1. i - 1 \in 1 .. Len(s) - 1 /\ ~(i - 1 < k) /\ (i - 1) + 1 = i
      BY <2>2, <2>6
    <3>2. r[i - 1] = x
      BY <2>1, <2>3, <3>1
    <3>. QED
      BY <1>2, <2>1, <3>1, <3>2 DEF Known, r
  <2>. QED
    BY <2>4, <2>5, <2>6
<1>. QED
    BY <1>1, <1>2, EraseFirstProperties

\* Erasing changes no order; what is still listed after its removal was listed
\* twice.
LEMMA PrecedesErase ==
    ASSUME NEW T, NEW s \in Seq(T), NEW W, NEW a, NEW b,
           Precedes(EraseFirst(s, W), a, b)
    PROVE  Precedes(s, a, b)
<1>1. CASE EraseFirst(s, W) = s
    BY <1>1
<1>2. ASSUME NEW k \in 1 .. Len(s), EraseFirst(s, W) = RemoveAt(s, k)
      PROVE  Precedes(s, a, b)
  <2>. DEFINE r == RemoveAt(s, k)
              at(i) == IF i < k THEN i ELSE i + 1
  <2>1. /\ Len(r) = Len(s) - 1
        /\ \A i \in 1 .. Len(s) - 1 : r[i] = IF i < k THEN s[i] ELSE s[i + 1]
    BY RemoveAtProperties
  <2>. HIDE DEF r
  <2>2. Len(s) \in Nat
    OBVIOUS
  <2>3. PICK i, j \in 1 .. Len(s) - 1 : i < j /\ r[i] = a /\ r[j] = b
    BY <1>2, <2>1 DEF Precedes, r
  <2>4. at(i) \in 1 .. Len(s) /\ at(j) \in 1 .. Len(s) /\ at(i) < at(j)
    BY <2>2, <2>3
  <2>5. s[at(i)] = a /\ s[at(j)] = b
    BY <2>1, <2>3
  <2>. QED
    BY <2>4, <2>5 DEF Precedes
<1>. QED
    BY <1>1, <1>2, EraseFirstProperties

\* A task that remove() leaves in the list was listed twice.
LEMMA StillListed ==
    ASSUME NEW T, NEW s \in Seq(T), NEW t, Known(RemoveTask(s, t), t)
    PROVE  Precedes(s, t, t)
<1>. DEFINE H == {i \in 1 .. Len(s) : s[i] \in {t}}
<1>1. Known(s, t)
    BY KnownErase DEF RemoveTask
<1>2. H # {} /\ H \subseteq 1 .. Len(s) /\ Len(s) \in Nat
    BY <1>1 DEF Known
<1>3. Min(H) \in H /\ \A y \in H : Min(H) <= y
    BY <1>2, MinPos
<1>4. RemoveTask(s, t) = RemoveAt(s, Min(H))
    BY <1>2 DEF RemoveTask, EraseFirst
<1>. DEFINE m == Min(H)
            r == RemoveAt(s, m)
<1>5. m \in 1 .. Len(s) /\ s[m] = t
    BY <1>3
<1>6. /\ Len(r) = Len(s) - 1
      /\ \A i \in 1 .. Len(s) - 1 : r[i] = IF i < m THEN s[i] ELSE s[i + 1]
    BY <1>5, RemoveAtProperties
<1>7. Known(r, t)
    BY <1>4
<1>. HIDE DEF r
<1>8. PICK i \in 1 .. Len(s) - 1 : r[i] = t
    BY <1>6, <1>7 DEF Known
<1>9. ~(i < m)
  <2>1. ASSUME i < m PROVE FALSE
    <3>1. i \in 1 .. Len(s) /\ s[i] = t
      BY <1>2, <1>6, <1>8, <2>1
    <3>2. i \in H
      BY <3>1
    <3>3. m <= i
      BY <1>3, <3>2
    <3>. HIDE DEF m
    <3>. QED
      BY <1>2, <1>5, <2>1, <3>3
  <2>. QED
    BY <2>1
<1>. HIDE DEF m
<1>10. i + 1 \in 1 .. Len(s) /\ m < i + 1 /\ s[i + 1] = t
    BY <1>2, <1>5, <1>6, <1>8, <1>9
<1>. QED
    BY <1>5, <1>10 DEF Precedes

\* add() puts the new task behind every task that is not after it in priority.
LEMMA PrecedesAdd ==
    ASSUME NEW T, NEW s \in Seq(T), NEW t \in T, NEW p \in [T -> Int],
           NEW a, NEW b, Precedes(Add(s, p, t), a, b)
    PROVE  \/ Precedes(s, a, b)
           \/ Known(s, a) /\ b = t
           \/ a = t /\ Known(s, b) /\ p[t] < p[b]
<1>. DEFINE k == InsertPos(s, p, t)
            r == Add(s, p, t)
            at(i) == IF i <= k THEN i ELSE i - 1
<1>1. /\ Len(s) \in Nat /\ k \in 0 .. Len(s)
      /\ \A i \in 1 .. Len(s) : i > k => p[t] < p[s[i]]
    BY InsertPosProperties
<1>2. /\ Len(r) = Len(s) + 1
      /\ \A i \in 1 .. Len(s) + 1 :
            r[i] = IF i <= k THEN s[i] ELSE IF i = k + 1 THEN t ELSE s[i - 1]
    BY AddProperties
<1>. HIDE DEF k
<1>3. PICK i, j \in 1 .. Len(s) + 1 : i < j /\ r[i] = a /\ r[j] = b
    BY <1>2 DEF Precedes
<1>. HIDE DEF r
<1>4. ASSUME NEW n \in 1 .. Len(s) + 1, n # k + 1
      PROVE  at(n) \in 1 .. Len(s) /\ s[at(n)] = r[n] /\ (n > k + 1 => at(n) > k)
    BY <1>1, <1>2, <1>4
<1>5. CASE i = k + 1
  <2>1. j # k + 1 /\ j > k + 1
    BY <1>1, <1>3, <1>5
  <2>2. at(j) \in 1 .. Len(s) /\ s[at(j)] = b /\ at(j) > k
    BY <1>3, <1>4, <2>1
  <2>3. a = t
    BY <1>1, <1>2, <1>3, <1>5
  <2>. HIDE DEF at
  <2>4. p[t] < p[b]
    BY <1>1, <2>2
  <2>. QED
    BY <2>2, <2>3, <2>4 DEF Known
<1>6. CASE j = k + 1
  <2>1. i # k + 1
    BY <1>1, <1>3, <1>6
  <2>2. at(i) \in 1 .. Len(s) /\ s[at(i)] = a
    BY <1>3, <1>4, <2>1
  <2>3. b = t
    BY <1>1, <1>2, <1>3, <1>6
  <2>. HIDE DEF at
  <2>. QED
    BY <2>2, <2>3 DEF Known
<1>7. CASE i # k + 1 /\ j # k + 1
  <2>1. /\ at(i) \in 1 .. Len(s) /\ s[at(i)] = a
        /\ at(j) \in 1 .. Len(s) /\ s[at(j)] = b
    BY <1>3, <1>4, <1>7
  <2>2. at(i) < at(j)
    BY <1>1, <1>3, <1>7
  <2>. HIDE DEF at
  <2>. QED
    BY <2>1, <2>2 DEF Precedes
<1>. QED
    BY <1>5, <1>6, <1>7

\* getFirst with a list of tasks of one kind returns the front task, which has
\* not failed.
LEMMA GetFirstIsFront ==
    ASSUME NEW T, NEW s \in Seq(T), NEW ok, GetFirst(s, ok, T) # NoTask
    PROVE  LET t == GetFirst(s, ok, T) IN
           /\ Known(s, t) /\ t \in ok
           /\ \A u : Known(s, u) => u = t \/ Precedes(s, t, u)
<1>. DEFINE H == {i \in 1 .. Len(s) : s[i] \in T}
            t == GetFirst(s, ok, T)
<1>1. s # <<>> /\ s[1] \in ok /\ t = FirstOf(s, T)
    BY DEF GetFirst
<1>2. Len(s) \in Nat /\ 1 \in 1 .. Len(s)
    BY <1>1, EmptySeq
<1>3. 1 \in H /\ H \subseteq 1 .. Len(s) /\ H # {}
    BY <1>2
<1>4. Min(H) \in H /\ Min(H) <= 1
    BY <1>2, <1>3, MinPos
<1>5. Min(H) = 1
    BY <1>2, <1>3, <1>4
<1>6. t = s[1]
    BY <1>1, <1>3, <1>5 DEF FirstOf
<1>. HIDE DEF t, H
<1>7. \A u : Known(s, u) => u = t \/ Precedes(s, t, u)
  <2>. SUFFICES ASSUME NEW u, NEW i \in 1 .. Len(s), s[i] = u, u # t
                PROVE  Precedes(s, t, u)
    BY DEF Known
  <2>1. 1 < i
    BY <1>2, <1>6
  <2>. QED
    BY <1>2, <1>6, <2>1 DEF Precedes
<1>8. Known(s, t) /\ t \in ok
    BY <1>1, <1>2, <1>6 DEF Known
<1>. QED
    BY <1>7, <1>8 DEF t
=============================================================================
