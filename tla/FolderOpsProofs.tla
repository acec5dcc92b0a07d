-------------------------- MODULE FolderOpsProofs ---------------------------
(***************************************************************************)
(* What holds of folder operations for every tree, however many operations *)
(* the user starts and connections break.                                  *)
(***************************************************************************)
EXTENDS FolderOps, FmTaskListProofs, FiniteSetTheorems

-----------------------------------------------------------------------------
(* Folders above an entry                                                  *)

\* The folders above an entry form the least chain to the root.
LEMMA AboveIsChain ==
    ASSUME NEW n \in Nodes
    PROVE  /\ Above[n] \subseteq Folders
           /\ Above[n] \in Chains(n)
           /\ \A S \in Chains(n) : Above[n] \subseteq S
<1>1. /\ Above[n] \subseteq Folders
      /\ \A S \in Chains(n) : Above[n] \subseteq S
    BY DEF Above
<1>2. ASSUME NEW m \in Above[n] \cup {n}, Up[m] # Root
      PROVE  Up[m] \in Above[n]
  <2>1. Up[m] \in Folders
    BY <1>1, <1>2, TreeAssumption DEF Nodes
  <2>2. ASSUME NEW S \in Chains(n) PROVE Up[m] \in S
    BY <1>1, <1>2 DEF Chains
  <2>. QED
    BY <2>1, <2>2 DEF Above
<1>. QED
    BY <1>1, <1>2 DEF Chains

\* Below every folder above an entry there is an entry on the way down to it.
LEMMA AboveStep ==
    ASSUME NEW n \in Nodes, NEW d \in Above[n]
    PROVE  \E c \in Above[n] \cup {n} : Up[c] = d
<1>. DEFINE S == {a \in Above[n] : \E c \in Above[n] \cup {n} : Up[c] = a}
<1>1. S \in Chains(n)
    BY AboveIsChain DEF Chains
<1>. QED
    BY <1>1, AboveIsChain

\* Trees come with the folders above their entries.
LEMMA AboveInStart ==
    ASSUME NEW s \in Sides, NEW n \in Start[s]
    PROVE  Above[n] \subseteq Start[s]
<1>. DEFINE S == Start[s] \cap Folders
<1>1. n \in Nodes /\ Start[s] \subseteq Nodes
    BY TreeAssumption
<1>2. ASSUME NEW m \in S \cup {n} PROVE Up[m] \in S \cup {Root}
    BY <1>1, TreeAssumption
<1>3. S \in Chains(n)
    BY <1>2 DEF Chains
<1>. QED
    BY <1>1, <1>3, AboveIsChain

-----------------------------------------------------------------------------
(* Tasks and the list                                                      *)

LEMMA PrioType ==
    ASSUME NEW t \in Tasks
    PROVE  Prio(t) \in Int
<1>1. CASE t.kind = "Del" /\ t.node \in Folders
  <2>1. t.node \in Nodes
    BY <1>1 DEF Nodes
  <2>2. Above[t.node] \subseteq Nodes
    BY <2>1, AboveIsChain DEF Nodes
  <2>3. Cardinality(Above[t.node]) \in Nat
    BY <2>2, TreeAssumption, FS_Subset, FS_CardinalityType
  <2>. QED
    BY <1>1, <2>3 DEF Prio, Depth
<1>2. CASE t.kind = "Del" /\ t.node \notin Folders
    BY <1>2 DEF Prio
<1>3. CASE t.kind = "List"
    BY <1>3 DEF Prio
<1>4. CASE t.kind = "New"
    BY <1>4 DEF Prio
<1>5. CASE t.kind = "File"
    BY <1>5 DEF Prio
<1>6. t.kind \in {"List", "Del", "New", "File"}
    BY DEF Tasks, PanelTasks, TaskSet
<1>. QED
    BY <1>1, <1>2, <1>3, <1>4, <1>5, <1>6

\* FmScheduler::add keeps what is listed and adds its task.
LEMMA PutProperties ==
    ASSUME NEW X, X \subseteq Tasks, NEW s \in Seq(X), NEW t \in X
    PROVE  /\ Put(s, t) \in Seq(X)
           /\ Put(s, t) # <<>>
           /\ \A x : Known(Put(s, t), x) <=> Known(s, x) \/ x = t
<1>. DEFINE T == ToSet(s) \cup {t}
            p == [x \in T |-> Prio(x)]
<1>1. s \in Seq(T) /\ T \subseteq X /\ t \in T
  <2>1. \A i \in 1 .. Len(s) : s[i] \in ToSet(s)
    BY DEF ToSet
  <2>2. s \in [1 .. Len(s) -> T]
    BY <2>1
  <2>3. s \in Seq(T)
    BY <2>2, IsASeq
  <2>4. ToSet(s) \subseteq X
    BY DEF ToSet
  <2>. QED
    BY <2>3, <2>4
<1>2. p \in [T -> Int]
    BY <1>1, PrioType
<1>. HIDE DEF T, p
<1>3. /\ Add(s, p, t) \in Seq(T)
      /\ Len(Add(s, p, t)) = Len(s) + 1
    BY <1>1, <1>2, AddProperties
<1>4. \A x : Known(Add(s, p, t), x) <=> Known(s, x) \/ x = t
    BY <1>1, <1>2, KnownAdd, AddKeeps
<1>5. Put(s, t) = Add(s, p, t)
    BY DEF Put, p, T
<1>. QED
    BY <1>1, <1>3, <1>4, <1>5

\* cleanError and remove take at most one task off the list.
LEMMA EraseProperties ==
    ASSUME NEW X, NEW s \in Seq(X), NEW W
    PROVE  /\ EraseFirst(s, W) \in Seq(X)
           /\ \A x : Known(EraseFirst(s, W), x) => Known(s, x)
           /\ \A x : Known(s, x) /\ x \notin W => Known(EraseFirst(s, W), x)
<1>1. EraseFirst(s, W) \in Seq(X)
    BY EraseFirstType
<1>2. \A x : Known(EraseFirst(s, W), x) => Known(s, x)
    BY KnownErase
<1>3. \A x : Known(s, x) /\ x \notin W => Known(EraseFirst(s, W), x)
    BY EraseKeeps
<1>. QED
    BY <1>1, <1>2, <1>3

\* A task that fails keeps its place.
LEMMA MarkProperties ==
    ASSUME NEW X, tasks \in Seq(X), NEW t \in X, [t EXCEPT !.ok = FALSE] \in X,
           Known(tasks, t)
    PROVE  \E k \in 1 .. Len(tasks) :
              /\ tasks[k] = t /\ \A j \in 1 .. k - 1 : tasks[j] # t
              /\ MarkFailed(t) \in Seq(X) /\ Len(MarkFailed(t)) = Len(tasks)
              /\ MarkFailed(t)[k] = [t EXCEPT !.ok = FALSE]
              /\ \A j \in 1 .. Len(tasks) : j # k => MarkFailed(t)[j] = tasks[j]
<1>. DEFINE S == {j \in 1 .. Len(tasks) : tasks[j] = t}
            k == Min(S)
<1>1. S \subseteq 1 .. Len(tasks) /\ S # {} /\ Len(tasks) \in Nat
    BY DEF Known
<1>2. k \in S /\ \A y \in S : k <= y
    BY <1>1, MinPos
<1>. HIDE DEF k
<1>3. k \in 1 .. Len(tasks) /\ tasks[k] = t
    BY <1>2
<1>31. ASSUME NEW j \in 1 .. k - 1, tasks[j] = t PROVE FALSE
  <2>1. j \in S
    BY <1>1, <1>3, <1>31
  <2>. QED
    BY <1>2, <1>3, <2>1
<1>4. MarkFailed(t) = [i \in 1 .. Len(tasks) |-> IF i = k THEN [t EXCEPT !.ok = FALSE]
                                                 ELSE tasks[i]]
    BY DEF MarkFailed, k
<1>5. MarkFailed(t) \in Seq(X) /\ Len(MarkFailed(t)) = Len(tasks)
    BY <1>1, <1>4, IsASeq
<1>. QED
    BY <1>3, <1>31, <1>4, <1>5

\* getFirst returns the first of the engine's tasks.
LEMMA FirstProperties ==
    ASSUME NEW X, tasks \in Seq(X), NEW remote \in BOOLEAN, Waiting(remote) # {}
    PROVE  LET k == Min(Waiting(remote)) IN
           /\ k \in 1 .. Len(tasks) /\ tasks[k] \in X /\ Known(tasks, tasks[k])
           /\ ForPeer(tasks[k]) = remote
           /\ \A j \in 1 .. k - 1 : ForPeer(tasks[j]) # remote
           /\ tasks # <<>> /\ tasks[1].ok
<1>. DEFINE S == {i \in 1 .. Len(tasks) : ForPeer(tasks[i]) = remote}
            k == Min(S)
<1>1. Waiting(remote) = S /\ tasks # <<>> /\ tasks[1].ok
    BY DEF Waiting
<1>2. S \subseteq 1 .. Len(tasks) /\ Len(tasks) \in Nat /\ S # {}
    BY <1>1
<1>3. k \in S /\ \A y \in S : k <= y
    BY <1>2, MinPos
<1>4. k \in 1 .. Len(tasks) /\ ForPeer(tasks[k]) = remote
    BY <1>3
<1>5. ASSUME NEW j \in 1 .. k - 1 PROVE ForPeer(tasks[j]) # remote
    BY <1>2, <1>3, <1>4
<1>6. Min(Waiting(remote)) = k
    BY <1>1
<1>. HIDE DEF k, S
<1>7. tasks[k] \in X /\ Known(tasks, tasks[k])
    BY <1>4 DEF Known
<1>. QED
    BY <1>1, <1>4, <1>5, <1>6, <1>7

-----------------------------------------------------------------------------
(* What dispatchSubList, delFile and transfer add                          *)

\* One add takes the next task, the others remain.
LEMMA AddsProperties ==
    ASSUME NEW X, NEW adds \in Seq(Batches(X)), adds # <<>>
    PROVE  /\ NextAdd(adds) \in Fresh(X)
           /\ LaterAdds(adds) \in Seq(Batches(X))
           /\ \A t : InAdds(adds, t) <=> t = NextAdd(adds) \/ InAdds(LaterAdds(adds), t)
<1>. DEFINE h == Head(adds)
            r == Tail(adds)
            q == Tail(h)
            l == LaterAdds(adds)
<1>1. /\ Len(adds) \in Nat /\ Len(adds) > 0 /\ h = adds[1]
      /\ r \in Seq(Batches(X)) /\ Len(r) = Len(adds) - 1
      /\ \A i \in 1 .. Len(r) : r[i] = adds[i + 1]
    BY HeadTailProperties, EmptySeq
<1>2. h \in Seq(Fresh(X)) /\ h # <<>>
    BY <1>1 DEF Batches
<1>3. /\ Len(h) \in Nat /\ Len(h) > 0 /\ Head(h) = h[1]
      /\ q \in Seq(Fresh(X)) /\ Len(q) = Len(h) - 1
      /\ \A i \in 1 .. Len(q) : q[i] = h[i + 1]
    BY <1>2, HeadTailProperties, EmptySeq
<1>4. NextAdd(adds) = h[1] /\ h[1] \in Fresh(X)
    BY <1>2, <1>3 DEF NextAdd
<1>. HIDE DEF h, r, q
<1>5. CASE Len(h) = 1
  <2>1. l = r
    BY <1>5 DEF LaterAdds, h, r
  <2>2. ASSUME NEW t, InAdds(adds, t) PROVE t = h[1] \/ InAdds(r, t)
    <3>1. PICK i \in 1 .. Len(adds) : \E j \in 1 .. Len(adds[i]) : adds[i][j] = t
      BY <2>2 DEF InAdds
    <3>2. CASE i = 1
      BY <1>1, <1>5, <3>1, <3>2
    <3>3. CASE i # 1
      <4>1. i - 1 \in 1 .. Len(r) /\ r[i - 1] = adds[i]
        BY <1>1, <3>3
      <4>. QED
        BY <3>1, <4>1 DEF InAdds
    <3>. QED
      BY <3>2, <3>3
  <2>3. ASSUME NEW t, InAdds(r, t) PROVE InAdds(adds, t)
    <3>1. PICK i \in 1 .. Len(r) : \E j \in 1 .. Len(r[i]) : r[i][j] = t
      BY <2>3 DEF InAdds
    <3>2. i + 1 \in 1 .. Len(adds) /\ r[i] = adds[i + 1]
      BY <1>1
    <3>. QED
      BY <3>1, <3>2 DEF InAdds
  <2>4. InAdds(adds, h[1])
    BY <1>1, <1>3 DEF InAdds
  <2>. HIDE DEF l
  <2>. QED
    BY <1>1, <1>4, <2>1, <2>2, <2>3, <2>4 DEF l
<1>6. CASE Len(h) # 1
  <2>. DEFINE b == <<q>>
  <2>1. q \in Batches(X)
    BY <1>3, <1>6, EmptySeq DEF Batches
  <2>2. l = b \o r
    BY <1>6 DEF LaterAdds, h, r, q
  <2>3. b \in Seq(Batches(X)) /\ Len(b) = 1 /\ b[1] = q
    BY <2>1
  <2>. HIDE DEF b
  <2>4. /\ b \o r \in Seq(Batches(X)) /\ Len(b \o r) = Len(adds)
        /\ \A i \in 1 .. Len(adds) : (b \o r)[i] = IF i = 1 THEN q ELSE adds[i]
    <3>0. b \in Seq(Batches(X)) /\ r \in Seq(Batches(X))
      BY <1>1, <2>3
    <3>1. /\ b \o r \in Seq(Batches(X)) /\ Len(b \o r) = Len(b) + Len(r)
          /\ \A i \in 1 .. Len(b) + Len(r) :
                (b \o r)[i] = IF i <= Len(b) THEN b[i] ELSE r[i - Len(b)]
      BY <3>0, ConcatProperties
    <3>2. Len(b) + Len(r) = Len(adds)
      BY <1>1, <2>3
    <3>3. ASSUME NEW i \in 1 .. Len(adds)
          PROVE  (b \o r)[i] = IF i = 1 THEN q ELSE adds[i]
      <4>1. CASE i = 1
        BY <1>1, <2>3, <3>1, <3>2, <4>1
      <4>2. CASE i # 1
        <5>1. i - 1 \in 1 .. Len(r) /\ ~(i <= Len(b))
          BY <1>1, <2>3, <4>2
        <5>2. (b \o r)[i] = r[i - 1]
          BY <2>3, <3>1, <3>2, <5>1
        <5>. QED
          BY <1>1, <4>2, <5>1, <5>2
      <4>. QED
        BY <4>1, <4>2
    <3>. QED
      BY <3>1, <3>2, <3>3
  <2>. HIDE DEF l
  <2>5. ASSUME NEW t, InAdds(adds, t) PROVE t = h[1] \/ InAdds(b \o r, t)
    <3>0. PICK i \in 1 .. Len(adds) : \E j \in 1 .. Len(adds[i]) : adds[i][j] = t
      BY <2>5 DEF InAdds
    <3>1. PICK j \in 1 .. Len(adds[i]) : adds[i][j] = t
      BY <3>0
    <3>2. CASE i = 1 /\ j = 1
      BY <1>1, <3>1, <3>2
    <3>3. CASE i = 1 /\ j # 1
      <4>1. j - 1 \in 1 .. Len(q) /\ q[j - 1] = t
        BY <1>1, <1>3, <3>1, <3>3
      <4>. QED
        BY <1>1, <2>4, <4>1 DEF InAdds
    <3>4. CASE i # 1
      BY <2>4, <3>1, <3>4 DEF InAdds
    <3>. QED
      BY <3>2, <3>3, <3>4
  <2>6. ASSUME NEW t, InAdds(b \o r, t) PROVE InAdds(adds, t)
    <3>0. PICK i \in 1 .. Len(adds) :
             \E j \in 1 .. Len((b \o r)[i]) : (b \o r)[i][j] = t
      BY <2>4, <2>6 DEF InAdds
    <3>1. PICK j \in 1 .. Len((b \o r)[i]) : (b \o r)[i][j] = t
      BY <3>0
    <3>2. CASE i = 1
      <4>1. j \in 1 .. Len(q) /\ q[j] = t
        BY <2>4, <3>1, <3>2
      <4>2. j + 1 \in 1 .. Len(h) /\ h[j + 1] = t
        BY <1>3, <4>1
      <4>. QED
        BY <1>1, <4>2 DEF InAdds
    <3>3. CASE i # 1
      BY <2>4, <3>1, <3>3 DEF InAdds
    <3>. QED
      BY <3>2, <3>3
  <2>7. InAdds(adds, h[1])
    BY <1>1, <1>3 DEF InAdds
  <2>. QED
    BY <1>4, <2>2, <2>4, <2>5, <2>6, <2>7 DEF l
<1>. QED
    BY <1>5, <1>6

\* An order of a set reaches each of its elements.
LEMMA OrderProperties ==
    ASSUME NEW S, IsFiniteSet(S), NEW order \in SetToSeqs(S)
    PROVE  /\ order \in Seq(S)
           /\ \A x \in S : \E i \in 1 .. Len(order) : order[i] = x
<1>. DEFINE n == Cardinality(S)
<1>1. n \in Nat
    BY FS_CardinalityType
<1>2. /\ order \in [1 .. n -> S]
      /\ \A i, j \in 1 .. n : i # j => order[i] # order[j]
    BY DEF SetToSeqs
<1>3. order \in Seq(S) /\ Len(order) = n
    BY <1>1, <1>2, IsASeq
<1>4. ASSUME NEW x \in S, \A i \in 1 .. n : order[i] # x PROVE FALSE
  <2>1. order \in [1 .. n -> S \ {x}]
    BY <1>2, <1>4
  <2>2. IsFiniteSet(S \ {x}) /\ Cardinality(S \ {x}) = n - 1
    BY FS_RemoveElement
  <2>3. IsFiniteSet(1 .. n) /\ Cardinality(1 .. n) = n
    BY <1>1, FS_Interval
  <2>. HIDE DEF n
  <2>4. Cardinality(S \ {x}) < Cardinality(1 .. n)
    BY <1>1, <2>2, <2>3
  <2>5. \E i, j \in 1 .. n : i # j /\ order[i] = order[j]
    BY <2>1, <2>2, <2>3, <2>4, FS_PigeonHole
  <2>. QED
    BY <1>2, <2>5
<1>. QED
    BY <1>3, <1>4

\* A set of tasks that holds, with a task, the failed task and all it leads to.
Closed(X) ==
    /\ X \subseteq Tasks
    /\ \A s \in Sides : ListTask(s, Root, "InformUi", FALSE) \in X
    /\ \A t \in X : [t EXCEPT !.ok = FALSE] \in X
    /\ \A t \in X : t.after \in {"Del", "DownUp"} =>
          /\ FolderTasks(t) \in Batches(X)
          /\ \A n \in Nodes : EntryTasks(t, n) \in Batches(X)
    /\ \A s \in From, op \in Operations, n \in Nodes : RowTask(s, op, n) \in Fresh(X)

\* dispatchSubList adds the tasks for every entry and for the folder.
LEMMA DispatchProperties ==
    ASSUME NEW X, Closed(X), NEW t \in X, t.after \in {"Del", "DownUp"},
           NEW S \in SUBSET Nodes, NEW order \in SetToSeqs(S)
    PROVE  /\ Dispatch(t, order) \in Seq(Batches(X))
           /\ Dispatch(t, order) # <<>>
           /\ \A n \in S : \A j \in 1 .. Len(EntryTasks(t, n)) :
                 InAdds(Dispatch(t, order), EntryTasks(t, n)[j])
           /\ \A j \in 1 .. Len(FolderTasks(t)) :
                 InAdds(Dispatch(t, order), FolderTasks(t)[j])
           /\ \A u : InAdds(Dispatch(t, order), u) =>
                 \/ \E n \in S : \E j \in 1 .. Len(EntryTasks(t, n)) : u = EntryTasks(t, n)[j]
                 \/ \E j \in 1 .. Len(FolderTasks(t)) : u = FolderTasks(t)[j]
<1>. DEFINE e == Entries(t, order)
            d == Dispatch(t, order)
            l == Len(order)
<1>1. IsFiniteSet(S)
    BY TreeAssumption, FS_Subset
<1>2. order \in Seq(S) /\ \A x \in S : \E i \in 1 .. l : order[i] = x
    BY <1>1, OrderProperties
<1>3. l \in Nat /\ \A i \in 1 .. l : order[i] \in S
    BY <1>2
<1>4. /\ FolderTasks(t) \in Batches(X)
      /\ \A n \in Nodes : EntryTasks(t, n) \in Batches(X)
    BY DEF Closed
<1>5. /\ e \in Seq(Batches(X)) /\ Len(e) = l
      /\ \A i \in 1 .. l : e[i] = EntryTasks(t, order[i])
  <2>1. e = [i \in 1 .. l |-> EntryTasks(t, order[i])]
    BY DEF Entries
  <2>2. \A i \in 1 .. l : EntryTasks(t, order[i]) \in Batches(X)
    BY <1>3, <1>4
  <2>. HIDE DEF e, l
  <2>3. e \in [1 .. l -> Batches(X)]
    BY <2>1, <2>2
  <2>. QED
    BY <1>3, <2>1, <2>3, IsASeq
<1>6. d = Append(e, FolderTasks(t))
    BY DEF Dispatch
<1>. HIDE DEF e, d, l
<1>7. /\ d \in Seq(Batches(X)) /\ Len(d) = l + 1
      /\ \A i \in 1 .. l : d[i] = EntryTasks(t, order[i])
      /\ d[l + 1] = FolderTasks(t)
    BY <1>4, <1>5, <1>6, AppendProperties
<1>8. d # <<>>
    BY <1>3, <1>7, EmptySeq
<1>9. ASSUME NEW n \in S, NEW j \in 1 .. Len(EntryTasks(t, n))
      PROVE  InAdds(d, EntryTasks(t, n)[j])
  <2>1. PICK i \in 1 .. l : order[i] = n
    BY <1>2
  <2>2. i \in 1 .. Len(d) /\ d[i] = EntryTasks(t, n)
    BY <1>3, <1>7, <2>1
  <2>. QED
    BY <2>2 DEF InAdds
<1>10. ASSUME NEW j \in 1 .. Len(FolderTasks(t))
       PROVE  InAdds(d, FolderTasks(t)[j])
  <2>1. l + 1 \in 1 .. Len(d)
    BY <1>3, <1>7
  <2>. QED
    BY <1>7, <2>1 DEF InAdds
<1>11. ASSUME NEW u, InAdds(d, u)
       PROVE  \/ \E n \in S : \E j \in 1 .. Len(EntryTasks(t, n)) : u = EntryTasks(t, n)[j]
              \/ \E j \in 1 .. Len(FolderTasks(t)) : u = FolderTasks(t)[j]
  <2>1. PICK i \in 1 .. Len(d) : \E j \in 1 .. Len(d[i]) : d[i][j] = u
    BY <1>11 DEF InAdds
  <2>2. CASE i = l + 1
    BY <1>7, <2>1, <2>2
  <2>3. CASE i # l + 1
    <3>1. i \in 1 .. l
      BY <1>3, <1>7, <2>3
    <3>2. d[i] = EntryTasks(t, order[i]) /\ order[i] \in S
      BY <1>3, <1>7, <3>1
    <3>. QED
      BY <2>1, <3>2
  <2>. QED
    BY <2>2, <2>3
<1>. QED
    BY <1>7, <1>8, <1>9, <1>10, <1>11 DEF d

\* The listings of panels are among the tasks.
LEMMA PanelsIn ==
    ASSUME NEW X, Closed(X)
    PROVE  PanelTasks \subseteq X
<1>1. ASSUME NEW t \in PanelTasks PROVE t \in X
  <2>1. t.side \in Sides /\ t.ok \in BOOLEAN
    BY DEF PanelTasks, TaskSet
  <2>. DEFINE u == ListTask(t.side, Root, "InformUi", FALSE)
  <2>2. u \in X /\ [u EXCEPT !.ok = FALSE] \in X
    BY <2>1 DEF Closed
  <2>3. u \in PanelTasks /\ u.side = t.side /\ u.ok = TRUE
    BY <2>1 DEF ListTask, Task, PanelTasks, TaskSet
  <2>. HIDE DEF u
  <2>4. /\ [u EXCEPT !.ok = FALSE] \in PanelTasks
         /\ [u EXCEPT !.ok = FALSE].side = t.side
         /\ [u EXCEPT !.ok = FALSE].ok = FALSE
    BY <2>3 DEF PanelTasks, TaskSet
  <2>5. ASSUME NEW v \in PanelTasks
        PROVE  v = [kind |-> "List", side |-> v.side, node |-> Root,
                    after |-> "InformUi", move |-> FALSE, ok |-> v.ok]
    BY DEF PanelTasks, TaskSet
  <2>6. u = t \/ [u EXCEPT !.ok = FALSE] = t
    BY <2>1, <2>3, <2>4, <2>5
  <2>. QED
    BY <2>2, <2>6
<1>. QED
    BY <1>1

\* Whatever engine or user is at work, the tasks stay within a closed set.
LEMMA HoldsNext ==
    ASSUME NEW X, Closed(X), TypeOK, Holds(X), [Next]_vars
    PROVE  Holds(X)'
<1>1. tasks \in Seq(X) /\ PanelTasks \subseteq X /\ X \subseteq Tasks
    BY PanelsIn DEF Holds, Closed
<1>2. Cleaned \in Seq(X)
    BY <1>1, EraseProperties DEF Cleaned, CleanError
<1>3. \A t \in X : \A s \in Seq(X) : Put(s, t) \in Seq(X)
    BY <1>1, PutProperties
<1>4. \A t : RemoveTask(tasks, t) \in Seq(X)
    BY <1>1, EraseProperties DEF RemoveTask
<1>5. \A t \in X : Known(tasks, t) => MarkFailed(t) \in Seq(X)
  <2>1. ASSUME NEW t \in X, Known(tasks, t) PROVE MarkFailed(t) \in Seq(X)
    <3>1. [t EXCEPT !.ok = FALSE] \in X
      BY DEF Closed
    <3>. QED
      BY <1>1, <2>1, <3>1, MarkProperties
  <2>. QED
    BY <2>1
<1>6. LocalWaits => FirstLocal \in X /\ Known(tasks, FirstLocal)
    BY <1>1, FirstProperties DEF LocalWaits, FirstLocal
<1>7. RemoteWaits => FirstRemote \in X
    BY <1>1, FirstProperties DEF RemoteWaits, FirstRemote
<1>8. Idle \in Works(X)
    BY DEF Idle, Works
<1>9. /\ lwork \in Works(X) /\ uwork \in Works(X)
      /\ radds \in Seq(Batches(X))
      /\ net = <<>> \/ \E m \in Packets(X) : net = <<m>>
    BY DEF Holds
<1>10. ASSUME NEW ts \in Seq(X), NEW slot, NEW n,
              slot = <<>> \/ \E t \in Fresh(PanelTasks) : slot = <<t>>,
              OnRefresh(ts, slot, n)
       PROVE  tasks' \in Seq(X)
  <2>1. CASE slot = <<>>
    BY <1>10, <2>1 DEF OnRefresh
  <2>2. CASE \E t \in Fresh(PanelTasks) : slot = <<t>>
    <3>1. slot \in Seq(X)
      BY <1>1, <2>2 DEF Fresh
    <3>. QED
      BY <1>10, <3>1 DEF OnRefresh
  <2>. QED
    BY <1>10, <2>1, <2>2
<1>11. refresh = <<>> \/ \E t \in Fresh(PanelTasks) : refresh = <<t>>
    BY DEF TypeOK
<1>12. net # <<>> => net[1] \in Packets(X) /\ net[1].task \in X
    BY <1>9 DEF Packets
<1>13. ASSUME NEW s \in Sides PROVE UiBrowse(s) => Holds(X)'
  <2>1. ListTask(s, Root, "InformUi", FALSE) \in X
    BY DEF Closed
  <2>2. SUFFICES ASSUME UiBrowse(s) PROVE Holds(X)'
    OBVIOUS
  <2>3. tasks' \in Seq(X)
    BY <1>2, <1>3, <1>10, <1>11, <2>1, <2>2 DEF UiBrowse
  <2>. QED
    BY <1>9, <2>2, <2>3 DEF UiBrowse, Holds
<1>14. ASSUME NEW s \in From, NEW op \in Operations, NEW sel \in SUBSET shown[s],
              NEW order \in SetToSeqs(sel), UiOperate(s, op, order)
       PROVE  Holds(X)'
  <2>1. s \in Sides /\ sel \in SUBSET Nodes
    BY TreeAssumption DEF TypeOK
  <2>2. order \in Seq(Nodes) /\ Len(order) \in Nat
    <3>1. IsFiniteSet(sel)
      BY <2>1, TreeAssumption, FS_Subset
    <3>2. order \in Seq(sel)
      BY <3>1, OrderProperties
    <3>. QED
      BY <2>1, <3>2
  <2>3. [i \in 1 .. Len(order) |-> <<RowTask(s, op, order[i])>>] \in Seq(Batches(X))
    <3>1. ASSUME NEW i \in 1 .. Len(order)
          PROVE  <<RowTask(s, op, order[i])>> \in Batches(X)
      <4>1. RowTask(s, op, order[i]) \in Fresh(X)
        BY <2>2 DEF Closed
      <4>. HIDE DEF RowTask
      <4>. QED
        BY <4>1 DEF Batches
    <3>. QED
      BY <2>2, <3>1, IsASeq
  <2>4. uwork' \in Works(X)
    <3>1. ListTask(Other(s), Root, "InformUi", FALSE) \in X
      BY <2>1 DEF Closed, Other, Sides
    <3>2. ListTask(s, Root, "InformUi", FALSE) \in X
      BY <2>1 DEF Closed
    <3>. QED
      BY <1>14, <2>3, <3>1, <3>2 DEF UiOperate, Works
  <2>. QED
    BY <1>2, <1>9, <1>14, <2>4 DEF UiOperate, Holds, localVars, remoteVars
<1>15. CASE UiAdd
  <2>1. uwork.pc = "adding" /\ uwork.adds \in Seq(Batches(X)) /\ uwork.adds # <<>>
    BY <1>9, <1>15 DEF UiAdd, Works
  <2>2. NextAdd(uwork.adds) \in X /\ LaterAdds(uwork.adds) \in Seq(Batches(X))
    BY <2>1, AddsProperties DEF Fresh
  <2>3. tasks' \in Seq(X)
    BY <1>1, <1>3, <1>15, <2>2 DEF UiAdd
  <2>4. uwork' \in Works(X)
    BY <1>9, <1>15, <2>1, <2>2 DEF UiAdd, Works
  <2>. QED
    BY <1>9, <1>15, <2>3, <2>4 DEF UiAdd, Holds, localVars, remoteVars
<1>16. CASE UiOperateEnd
  <2>1. \E t \in Fresh(PanelTasks) : uwork.task = <<t>>
    <3>1. \E t \in X : uwork.task = <<t>>
      BY <1>9, <1>16 DEF UiOperateEnd, Works
    <3>2. uwork.task \in Seq(Fresh(PanelTasks))
      BY DEF TypeOK
    <3>3. uwork.task[1] \in Fresh(PanelTasks) /\ uwork.task = <<uwork.task[1]>>
      BY <3>1, <3>2
    <3>. QED
      BY <3>3
  <2>2. tasks' \in Seq(X)
    BY <1>1, <1>10, <1>16, <2>1 DEF UiOperateEnd
  <2>. QED
    BY <1>8, <1>9, <1>16, <2>2 DEF UiOperateEnd, Holds
<1>17. CASE UiCancel
    BY <1>2, <1>9, <1>17 DEF UiCancel, Holds, localVars, remoteVars
<1>18. CASE UiNotify
  <2>1. tasks' \in Seq(X)
    BY <1>1, <1>10, <1>11, <1>18 DEF UiNotify
  <2>. QED
    BY <1>9, <1>18, <2>1 DEF UiNotify, Holds
<1>19. CASE LocalIdle \/ LocalDel \/ LocalNew \/ LocalListFails \/ LocalInform
  <2>1. tasks' \in Seq(X)
    BY <1>1, <1>4, <1>5, <1>6, <1>19
       DEF LocalIdle, LocalDel, LocalNew, LocalListFails, LocalInform, LocalTask
  <2>. QED
    BY <1>9, <1>19, <2>1
       DEF LocalIdle, LocalDel, LocalNew, LocalListFails, LocalInform, Holds, localVars,
           remoteVars, uiVars
<1>20. CASE LocalList
  <2>1. PICK order \in SetToSeqs(Children(FirstLocal.node, fs["local"])) :
           lwork' = [pc |-> "adding", task |-> <<FirstLocal>>,
                     adds |-> Dispatch(FirstLocal, order)]
    BY <1>20 DEF LocalList
  <2>2. FirstLocal \in X /\ FirstLocal.after \in {"Del", "DownUp"}
    BY <1>1, <1>6, <1>20
       DEF LocalList, LocalTask, Tasks, PanelTasks, TaskSet
  <2>3. Children(FirstLocal.node, fs["local"]) \in SUBSET Nodes
    BY DEF Children, TypeOK, Sides
  <2>4. Dispatch(FirstLocal, order) \in Seq(Batches(X))
    BY <2>2, <2>3, DispatchProperties
  <2>5. lwork' \in Works(X)
    BY <2>1, <2>2, <2>4 DEF Works
  <2>. QED
    BY <1>1, <1>9, <1>20, <2>5 DEF LocalList, Holds, remoteVars, uiVars
<1>21. CASE LocalAdd
  <2>1. lwork.pc = "adding" /\ lwork.adds \in Seq(Batches(X)) /\ lwork.adds # <<>>
    BY <1>9, <1>21 DEF LocalAdd, Works
  <2>2. NextAdd(lwork.adds) \in X /\ LaterAdds(lwork.adds) \in Seq(Batches(X))
    BY <2>1, AddsProperties DEF Fresh
  <2>3. tasks' \in Seq(X)
    BY <1>1, <1>3, <1>21, <2>2 DEF LocalAdd
  <2>4. lwork' \in Works(X)
    BY <1>9, <1>21, <2>1, <2>2 DEF LocalAdd, Works
  <2>. QED
    BY <1>9, <1>21, <2>3, <2>4 DEF LocalAdd, Holds, uiVars, remoteVars
<1>22. CASE LocalListEnd
    BY <1>4, <1>8, <1>9, <1>22 DEF LocalListEnd, Holds, uiVars
<1>23. CASE LocalTimer \/ LocalTimerPush
    BY <1>1, <1>8, <1>9, <1>23
       DEF LocalTimer, LocalTimerPush, Holds, uiVars, remoteVars, Idle, Works
<1>24. CASE RemoteLoop
  <2>1. net' = <<>> \/ \E m \in Packets(X) : net' = <<m>>
    BY <1>7, <1>9, <1>24 DEF RemoteLoop, Packets
  <2>. QED
    BY <1>1, <1>9, <1>24, <2>1 DEF RemoteLoop, Holds, localVars, uiVars
<1>25. CASE Ack \/ AckGone \/ AckInform
  <2>1. tasks' \in Seq(X) /\ net' = <<>>
    BY <1>1, <1>4, <1>5, <1>12, <1>25 DEF Ack, AckOne, AckGone, AckInform, Answered
  <2>. QED
    BY <1>9, <1>25, <2>1 DEF Ack, AckOne, AckGone, AckInform, Holds, localVars, uiVars
<1>26. CASE AckList
  <2>1. net # <<>> /\ net[1] \in Packets(X) /\ net[1].task \in X
    BY <1>12, <1>26 DEF AckList, Answered
  <2>2. net[1].names \in SUBSET Nodes /\ net[1].task.after \in {"Del", "DownUp"}
    BY <1>1, <1>26, <2>1 DEF AckList, Answered, Packets, Tasks, PanelTasks, TaskSet
  <2>3. radds' \in Seq(Batches(X))
    BY <1>26, <2>1, <2>2, DispatchProperties DEF AckList
  <2>. QED
    BY <1>4, <1>9, <1>26, <2>3 DEF AckList, Answered, Holds, localVars, uiVars
<1>27. CASE AckAdd
  <2>1. NextAdd(radds) \in X /\ LaterAdds(radds) \in Seq(Batches(X))
    BY <1>9, <1>27, AddsProperties DEF AckAdd, Fresh
  <2>2. tasks' \in Seq(X)
    BY <1>1, <1>3, <1>27, <2>1 DEF AckAdd
  <2>. QED
    BY <1>9, <1>27, <2>1, <2>2 DEF AckAdd, Holds, localVars, uiVars
<1>28. CASE AckListEnd
    BY <1>1, <1>9, <1>28 DEF AckListEnd, Holds, uiVars
<1>29. CASE Serve
  <2>1. net[1].task \in X
    BY <1>12, <1>29 DEF Serve
  <2>2. Children(net[1].task.node, fs["peer"]) \in SUBSET Nodes
    BY DEF Children, TypeOK, Sides
  <2>3. \E m \in Packets(X) : net' = <<m>>
    BY <1>29, <2>1, <2>2, Zenon
       DEF Serve, ServeDel, ServeNew, ServeList, ServeFile, Answer, Packets, RemoveResults,
           Exists
  <2>. QED
    BY <1>1, <1>9, <1>29, <2>3 DEF Serve, Holds, localVars, uiVars
<1>30. CASE Lose
    BY <1>1, <1>9, <1>30 DEF Lose, Holds, localVars, uiVars
<1>31. CASE UNCHANGED vars
    BY <1>1, <1>9, <1>31 DEF vars, Holds, localVars, uiVars, remoteVars
<1>. QED
    BY <1>13, <1>14, <1>15, <1>16, <1>17, <1>18, <1>19, <1>20, <1>21, <1>22, <1>23, <1>24,
       <1>25, <1>26, <1>27, <1>28, <1>29, <1>30, <1>31
       DEF Next, Ui, UiBusy, Local, Timer, Remote

\* The tasks that are made are tasks.
LEMMA TaskTypes ==
    /\ \A s \in Sides : ListTask(s, Root, "InformUi", FALSE) \in Tasks
    /\ \A s \in Sides, n \in Folders, a \in {"Del", "DownUp"}, m \in BOOLEAN :
          ListTask(s, n, a, m) \in Tasks
    /\ \A s \in Sides, n \in Nodes : DelTask(s, n) \in Tasks
    /\ \A s \in Sides, n \in Folders : NewTask(s, n) \in Tasks
    /\ \A s \in Sides, n \in Files, m \in BOOLEAN : FileTask(s, n, m) \in Tasks
    /\ \A t \in Tasks : [t EXCEPT !.ok = FALSE] \in Tasks
<1>1. \A s \in Sides : ListTask(s, Root, "InformUi", FALSE) \in Tasks
    BY DEF ListTask, Task, Tasks, PanelTasks, TaskSet
<1>2. \A s \in Sides, n \in Folders, a \in {"Del", "DownUp"}, m \in BOOLEAN :
          ListTask(s, n, a, m) \in Tasks
    BY DEF ListTask, Task, Tasks, TaskSet
<1>3. \A s \in Sides, n \in Nodes : DelTask(s, n) \in Tasks
    BY DEF DelTask, Task, Tasks, TaskSet
<1>4. \A s \in Sides, n \in Folders : NewTask(s, n) \in Tasks
    BY DEF NewTask, Task, Tasks, TaskSet
<1>5. \A s \in Sides, n \in Files, m \in BOOLEAN : FileTask(s, n, m) \in Tasks
    BY DEF FileTask, Task, Tasks, TaskSet
<1>6. ASSUME NEW t \in Tasks PROVE [t EXCEPT !.ok = FALSE] \in Tasks
    BY DEF Tasks, PanelTasks, TaskSet
<1>. QED
    BY <1>1, <1>2, <1>3, <1>4, <1>5, <1>6

\* A listing for the engines is of a folder.
LEMMA ListedFolder ==
    ASSUME NEW t \in Tasks, t.after \in {"Del", "DownUp"}
    PROVE  t.kind = "List" /\ t.side \in Sides /\ t.node \in Folders /\ t.move \in BOOLEAN
BY DEF Tasks, PanelTasks, TaskSet

LEMMA OneSeq ==
    ASSUME NEW S, NEW t \in S
    PROVE  <<t>> \in Seq(S)
OBVIOUS

LEMMA OneBatch ==
    ASSUME NEW X, NEW t \in X, t.ok
    PROVE  <<t>> \in Batches(X)
BY DEF Batches, Fresh

\* A task that is made has not failed.
LEMMA MadeOk ==
    /\ \A s, n, a, m : ListTask(s, n, a, m).ok
    /\ \A s, n : DelTask(s, n).ok /\ NewTask(s, n).ok
    /\ \A s, n, m : FileTask(s, n, m).ok
    /\ \A s, op, n : RowTask(s, op, n).ok
BY DEF ListTask, DelTask, NewTask, FileTask, RowTask, Task

\* A set of tasks that has the tasks made by listing and by the user is closed.
LEMMA ClosedSuffices ==
    ASSUME NEW X, X \subseteq Tasks,
           \A s \in Sides : ListTask(s, Root, "InformUi", FALSE) \in X,
           \A t \in X : [t EXCEPT !.ok = FALSE] \in X,
           \A t \in X : t.after = "Del" =>
              /\ \A n \in Folders : ListTask(t.side, n, "Del", FALSE) \in X
              /\ \A n \in Nodes : DelTask(t.side, n) \in X,
           \A t \in X : t.after = "DownUp" =>
              /\ \A n \in Folders : /\ NewTask(Other(t.side), n) \in X
                                    /\ ListTask(t.side, n, "DownUp", t.move) \in X
              /\ \A n \in Files : FileTask(t.side, n, t.move) \in X
              /\ t.move => DelTask(t.side, t.node) \in X,
           \A s \in From, op \in Operations, n \in Nodes : RowTask(s, op, n) \in X
    PROVE  Closed(X)
<1>1. ASSUME NEW t \in X, t.after \in {"Del", "DownUp"}
      PROVE  FolderTasks(t) \in Batches(X)
  <2>1. t.node \in Folders
    BY <1>1, ListedFolder
  <2>2. CASE t.after = "Del"
    <3>1. DelTask(t.side, t.node) \in X
      BY <2>1, <2>2 DEF Nodes
    <3>2. FolderTasks(t) = <<DelTask(t.side, t.node)>>
      BY <2>2 DEF FolderTasks
    <3>. QED
      BY <3>1, <3>2, MadeOk, OneBatch
  <2>3. CASE t.after = "DownUp"
    <3>1. NewTask(Other(t.side), t.node) \in X
      BY <2>1, <2>3
    <3>2. t.move => DelTask(t.side, t.node) \in X
      BY <2>3
    <3>3. /\ NewTask(Other(t.side), t.node) \in Fresh(X)
          /\ t.move => DelTask(t.side, t.node) \in Fresh(X)
      BY <3>1, <3>2, MadeOk DEF Fresh
    <3>. QED
      BY <2>3, <3>3 DEF FolderTasks, Batches
  <2>. QED
    BY <1>1, <2>2, <2>3
<1>2. ASSUME NEW t \in X, t.after \in {"Del", "DownUp"}, NEW n \in Nodes
      PROVE  EntryTasks(t, n) \in Batches(X)
  <2>1. n \in Folders \/ (n \in Files /\ n \notin Folders)
    BY DEF Nodes
  <2>2. CASE n \in Folders /\ t.after = "Del"
    <3>1. EntryTasks(t, n) = <<ListTask(t.side, n, "Del", FALSE)>>
      BY <2>2, TreeAssumption DEF EntryTasks
    <3>2. ListTask(t.side, n, "Del", FALSE) \in X
      BY <2>2
    <3>. QED
      BY <3>1, <3>2, MadeOk, OneBatch
  <2>3. CASE n \in Folders /\ t.after = "DownUp"
    <3>1. EntryTasks(t, n) = <<NewTask(Other(t.side), n),
                              ListTask(t.side, n, "DownUp", t.move)>>
      BY <2>3, TreeAssumption DEF EntryTasks
    <3>2. NewTask(Other(t.side), n) \in X /\ ListTask(t.side, n, "DownUp", t.move) \in X
      BY <2>3
    <3>. QED
      BY <3>1, <3>2, MadeOk DEF Batches, Fresh
  <2>4. CASE n \in Files /\ n \notin Folders /\ t.after = "Del"
    <3>1. EntryTasks(t, n) = <<DelTask(t.side, n)>>
      BY <2>4, TreeAssumption DEF EntryTasks
    <3>2. DelTask(t.side, n) \in X
      BY <2>4 DEF Nodes
    <3>. QED
      BY <3>1, <3>2, MadeOk DEF Batches, Fresh
  <2>5. CASE n \in Files /\ n \notin Folders /\ t.after = "DownUp"
    <3>1. EntryTasks(t, n) = <<FileTask(t.side, n, t.move)>>
      BY <2>5, TreeAssumption DEF EntryTasks
    <3>2. FileTask(t.side, n, t.move) \in X
      BY <2>5
    <3>. QED
      BY <3>1, <3>2, MadeOk DEF Batches, Fresh
  <2>. QED
    BY <1>2, <2>1, <2>2, <2>3, <2>4, <2>5
<1>3. \A s \in From, op \in Operations, n \in Nodes : RowTask(s, op, n) \in Fresh(X)
    BY MadeOk DEF Fresh
<1>. QED
    BY <1>1, <1>2, <1>3 DEF Closed

LEMMA OtherSide == \A s \in Sides : Other(s) \in Sides /\ Other(s) # s /\ Other(Other(s)) = s
BY DEF Other, Sides

\* The rows give tasks.
LEMMA RowTaskType ==
    ASSUME NEW s \in Sides, NEW op \in {"Del", "Copy", "Move"}, NEW n \in Nodes
    PROVE  RowTask(s, op, n) \in Tasks
<1>1. CASE n \in Folders
    BY <1>1, TaskTypes DEF RowTask
<1>2. CASE n \notin Folders
    BY <1>2, TaskTypes DEF RowTask, Nodes
<1>. QED
    BY <1>1, <1>2

LEMMA TasksClosed == Closed(Tasks)
<1>1. \A t \in Tasks : t.after = "Del" =>
              /\ \A n \in Folders : ListTask(t.side, n, "Del", FALSE) \in Tasks
              /\ \A n \in Nodes : DelTask(t.side, n) \in Tasks
    BY TaskTypes, ListedFolder
<1>2. ASSUME NEW t \in Tasks, t.after = "DownUp"
      PROVE   /\ \A n \in Folders : /\ NewTask(Other(t.side), n) \in Tasks
                                    /\ ListTask(t.side, n, "DownUp", t.move) \in Tasks
              /\ \A n \in Files : FileTask(t.side, n, t.move) \in Tasks
              /\ t.move => DelTask(t.side, t.node) \in Tasks
  <2>1. t.side \in Sides /\ t.node \in Nodes /\ t.move \in BOOLEAN /\ Other(t.side) \in Sides
    BY <1>2, ListedFolder, OtherSide DEF Nodes
  <2>. QED
    BY <2>1, TaskTypes
<1>3. \A s \in From, op \in Operations, n \in Nodes : RowTask(s, op, n) \in Tasks
    BY RowTaskType, TreeAssumption
<1>. QED
    BY <1>1, <1>2, <1>3, TaskTypes, ClosedSuffices

-----------------------------------------------------------------------------
(* Types                                                                   *)

LEMMA ChildrenType ==
    ASSUME TypeOK, NEW s \in Sides, NEW d
    PROVE  Children(d, fs[s]) \in SUBSET Nodes /\ fs[s] \in SUBSET Nodes
BY DEF TypeOK, Children

\* Making an entry makes entries.
LEMMA MadeType ==
    ASSUME TypeOK, NEW s \in Sides, NEW n \in Nodes
    PROVE  /\ Made(s, n) \in [Sides -> SUBSET Nodes]
           /\ Removed(s, n) \in [Sides -> SUBSET Nodes]
<1>1. Above[n] \subseteq Nodes
    BY AboveIsChain DEF Nodes
<1>. QED
    BY <1>1 DEF Made, Removed, TypeOK

LEMMA TypeInit == Init => TypeOK
<1>. SUFFICES ASSUME Init PROVE TypeOK
    OBVIOUS
<1>1. Idle \in Works(Tasks) /\ Idle.pc # "timer" /\ Idle.task \in Seq(Fresh(PanelTasks))
    BY DEF Idle, Works
<1>2. Holds(Tasks)
    BY <1>1 DEF Init, Holds
<1>3. /\ fs \in [Sides -> SUBSET Nodes] /\ shown \in [Sides -> SUBSET Nodes]
      /\ asked \in [Sides -> SUBSET Nodes]
    BY TreeAssumption DEF Init, Children
<1>4. /\ rows = <<>> /\ uiq = <<>> /\ refresh = <<>> /\ uwork = Idle /\ radds = <<>>
      /\ need = FALSE /\ busy = FALSE /\ canSend = TRUE /\ silent = FALSE
      /\ lloops = 0 /\ rloops = 0
    BY DEF Init
<1>5. rows \in Seq(Tasks) /\ uiq \in Seq(Messages)
    BY <1>4
<1>6. uwork.pc # "timer" /\ uwork.task \in Seq(Fresh(PanelTasks))
    BY <1>1, <1>4
<1>. QED
    BY <1>2, <1>3, <1>4, <1>5, <1>6 DEF TypeOK

\* The task an engine takes is a task, and its entry is one where that matters.
LEMMA TakenTask ==
    ASSUME TypeOK
    PROVE  /\ LocalWaits => FirstLocal \in Tasks /\ Known(tasks, FirstLocal)
           /\ RemoteWaits => FirstRemote \in Tasks /\ Known(tasks, FirstRemote)
           /\ net # <<>> => net[1] \in Packets(Tasks) /\ net = <<net[1]>>
           /\ \A t \in Tasks : t.kind # "List" => t.node \in Nodes
           /\ \A t \in Tasks : t.side \in Sides /\ Other(t.side) \in Sides
<1>1. tasks \in Seq(Tasks) /\ (net = <<>> \/ \E m \in Packets(Tasks) : net = <<m>>)
    BY DEF TypeOK, Holds
<1>2. LocalWaits => FirstLocal \in Tasks /\ Known(tasks, FirstLocal)
    BY <1>1, FirstProperties DEF LocalWaits, FirstLocal
<1>3. RemoteWaits => FirstRemote \in Tasks /\ Known(tasks, FirstRemote)
    BY <1>1, FirstProperties DEF RemoteWaits, FirstRemote
<1>4. net # <<>> => net[1] \in Packets(Tasks) /\ net = <<net[1]>>
    BY <1>1
<1>5. \A t \in Tasks : t.kind # "List" => t.node \in Nodes
    BY DEF Tasks, PanelTasks, TaskSet, Nodes
<1>6. \A t \in Tasks : t.side \in Sides
    BY DEF Tasks, PanelTasks, TaskSet
<1>. QED
    BY <1>2, <1>3, <1>4, <1>5, <1>6, OtherSide

\* The steps that change what is on the disks.
LEMMA FsNext ==
    ASSUME TypeOK, [Next]_vars
    PROVE  fs' \in [Sides -> SUBSET Nodes]
<1>1. fs \in [Sides -> SUBSET Nodes]
    BY DEF TypeOK
<1>2. "local" \in Sides /\ "peer" \in Sides
    BY DEF Sides
<1>3. CASE LocalDel
    BY <1>1, <1>2, <1>3, TakenTask, MadeType DEF LocalDel, LocalTask
<1>4. CASE LocalNew
    BY <1>1, <1>2, <1>4, TakenTask, MadeType DEF LocalNew, LocalTask
<1>5. CASE Serve
  <2>1. net[1].task \in Tasks
    BY <1>5, TakenTask DEF Serve, Packets
  <2>2. CASE ServeDel(net[1].task)
    BY <1>1, <1>2, <2>1, <2>2, TakenTask, MadeType DEF ServeDel
  <2>3. CASE ServeNew(net[1].task)
    BY <1>1, <1>2, <2>1, <2>3, TakenTask, MadeType DEF ServeNew
  <2>4. CASE ServeList(net[1].task)
    BY <1>1, <2>4 DEF ServeList
  <2>5. CASE ServeFile(net[1].task)
    BY <1>1, <1>2, <2>1, <2>5, TakenTask, MadeType DEF ServeFile
  <2>. QED
    BY <1>5, <2>2, <2>3, <2>4, <2>5 DEF Serve
<1>6. CASE UNCHANGED fs
    BY <1>1, <1>6
<1>7. UNCHANGED fs \/ LocalDel \/ LocalNew \/ Serve
    BY DEF Next, vars, Ui, UiBusy, UiBrowse, UiOperate, UiCancel, UiNotify, UiAdd,
           UiOperateEnd, Local, LocalIdle, LocalListFails, LocalInform, LocalList,
           LocalAdd, LocalListEnd, Timer, LocalTimer, LocalTimerPush, Remote, RemoteLoop,
           Ack, AckOne, AckGone, AckInform, AckList, AckAdd, AckListEnd, Lose
<1>. QED
    BY <1>3, <1>4, <1>5, <1>6, <1>7

LEMMA RefreshType ==
    ASSUME TypeOK, NEW ts \in Seq(Tasks), NEW slot, NEW n \in Nat,
           slot = <<>> \/ \E t \in Fresh(PanelTasks) : slot = <<t>>,
           OnRefresh(ts, slot, n)
    PROVE  /\ rows' \in Seq(Tasks)
           /\ refresh' = <<>> \/ \E t \in Fresh(PanelTasks) : refresh' = <<t>>
           /\ need' \in BOOLEAN /\ lloops' \in Nat /\ rloops' \in Nat
<1>1. CASE ts = <<>> /\ slot # <<>>
    BY <1>1 DEF OnRefresh, TypeOK
<1>2. CASE ~(ts = <<>> /\ slot # <<>>)
    BY <1>2 DEF OnRefresh, TypeOK
<1>. QED
    BY <1>1, <1>2

LEMMA TypeNext == TypeOK /\ [Next]_vars => TypeOK'
<1>. SUFFICES ASSUME TypeOK, [Next]_vars PROVE TypeOK'
    OBVIOUS
<1>1. fs' \in [Sides -> SUBSET Nodes]
    BY FsNext
<1>2. Holds(Tasks)'
    BY HoldsNext, TasksClosed DEF TypeOK
<1>3. TypeOK
    OBVIOUS
<1>4. tasks \in Seq(Tasks) /\ Cleaned \in Seq(Tasks)
    BY EraseProperties DEF TypeOK, Holds, Cleaned, CleanError
<1>21. lloops \in Nat /\ rloops \in Nat
    BY DEF TypeOK
<1>5. ASSUME NEW s \in Sides, UiBrowse(s) PROVE TypeOK'
  <2>1. Put(Cleaned, ListTask(s, Root, "InformUi", FALSE)) \in Seq(Tasks)
    <3>1. ListTask(s, Root, "InformUi", FALSE) \in Tasks /\ Tasks \subseteq Tasks
      BY TaskTypes
    <3>. HIDE DEF Cleaned
    <3>. QED
      BY <1>4, <3>1, PutProperties
  <2>2. /\ rows' \in Seq(Tasks)
        /\ refresh' = <<>> \/ \E t \in Fresh(PanelTasks) : refresh' = <<t>>
        /\ need' \in BOOLEAN /\ lloops' \in Nat /\ rloops' \in Nat
    BY <1>5, <2>1, RefreshType DEF UiBrowse, TypeOK
  <2>. QED
    BY <1>1, <1>2, <1>3, <1>5, <2>2 DEF UiBrowse, TypeOK
<1>6. ASSUME NEW s \in From, NEW op \in Operations, NEW sel \in SUBSET shown[s],
             NEW order \in SetToSeqs(sel), UiOperate(s, op, order)
      PROVE  TypeOK'
  <2>1. s \in Sides /\ Other(s) \in Sides /\ sel \in SUBSET Nodes
    BY TreeAssumption, OtherSide DEF TypeOK
  <2>2. ToSet(order) \in SUBSET Nodes
    <3>1. IsFiniteSet(sel)
      BY <2>1, TreeAssumption, FS_Subset
    <3>2. order \in Seq(sel)
      BY <3>1, OrderProperties
    <3>. QED
      BY <2>1, <3>2 DEF ToSet
  <2>3. asked' \in [Sides -> SUBSET Nodes]
    BY <1>3, <1>6, <2>1, <2>2 DEF UiOperate, TypeOK
  <2>4. uwork'.pc = "adding" /\ uwork'.task \in Seq(Fresh(PanelTasks))
    <3>1. \A x \in Sides : ListTask(x, Root, "InformUi", FALSE) \in Fresh(PanelTasks)
      BY DEF ListTask, Task, PanelTasks, TaskSet, Fresh
    <3>2. ASSUME NEW x \in Sides
          PROVE  <<ListTask(x, Root, "InformUi", FALSE)>> \in Seq(Fresh(PanelTasks))
      BY <3>1, OneSeq
    <3>3. /\ uwork'.pc = "adding"
          /\ \/ uwork'.task = <<ListTask(s, Root, "InformUi", FALSE)>>
             \/ uwork'.task = <<ListTask(Other(s), Root, "InformUi", FALSE)>>
      BY <1>6 DEF UiOperate
    <3>. QED
      BY <2>1, <3>2, <3>3
  <2>. QED
    BY <1>1, <1>2, <1>3, <1>6, <2>3, <2>4 DEF UiOperate, TypeOK, localVars, remoteVars
<1>7. CASE UiAdd
  <2>1. uwork'.pc = uwork.pc /\ uwork'.task = uwork.task
    BY <1>3, <1>7 DEF UiAdd, TypeOK, Holds, Works
  <2>. QED
    BY <1>1, <1>2, <1>3, <1>7, <2>1 DEF UiAdd, TypeOK, localVars, remoteVars, boundVars
<1>8. CASE UiOperateEnd
  <2>1. \E t \in Fresh(PanelTasks) : uwork.task = <<t>>
    <3>1. \E t \in Tasks : uwork.task = <<t>>
      BY <1>3, <1>8 DEF UiOperateEnd, TypeOK, Holds, Works
    <3>2. uwork.task \in Seq(Fresh(PanelTasks))
      BY DEF TypeOK
    <3>3. uwork.task[1] \in Fresh(PanelTasks) /\ uwork.task = <<uwork.task[1]>>
      BY <3>1, <3>2
    <3>. QED
      BY <3>3
  <2>2. /\ rows' \in Seq(Tasks)
        /\ refresh' = <<>> \/ \E t \in Fresh(PanelTasks) : refresh' = <<t>>
        /\ need' \in BOOLEAN /\ lloops' \in Nat /\ rloops' \in Nat
    BY <1>4, <1>8, <2>1, RefreshType DEF UiOperateEnd
  <2>3. uwork' = Idle /\ Idle.pc # "timer" /\ Idle.task \in Seq(Fresh(PanelTasks))
    BY <1>8 DEF UiOperateEnd, Idle
  <2>. QED
    BY <1>1, <1>2, <1>3, <1>8, <2>2, <2>3 DEF UiOperateEnd, TypeOK, boundVars
<1>9. CASE UiCancel
    BY <1>1, <1>2, <1>3, <1>9 DEF UiCancel, TypeOK, localVars, remoteVars
<1>10. CASE UiNotify
  <2>1. uiq' \in Seq(Messages) /\ Head(uiq) \in Messages
    BY <1>3, <1>10 DEF UiNotify, TypeOK
  <2>2. CASE Head(uiq).cmd = "refresh"
    <3>1. /\ rows' \in Seq(Tasks)
          /\ refresh' = <<>> \/ \E t \in Fresh(PanelTasks) : refresh' = <<t>>
          /\ need' \in BOOLEAN /\ lloops' \in Nat /\ rloops' \in Nat
      BY <1>4, <1>10, <2>2, RefreshType DEF UiNotify, TypeOK
    <3>. QED
      BY <1>1, <1>2, <1>3, <1>10, <2>1, <2>2, <3>1 DEF UiNotify, TypeOK, boundVars
  <2>3. CASE Head(uiq).cmd # "refresh"
    <3>1. shown' \in [Sides -> SUBSET Nodes]
      BY <1>3, <1>10, <2>1, <2>3 DEF UiNotify, TypeOK, Messages
    <3>. QED
      BY <1>1, <1>2, <1>3, <1>10, <2>1, <2>3, <3>1 DEF UiNotify, TypeOK, boundVars
  <2>. QED
    BY <2>2, <2>3
<1>11. CASE LocalIdle \/ LocalDel \/ LocalNew \/ LocalListFails \/ LocalList \/ LocalAdd
            \/ LocalListEnd
  <2>1. lloops' \in Nat /\ rloops' \in Nat
    BY <1>11, <1>21
       DEF LocalIdle, LocalDel, LocalNew, LocalListFails, LocalList, LocalAdd,
           LocalListEnd, LocalTask, LocalTakes, localVars, remoteVars
  <2>3. need' = need \/ need' = TRUE
    BY <1>11
       DEF LocalIdle, LocalDel, LocalNew, LocalListFails, LocalList, LocalAdd,
           LocalListEnd
  <2>2. UNCHANGED <<radds, busy, canSend, uwork, silent, uiq, rows, shown, refresh, asked>>
    BY <1>11
       DEF LocalIdle, LocalDel, LocalNew, LocalListFails, LocalList, LocalAdd,
           LocalListEnd, remoteVars, uiVars, boundVars
  <2>. QED
    BY <1>1, <1>2, <1>3, <2>1, <2>2, <2>3 DEF TypeOK
<1>12. CASE LocalInform
  <2>1. Children(Root, fs["local"]) \in SUBSET Nodes
    BY ChildrenType DEF Sides
  <2>2. uiq' \in Seq(Messages)
    BY <1>3, <1>12, <2>1 DEF LocalInform, TypeOK, Messages, Sides
  <2>. QED
    BY <1>1, <1>2, <1>3, <1>12, <2>2
       DEF LocalInform, TypeOK, localVars, remoteVars, boundVars
<1>13. CASE LocalTimer
    BY <1>1, <1>2, <1>3, <1>13
       DEF LocalTimer, TypeOK, remoteVars, uiVars, boundVars
<1>14. CASE LocalTimerPush
  <2>1. uiq' \in Seq(Messages)
    BY <1>3, <1>14 DEF LocalTimerPush, TypeOK, Messages, Sides, RefreshMsg
  <2>. QED
    BY <1>1, <1>2, <1>3, <1>14, <2>1
       DEF LocalTimerPush, TypeOK, remoteVars, boundVars
<1>15. CASE RemoteLoop \/ Ack \/ AckGone \/ AckList \/ AckListEnd
  <2>1. lloops' \in Nat /\ rloops' \in Nat
    BY <1>15, <1>21
       DEF RemoteLoop, Ack, AckOne, AckGone, AckList, AckListEnd, localVars
  <2>3. /\ need' = need \/ need' = TRUE
        /\ canSend' = canSend \/ canSend' = TRUE \/ canSend' = FALSE
        /\ busy' = busy \/ busy' = TRUE \/ (busy' = FALSE /\ radds' = <<>>)
        /\ radds' = radds \/ busy' = TRUE
    BY <1>15
       DEF RemoteLoop, Ack, AckOne, AckGone, AckList, AckListEnd, localVars
  <2>2. UNCHANGED <<uwork, silent, uiq, rows, shown, refresh, asked>>
    BY <1>15
       DEF RemoteLoop, Ack, AckOne, AckGone, AckList, AckListEnd, uiVars, boundVars
  <2>4. /\ need \in BOOLEAN /\ canSend \in BOOLEAN /\ busy \in BOOLEAN
        /\ radds # <<>> => busy
    BY DEF TypeOK
  <2>5. need' \in BOOLEAN /\ canSend' \in BOOLEAN
    BY <2>3, <2>4
  <2>6. busy' \in BOOLEAN
    BY <2>3, <2>4
  <2>7. radds' # <<>> => busy'
    BY <2>3, <2>4
  <2>. QED
    BY <1>1, <1>2, <1>3, <2>1, <2>2, <2>5, <2>6, <2>7 DEF TypeOK
<1>16. CASE AckAdd
    BY <1>1, <1>2, <1>3, <1>16 DEF AckAdd, TypeOK, localVars, uiVars, boundVars
<1>17. CASE AckInform
  <2>1. net[1].names \in SUBSET Nodes
    BY <1>17, TakenTask DEF AckInform, Answered, Packets
  <2>2. uiq' \in Seq(Messages)
    BY <1>3, <1>17, <2>1 DEF AckInform, TypeOK, Messages, Sides
  <2>. QED
    BY <1>1, <1>2, <1>3, <1>17, <2>2 DEF AckInform, TypeOK, localVars, boundVars
<1>18. CASE Serve
    BY <1>1, <1>2, <1>3, <1>18 DEF Serve, TypeOK, localVars, uiVars, boundVars
<1>19. CASE Lose
    BY <1>1, <1>2, <1>3, <1>19 DEF Lose, TypeOK, localVars, uiVars
<1>20. CASE UNCHANGED vars
    BY <1>1, <1>2, <1>3, <1>20
       DEF vars, TypeOK, localVars, remoteVars, uiVars, boundVars
<1>. QED
    BY <1>5, <1>6, <1>7, <1>8, <1>9, <1>10, <1>11, <1>12, <1>13, <1>14, <1>15, <1>16,
       <1>17, <1>18, <1>19, <1>20
       DEF Next, Ui, UiBusy, Local, Timer, Remote

\* Whatever happens, tasks, messages and panels stay what the code takes them for:
\* a panel listing in refreshSubListTask_, folders under a listing, and tasks to add
\* only while the remote engine is inside its handler.
THEOREM TypeCorrect == Spec => []TypeOK
  BY TypeInit, TypeNext, PTL DEF Spec

-----------------------------------------------------------------------------
(* The remote engine is woken                                              *)

\* What the local engine takes off the list, or marks, was not for the remote one.
LEMMA RemoteWaitsStill ==
    ASSUME TypeOK, LocalWaits,
           tasks' = RemoveTask(tasks, FirstLocal) \/ tasks' = MarkFailed(FirstLocal),
           RemoteWaits'
    PROVE  RemoteWaits
<1>1. tasks \in Seq(Tasks)
    BY DEF TypeOK, Holds
<1>2. /\ FirstLocal \in Tasks /\ Known(tasks, FirstLocal) /\ ~ForPeer(FirstLocal)
      /\ tasks # <<>> /\ tasks[1].ok
    BY <1>1, FirstProperties DEF LocalWaits, FirstLocal
<1>3. \E i \in 1 .. Len(tasks') : ForPeer(tasks'[i])
    BY DEF RemoteWaits, Waiting
<1>4. CASE tasks' = RemoveTask(tasks, FirstLocal)
  <2>1. PICK x : Known(tasks', x) /\ ForPeer(x)
    BY <1>3 DEF Known
  <2>2. Known(tasks, x)
    BY <1>1, <1>4, <2>1, EraseProperties DEF RemoveTask
  <2>. QED
    BY <1>2, <2>1, <2>2 DEF RemoteWaits, Waiting, Known
<1>5. CASE tasks' = MarkFailed(FirstLocal)
  <2>. DEFINE f == [FirstLocal EXCEPT !.ok = FALSE]
  <2>1. f \in Tasks
    BY <1>2, TaskTypes
  <2>2. ~ForPeer(f)
    BY <1>2 DEF ForPeer, Tasks, PanelTasks, TaskSet
  <2>3. PICK k \in 1 .. Len(tasks) :
           /\ Len(tasks') = Len(tasks) /\ tasks'[k] = f
           /\ \A j \in 1 .. Len(tasks) : j # k => tasks'[j] = tasks[j]
    BY <1>1, <1>2, <1>5, <2>1, MarkProperties
  <2>. HIDE DEF f
  <2>4. PICK i \in 1 .. Len(tasks) : ForPeer(tasks'[i])
    BY <1>3, <2>3
  <2>5. ForPeer(tasks[i])
    BY <2>2, <2>3, <2>4
  <2>. QED
    BY <1>2, <2>5 DEF RemoteWaits, Waiting
<1>. QED
    BY <1>4, <1>5

\* A panel listing or a message of the UI brings USER_LOOPs for what it changes.
LEMMA RefreshWakes ==
    ASSUME TypeOK, NEW ts, NEW slot, NEW n \in Nat, OnRefresh(ts, slot, n)
    PROVE  /\ n > 0 => lloops' > 0 /\ rloops' > 0
           /\ \/ tasks' = ts /\ lloops' = lloops + n /\ rloops' = rloops + n
              \/ lloops' > 0 /\ rloops' > 0
<1>1. lloops \in Nat /\ rloops \in Nat
    BY DEF TypeOK
<1>2. CASE ts = <<>> /\ slot # <<>>
    BY <1>1, <1>2 DEF OnRefresh
<1>3. CASE ~(ts = <<>> /\ slot # <<>>)
  <2>1. tasks' = ts /\ lloops' = lloops + (n + 0) /\ rloops' = rloops + (n + 0)
    BY <1>3 DEF OnRefresh
  <2>. QED
    BY <1>1, <2>1
<1>. QED
    BY <1>2, <1>3

LEMMA RemoteAwakeNext == TypeOK /\ RemoteAwake /\ [Next]_vars => RemoteAwake'
<1>. SUFFICES ASSUME TypeOK, RemoteAwake, [Next]_vars PROVE RemoteAwake'
    OBVIOUS
<1>1. rloops \in Nat
    BY DEF TypeOK
<1>2. /\ lwork.adds # <<>> => lwork.pc = "adding"
      /\ uwork.adds # <<>> => uwork.pc = "adding"
      /\ uwork.pc = "adding" => uwork # Idle
    BY DEF TypeOK, Holds, Works, Idle
<1>3. UNCHANGED tasks => (RemoteWaits' <=> RemoteWaits)
    BY DEF RemoteWaits, Waiting
<1>4. ASSUME NEW s, UiBrowse(s) PROVE RemoteAwake'
  <2>1. \E ts : OnRefresh(ts, refresh, 1)
    BY <1>4, Zenon DEF UiBrowse
  <2>2. rloops' > 0
    BY <2>1, RefreshWakes
  <2>. QED
    BY <2>2 DEF RemoteAwake
<1>5. ASSUME NEW s, NEW op, NEW sel, UiOperate(s, op, sel) PROVE RemoteAwake'
  <2>1. uwork'.pc = "adding"
    BY <1>5 DEF UiOperate
  <2>. QED
    BY <2>1 DEF RemoteAwake, Quiet, Idle
<1>6. CASE UiAdd
  <2>1. uwork'.pc = "adding"
    BY <1>2, <1>6 DEF UiAdd, TypeOK, Holds, Works
  <2>. QED
    BY <2>1 DEF RemoteAwake, Quiet, Idle
<1>7. CASE UiOperateEnd
    BY <1>7, RefreshWakes DEF UiOperateEnd, RemoteAwake
<1>8. CASE UiCancel
  <2>1. CASE Cleaned = tasks
    BY <1>3, <1>8, <2>1 DEF UiCancel, RemoteAwake, Quiet, localVars, remoteVars
  <2>2. CASE Cleaned # tasks
    BY <1>8, <2>2 DEF UiCancel, RemoteAwake, Quiet
  <2>. QED
    BY <2>1, <2>2
<1>9. CASE UiNotify
  <2>1. (tasks' = tasks /\ rloops' = rloops) \/ rloops' > 0
    BY <1>1, <1>9, RefreshWakes DEF UiNotify
  <2>. QED
    BY <1>3, <1>9, <2>1 DEF UiNotify, RemoteAwake, Quiet
<1>10. CASE LocalDel \/ LocalNew \/ LocalListFails \/ LocalInform
  <2>1. /\ LocalWaits /\ UNCHANGED <<lwork, rloops, canSend, busy, uwork, silent>>
        /\ tasks' = RemoveTask(tasks, FirstLocal) \/ tasks' = MarkFailed(FirstLocal)
    BY <1>10
       DEF LocalDel, LocalNew, LocalListFails, LocalInform, LocalTask, localVars,
           remoteVars, uiVars
  <2>2. RemoteWaits' => RemoteWaits
    BY <2>1, RemoteWaitsStill
  <2>. QED
    BY <2>1, <2>2 DEF RemoteAwake, Quiet
<1>11. CASE LocalIdle
    BY <1>3, <1>11 DEF LocalIdle, RemoteAwake, Quiet, remoteVars, uiVars
<1>12. CASE LocalList
  <2>1. lwork'.pc = "adding"
    BY <1>12 DEF LocalList
  <2>. QED
    BY <2>1 DEF RemoteAwake, Quiet
<1>13. CASE LocalAdd
  <2>1. lwork'.pc = "adding"
    BY <1>2, <1>13 DEF LocalAdd, TypeOK, Holds, Works
  <2>. QED
    BY <2>1 DEF RemoteAwake, Quiet
<1>14. CASE LocalListEnd \/ AckListEnd \/ Ack \/ AckGone \/ AckInform \/ Lose
  <2>1. rloops' = rloops + 1 \/ rloops' = rloops + 2
    BY <1>14 DEF LocalListEnd, AckListEnd, Ack, AckGone, AckInform, Lose
  <2>. QED
    BY <1>1, <2>1 DEF RemoteAwake
<1>15. CASE LocalTimer \/ LocalTimerPush
  <2>1. lwork'.pc # "adding" /\ lwork.pc # "adding"
    BY <1>15 DEF LocalTimer, LocalTimerPush, Idle
  <2>. QED
    BY <1>3, <1>15, <2>1
       DEF LocalTimer, LocalTimerPush, RemoteAwake, Quiet, remoteVars, uiVars
<1>16. CASE RemoteLoop
    BY <1>3, <1>16 DEF RemoteLoop, RemoteAwake
<1>17. CASE AckList
    BY <1>17 DEF AckList, RemoteAwake, Quiet
<1>18. CASE AckAdd
    BY <1>18 DEF AckAdd, RemoteAwake, Quiet, TypeOK
<1>19. CASE Serve
    BY <1>3, <1>19 DEF Serve, RemoteAwake, Quiet, localVars, uiVars
<1>20. CASE UNCHANGED vars
    BY <1>3, <1>20 DEF vars, RemoteAwake, Quiet, localVars, remoteVars, uiVars
<1>. QED
    BY <1>4, <1>5, <1>6, <1>7, <1>8, <1>9, <1>10, <1>11, <1>12, <1>13, <1>14, <1>15,
       <1>16, <1>17, <1>18, <1>19, <1>20
       DEF Next, Ui, UiBusy, Local, Timer, Remote

\* The remote engine never sleeps on a task it could send: whoever adds a task or
\* lets it send again posts USER_LOOP, or is about to (FileManClient::onUserLoop,
\* the acks, FmScheduler::notifyEngine).
THEOREM RemoteStaysAwake == Spec => []RemoteAwake
<1>1. Init => RemoteAwake
    BY DEF Init, RemoteAwake, RemoteWaits, Waiting
<1>. QED
    BY <1>1, TypeCorrect, RemoteAwakeNext, PTL DEF Spec

-----------------------------------------------------------------------------
(* The task list on the screen                                             *)

\* Without downloads there is no folder to make on this computer.
LEMMA LoudClosed == NoDownloads => Closed(LoudTasks)
<1>. SUFFICES ASSUME NoDownloads PROVE Closed(LoudTasks)
    OBVIOUS
<1>. DEFINE loud(t) == /\ t.kind = "New" => t.side = "peer"
                       /\ t.after = "DownUp" => t.side = "local"
<1>1. \A t : t \in LoudTasks <=> t \in Tasks /\ loud(t)
    BY DEF LoudTasks
<1>2. \A s, n, m : loud(ListTask(s, n, "InformUi", m)) /\ loud(ListTask(s, n, "Del", m))
    BY DEF ListTask, Task
<1>3. \A s, n : loud(DelTask(s, n))
    BY DEF DelTask, Task
<1>4. \A n, m : loud(ListTask("local", n, "DownUp", m))
    BY DEF ListTask, Task
<1>5. \A n : loud(NewTask("peer", n))
    BY DEF NewTask, Task
<1>6. \A s, n, m : loud(FileTask(s, n, m))
    BY DEF FileTask, Task
<1>7. \A t \in Tasks : loud(t) => loud([t EXCEPT !.ok = FALSE])
    BY DEF Tasks, PanelTasks, TaskSet
<1>8. ASSUME NEW s \in From, NEW op \in Operations, NEW n \in Nodes
      PROVE  loud(RowTask(s, op, n))
  <2>1. CASE n \in Folders /\ op = "Del"
    BY <1>2, <2>1 DEF RowTask
  <2>2. CASE n \in Folders /\ op # "Del"
    <3>1. s = "local"
      BY <2>2, TreeAssumption DEF NoDownloads
    <3>. QED
      BY <1>4, <2>2, <3>1 DEF RowTask
  <2>3. CASE n \notin Folders
    BY <1>3, <1>6, <2>3 DEF RowTask
  <2>. QED
    BY <2>1, <2>2, <2>3
<1>. HIDE DEF loud
<1>9. \A s \in Sides : ListTask(s, Root, "InformUi", FALSE) \in LoudTasks
    BY <1>1, <1>2, TaskTypes
<1>10. \A t \in LoudTasks : [t EXCEPT !.ok = FALSE] \in LoudTasks
    BY <1>1, <1>7, TaskTypes
<1>11. ASSUME NEW t \in LoudTasks, t.after = "Del"
       PROVE  /\ \A n \in Folders : ListTask(t.side, n, "Del", FALSE) \in LoudTasks
              /\ \A n \in Nodes : DelTask(t.side, n) \in LoudTasks
  <2>1. t.side \in Sides
    BY <1>1, <1>11, ListedFolder
  <2>. QED
    BY <1>1, <1>2, <1>3, <2>1, TaskTypes
<1>12. ASSUME NEW t \in LoudTasks, t.after = "DownUp"
       PROVE  /\ \A n \in Folders : /\ NewTask(Other(t.side), n) \in LoudTasks
                                    /\ ListTask(t.side, n, "DownUp", t.move) \in LoudTasks
              /\ \A n \in Files : FileTask(t.side, n, t.move) \in LoudTasks
              /\ t.move => DelTask(t.side, t.node) \in LoudTasks
  <2>1. t.side = "local" /\ t.side \in Sides /\ t.move \in BOOLEAN /\ t.node \in Nodes
    BY <1>1, <1>12, ListedFolder DEF loud, Nodes
  <2>2. Other(t.side) = "peer" /\ "peer" \in Sides
    BY <2>1 DEF Other, Sides
  <2>. QED
    BY <1>1, <1>3, <1>4, <1>5, <1>6, <2>1, <2>2, TaskTypes
<1>13. \A s \in From, op \in Operations, n \in Nodes : RowTask(s, op, n) \in LoudTasks
    BY <1>1, <1>8, RowTaskType, TreeAssumption
<1>14. LoudTasks \subseteq Tasks
    BY <1>1
<1>. QED
    BY <1>9, <1>10, <1>11, <1>12, <1>13, <1>14, ClosedSuffices

LEMMA RefreshShows ==
    ASSUME NEW ts, NEW slot, NEW n, OnRefresh(ts, slot, n)
    PROVE  need' \/ rows' = tasks'
BY DEF OnRefresh

\* What is left in the UI's queue when its first message has been handled, and what
\* is there when one has been added.
LEMMA QueueProperties ==
    ASSUME TypeOK
    PROVE  /\ \A i \in 1 .. Len(uiq) : uiq # <<>> =>
                 i = 1 \/ (i - 1 \in 1 .. Len(Tail(uiq)) /\ Tail(uiq)[i - 1] = uiq[i])
           /\ uiq # <<>> => /\ 1 \in 1 .. Len(uiq) /\ Head(uiq) = uiq[1]
                            /\ Len(Tail(uiq)) = Len(uiq) - 1
                            /\ \A i \in 1 .. Len(Tail(uiq)) : Tail(uiq)[i] = uiq[i + 1]
           /\ Len(uiq) \in Nat
           /\ \A m \in Messages :
                 /\ Len(Append(uiq, m)) = Len(uiq) + 1
                 /\ \A i \in 1 .. Len(uiq) : Append(uiq, m)[i] = uiq[i]
                 /\ Append(uiq, m)[Len(uiq) + 1] = m
<1>1. uiq \in Seq(Messages) /\ Len(uiq) \in Nat
    BY DEF TypeOK
<1>2. \A m \in Messages :
                 /\ Len(Append(uiq, m)) = Len(uiq) + 1
                 /\ \A i \in 1 .. Len(uiq) : Append(uiq, m)[i] = uiq[i]
                 /\ Append(uiq, m)[Len(uiq) + 1] = m
    BY <1>1, AppendProperties
<1>3. ASSUME uiq # <<>>
      PROVE  /\ 1 \in 1 .. Len(uiq) /\ Head(uiq) = uiq[1]
             /\ Len(Tail(uiq)) = Len(uiq) - 1
             /\ \A i \in 1 .. Len(Tail(uiq)) : Tail(uiq)[i] = uiq[i + 1]
    BY <1>1, <1>3, HeadTailProperties, EmptySeq
<1>4. ASSUME uiq # <<>>, NEW i \in 1 .. Len(uiq), i # 1
      PROVE  i - 1 \in 1 .. Len(Tail(uiq)) /\ Tail(uiq)[i - 1] = uiq[i]
    BY <1>1, <1>3, <1>4
<1>. QED
    BY <1>1, <1>2, <1>3, <1>4

LEMMA RowsNext ==
    ASSUME NoDownloads, TypeOK, RowsInv, [Next]_vars
    PROVE  RowsInv'
<1>1. Closed(LoudTasks) /\ Holds(LoudTasks)
    BY LoudClosed DEF RowsInv
<1>2. Holds(LoudTasks)'
    BY <1>1, HoldsNext
<1>. DEFINE owed == \E i \in 1 .. Len(uiq) : uiq[i].cmd = "refresh"
            D == \/ need \/ rows = tasks \/ silent
                 \/ lwork.pc # "idle" \/ busy \/ uwork # Idle \/ owed
<1>3. D
    BY DEF RowsInv
<1>4. SUFFICES D'
    BY <1>2 DEF RowsInv
<1>5. /\ lwork.adds # <<>> => lwork.pc = "adding"
      /\ uwork.adds # <<>> => uwork.pc = "adding"
      /\ Idle.pc = "idle"
    BY <1>1 DEF Holds, Works, Idle
<1>6. ASSUME NEW s, UiBrowse(s) PROVE D'
  <2>1. \E ts : OnRefresh(ts, refresh, 1)
    BY <1>6, Zenon DEF UiBrowse
  <2>. QED
    BY <2>1, RefreshShows
<1>7. ASSUME NEW s, NEW op, NEW sel, UiOperate(s, op, sel) PROVE D'
  <2>1. uwork'.pc = "adding"
    BY <1>7 DEF UiOperate
  <2>. QED
    BY <1>5, <2>1
<1>8. CASE UiAdd
  <2>1. uwork'.pc = "adding"
    BY <1>1, <1>5, <1>8 DEF UiAdd, Holds, Works
  <2>. QED
    BY <1>5, <2>1
<1>9. CASE UiOperateEnd
    BY <1>9, RefreshShows DEF UiOperateEnd
<1>10. CASE UiCancel
  <2>1. CASE Cleaned = tasks
    BY <1>3, <1>10, <2>1 DEF UiCancel, localVars, remoteVars
  <2>2. CASE Cleaned # tasks
    BY <1>10, <2>2 DEF UiCancel
  <2>. QED
    BY <2>1, <2>2
<1>11. CASE UiNotify
  <2>1. CASE Head(uiq).cmd = "refresh"
    BY <1>11, <2>1, RefreshShows DEF UiNotify
  <2>2. CASE Head(uiq).cmd # "refresh"
    <3>1. owed => owed'
      <4>1. uiq # <<>> /\ uiq' = Tail(uiq)
        BY <1>11 DEF UiNotify
      <4>2. ASSUME NEW i \in 1 .. Len(uiq), uiq[i].cmd = "refresh" PROVE owed'
        <5>1. i # 1
          BY <2>2, <4>1, <4>2, QueueProperties
        <5>2. i - 1 \in 1 .. Len(uiq') /\ uiq'[i - 1] = uiq[i]
          BY <4>1, <4>2, <5>1, QueueProperties
        <5>. QED
          BY <4>2, <5>2
      <4>. QED
        BY <4>2
    <3>2. UNCHANGED <<need, rows, tasks, silent, lwork, busy, uwork>>
      BY <1>11, <2>2 DEF UiNotify
    <3>. HIDE DEF owed
    <3>. QED
      BY <1>3, <3>1, <3>2
  <2>. QED
    BY <2>1, <2>2
<1>12. CASE LocalDel \/ LocalListFails \/ LocalInform \/ LocalListEnd \/ Ack \/ AckInform
            \/ AckListEnd
  <2>1. need'
    BY <1>12
       DEF LocalDel, LocalListFails, LocalInform, LocalListEnd, Ack, AckInform, AckListEnd
  <2>. QED
    BY <2>1
<1>13. ~LocalNew
  <2>. SUFFICES ASSUME LocalNew PROVE FALSE
    OBVIOUS
  <2>1. FirstLocal \in LoudTasks /\ ~ForPeer(FirstLocal) /\ FirstLocal.kind = "New"
    BY <1>1, FirstProperties DEF LocalNew, LocalTask, LocalWaits, FirstLocal, Holds
  <2>. QED
    BY <2>1 DEF LoudTasks, ForPeer
<1>14. CASE LocalList \/ LocalAdd \/ LocalTimer
  <2>1. lwork'.pc \in {"adding", "timer"}
    BY <1>1, <1>5, <1>14 DEF LocalList, LocalAdd, LocalTimer, Holds, Works, Idle
  <2>. QED
    BY <2>1
<1>15. CASE LocalTimerPush
  <2>1. RefreshMsg \in Messages /\ RefreshMsg.cmd = "refresh"
    BY DEF RefreshMsg, Messages, Sides
  <2>2. Len(uiq) + 1 \in 1 .. Len(uiq')
    BY <1>15, <2>1, QueueProperties DEF LocalTimerPush
  <2>3. uiq'[Len(uiq) + 1] = RefreshMsg
    BY <1>15, <2>1, QueueProperties DEF LocalTimerPush
  <2>. QED
    BY <2>1, <2>2, <2>3
<1>16. CASE AckList
    BY <1>16 DEF AckList
<1>17. CASE AckAdd
    BY <1>17 DEF AckAdd, TypeOK
<1>18. CASE LocalIdle \/ RemoteLoop \/ AckGone \/ Serve \/ Lose \/ UNCHANGED vars
  <2>1. UNCHANGED <<need, rows, tasks, silent, lwork, busy, uwork, uiq>>
    BY <1>18
       DEF LocalIdle, RemoteLoop, AckGone, Serve, Lose, vars, localVars, remoteVars, uiVars
  <2>. QED
    BY <1>3, <2>1
<1>. HIDE DEF D
<1>. QED
    BY <1>6, <1>7, <1>8, <1>9, <1>10, <1>11, <1>12, <1>13, <1>14, <1>15, <1>16, <1>17, <1>18
       DEF Next, Ui, UiBusy, Local, Timer, Remote

\* A user who does not download sees the task list as it is, or will be told: every
\* handler that changes the list sets needNotifyUi_, and the timer clears it before
\* it posts the message that reads the list anew (FmScheduler::notifyUi, onTimer).
THEOREM RowsCatchUpAlways ==
    ASSUME NoDownloads
    PROVE  Spec => []RowsCatchUp
<1>1. Init => RowsInv
  <2>1. Idle \in Works(LoudTasks)
    BY DEF Idle, Works
  <2>. QED
    BY <2>1 DEF Init, RowsInv, Holds
<1>2. TypeOK /\ RowsInv /\ [Next]_vars => RowsInv'
    BY RowsNext, NoDownloads
<1>3. RowsInv => RowsCatchUp
    BY DEF RowsInv, RowsCatchUp, Idle
<1>. QED
    BY <1>1, <1>2, <1>3, TypeCorrect, PTL DEF Spec

-----------------------------------------------------------------------------
(* A user who deletes on this computer                                     *)

\* Such a user makes no other tasks.
LEMMA LocalDelClosed == LocalDeletes => Closed(LocalDelTasks)
<1>. SUFFICES ASSUME LocalDeletes PROVE Closed(LocalDelTasks)
    OBVIOUS
<1>. DEFINE del(t) == \/ t.after = "InformUi" \/ (t.side = "local" /\ t.kind = "Del")
                      \/ (t.side = "local" /\ t.after = "Del")
<1>1. \A t : t \in LocalDelTasks <=> t \in Tasks /\ del(t)
    BY DEF LocalDelTasks
<1>2. \A s, n, m : del(ListTask(s, n, "InformUi", m)) /\ del(ListTask("local", n, "Del", m))
    BY DEF ListTask, Task
<1>3. \A n : del(DelTask("local", n))
    BY DEF DelTask, Task
<1>4. \A t \in Tasks : del(t) => del([t EXCEPT !.ok = FALSE])
    BY DEF Tasks, PanelTasks, TaskSet
<1>5. \A t \in Tasks : t.kind = "Del" => t.after = "None"
    BY DEF Tasks, PanelTasks, TaskSet
<1>6. ASSUME NEW s \in From, NEW op \in Operations, NEW n \in Nodes
      PROVE  del(RowTask(s, op, n))
  <2>1. op = "Del" /\ s = "local"
    BY DEF LocalDeletes
  <2>. QED
    BY <1>2, <1>3, <2>1 DEF RowTask
<1>. HIDE DEF del
<1>7. \A s \in Sides : ListTask(s, Root, "InformUi", FALSE) \in LocalDelTasks
    BY <1>1, <1>2, TaskTypes
<1>8. \A t \in LocalDelTasks : [t EXCEPT !.ok = FALSE] \in LocalDelTasks
    BY <1>1, <1>4, TaskTypes
<1>9. \A t \in LocalDelTasks : t.after \in {"Del", "DownUp"} =>
         t.side = "local" /\ t.after = "Del" /\ t.side \in Sides
    BY <1>1, <1>5, ListedFolder DEF del
<1>10. ASSUME NEW t \in LocalDelTasks, t.after = "Del"
       PROVE  /\ \A n \in Folders : ListTask(t.side, n, "Del", FALSE) \in LocalDelTasks
              /\ \A n \in Nodes : DelTask(t.side, n) \in LocalDelTasks
    BY <1>1, <1>2, <1>3, <1>9, <1>10, TaskTypes
<1>11. \A t \in LocalDelTasks : t.after # "DownUp"
    BY <1>9
<1>12. \A s \in From, op \in Operations, n \in Nodes : RowTask(s, op, n) \in LocalDelTasks
    BY <1>1, <1>6, RowTaskType, TreeAssumption
<1>13. LocalDelTasks \subseteq Tasks
    BY <1>1
<1>. QED
    BY <1>7, <1>8, <1>10, <1>11, <1>12, <1>13, ClosedSuffices

\* What the tasks of such a user are.
LEMMA DelTaskKinds ==
    ASSUME NEW t \in LocalDelTasks
    PROVE  /\ t.kind = "Del" => t.side = "local" /\ t.after = "None"
           /\ t.kind # "Del" => t.kind = "List"
           /\ t.kind = "List" /\ t.after # "InformUi" => t.side = "local" /\ t.after = "Del"
           /\ t.kind = "List" /\ t.after = "Del" => t.node \in Folders
           /\ t.kind = "List" /\ t.after = "InformUi" => t.node = Root /\ t.move = FALSE
           /\ t.after = "InformUi" /\ t.ok => t = ListTask(t.side, Root, "InformUi", FALSE)
           /\ ForPeer(t) => t.after = "InformUi" /\ t.side = "peer"
           /\ t.after = "InformUi" => t.kind = "List"
           /\ t.side \in Sides /\ (~ForPeer(t) => t.side = "local")
<1>. t \in Tasks
    BY DEF LocalDelTasks
<1>1. t.after = "InformUi" => t \in PanelTasks
    BY DEF Tasks, TaskSet
<1>2. t.after = "InformUi" /\ t.ok => t = ListTask(t.side, Root, "InformUi", FALSE)
    BY <1>1 DEF PanelTasks, TaskSet, ListTask, Task
<1>. QED
    BY <1>2 DEF LocalDelTasks, Tasks, PanelTasks, TaskSet, ForPeer, Sides

-----------------------------------------------------------------------------
(* How tasks come to the list and leave it                                 *)

LEMMA KnownCleaned ==
    ASSUME TypeOK
    PROVE  \A x : /\ Known(Cleaned, x) => Known(tasks, x)
                  /\ Known(tasks, x) /\ x.ok => Known(Cleaned, x)
<1>. DEFINE W == {t \in ToSet(tasks) : ~t.ok} \ {}
<1>1. tasks \in Seq(Tasks) /\ Cleaned = EraseFirst(tasks, W)
    BY DEF TypeOK, Holds, Cleaned, CleanError
<1>2. \A x : x.ok => x \notin W
    OBVIOUS
<1>. HIDE DEF W
<1>. QED
    BY <1>1, <1>2, EraseProperties

\* fmscOnRefresh: the list is what it was, or it was empty and the panel listing
\* that waited is taken in.
LEMMA KnownRefresh ==
    ASSUME NEW ts, NEW slot, NEW n, OnRefresh(ts, slot, n),
           slot = <<>> \/ \E t \in Fresh(PanelTasks) : slot = <<t>>
    PROVE  /\ \A x : Known(ts, x) => Known(tasks', x)
           /\ \A x : Known(tasks', x) => Known(ts, x) \/ x \in Fresh(PanelTasks)
<1>1. CASE ts = <<>> /\ slot # <<>>
  <2>1. PICK t \in Fresh(PanelTasks) : slot = <<t>>
    BY <1>1
  <2>2. tasks' = <<t>>
    BY <1>1, <2>1 DEF OnRefresh
  <2>3. \A x : Known(<<t>>, x) => x = t
    BY DEF Known
  <2>. QED
    BY <1>1, <2>2, <2>3 DEF Known
<1>2. CASE ~(ts = <<>> /\ slot # <<>>)
    BY <1>2 DEF OnRefresh
<1>. QED
    BY <1>1, <1>2

LEMMA KnownMarked ==
    ASSUME TypeOK, NEW t \in Tasks, Known(tasks, t)
    PROVE  /\ \A x : Known(MarkFailed(t), x) => Known(tasks, x) \/ x = [t EXCEPT !.ok = FALSE]
           /\ \A x : Known(tasks, x) => Known(MarkFailed(t), x) \/ x = t
<1>. DEFINE f == [t EXCEPT !.ok = FALSE]
            m == MarkFailed(t)
<1>1. f \in Tasks /\ tasks \in Seq(Tasks)
    BY TaskTypes DEF TypeOK, Holds
<1>2. PICK k \in 1 .. Len(tasks) :
         /\ tasks[k] = t /\ Len(m) = Len(tasks) /\ m[k] = f
         /\ \A j \in 1 .. Len(tasks) : j # k => m[j] = tasks[j]
    BY <1>1, MarkProperties
<1>. HIDE DEF f, m
<1>3. ASSUME NEW x, Known(m, x) PROVE Known(tasks, x) \/ x = f
    BY <1>2, <1>3 DEF Known
<1>4. ASSUME NEW x, Known(tasks, x) PROVE Known(m, x) \/ x = t
    BY <1>2, <1>4 DEF Known
<1>. QED
    BY <1>3, <1>4 DEF f, m

\* The task that waits for the end of delFile or transfer is the listing of a panel.
LEMMA WaitingPanel ==
    ASSUME TypeOK
    PROVE  uwork.pc = "adding" => \E t \in Fresh(PanelTasks) : uwork.task = <<t>>
<1>1. uwork \in Works(Tasks) /\ uwork.task \in Seq(Fresh(PanelTasks))
    BY DEF TypeOK, Holds
<1>2. uwork.pc = "adding" => \E t \in Tasks : uwork.task = <<t>>
    BY <1>1 DEF Works
<1>3. uwork.pc = "adding" => /\ uwork.task = <<uwork.task[1]>>
                            /\ uwork.task[1] \in Fresh(PanelTasks)
    BY <1>1, <1>2
<1>. QED
    BY <1>3

LEMMA AddsUnderWay ==
    ASSUME TypeOK
    PROVE  /\ lwork.adds # <<>> => /\ NextAdd(lwork.adds) \in Fresh(Tasks)
                                   /\ InAdds(lwork.adds, NextAdd(lwork.adds))
                                   /\ lwork.pc = "adding"
           /\ uwork.adds # <<>> => /\ NextAdd(uwork.adds) \in Fresh(Tasks)
                                   /\ InAdds(uwork.adds, NextAdd(uwork.adds))
                                   /\ uwork.pc = "adding"
           /\ radds # <<>> => /\ NextAdd(radds) \in Fresh(Tasks)
                              /\ InAdds(radds, NextAdd(radds))
<1>1. /\ lwork.adds # <<>> => lwork.adds \in Seq(Batches(Tasks)) /\ lwork.pc = "adding"
      /\ uwork.adds # <<>> => uwork.adds \in Seq(Batches(Tasks)) /\ uwork.pc = "adding"
      /\ radds \in Seq(Batches(Tasks))
    BY DEF TypeOK, Holds, Works
<1>. QED
    BY <1>1, AddsProperties

\* A task that appears is a panel listing, one that was to be added, or one that
\* has just failed.
LEMMA TasksCome ==
    ASSUME TypeOK, [Next]_vars, NEW x, Known(tasks', x), ~Known(tasks, x)
    PROVE  \/ x \in Fresh(PanelTasks)
           \/ ToAdd(x) /\ x.ok
           \/ LocalDel /\ x = [FirstLocal EXCEPT !.ok = FALSE]
           \/ LocalListFails /\ x = [FirstLocal EXCEPT !.ok = FALSE]
           \/ Ack /\ ~net[1].ok /\ x = [net[1].task EXCEPT !.ok = FALSE]
<1>0. tasks \in Seq(Tasks) /\ Tasks \subseteq Tasks /\ Cleaned \in Seq(Tasks)
    BY EraseProperties DEF TypeOK, Holds, Cleaned, CleanError
<1>00. refresh = <<>> \/ \E t \in Fresh(PanelTasks) : refresh = <<t>>
    BY DEF TypeOK
<1>1. \A t \in Tasks : Known(Put(tasks, t), x) => x = t
    BY <1>0, PutProperties
<1>2. \A t : ~Known(RemoveTask(tasks, t), x)
    BY <1>0, EraseProperties DEF RemoveTask
<1>3. tasks' # tasks
    OBVIOUS
<1>4. ASSUME NEW s \in Sides, UiBrowse(s) PROVE x \in Fresh(PanelTasks)
  <2>. DEFINE l == ListTask(s, Root, "InformUi", FALSE)
  <2>1. l \in Fresh(PanelTasks)
    BY MadeOk DEF ListTask, Task, PanelTasks, TaskSet, Fresh
  <2>2. l \in Tasks
    BY TaskTypes
  <2>. HIDE DEF l
  <2>3. Known(Put(Cleaned, l), x) => Known(Cleaned, x) \/ x = l
    BY <1>0, <2>2, PutProperties
  <2>4. OnRefresh(Put(Cleaned, l), refresh, 1)
    BY <1>4 DEF UiBrowse, l
  <2>5. Known(Put(Cleaned, l), x) \/ x \in Fresh(PanelTasks)
    BY <1>00, <2>4, KnownRefresh
  <2>. QED
    BY <2>1, <2>3, <2>5, KnownCleaned
<1>5. ASSUME NEW s, NEW op, NEW sel, UiOperate(s, op, sel) PROVE FALSE
    BY <1>5, KnownCleaned DEF UiOperate
<1>6. CASE UiAdd
    BY <1>1, <1>6, AddsUnderWay DEF UiAdd, ToAdd, Fresh
<1>7. CASE UiOperateEnd
  <2>1. \E t \in Fresh(PanelTasks) : uwork.task = <<t>>
    BY <1>7, WaitingPanel DEF UiOperateEnd
  <2>. QED
    BY <1>7, <2>1, KnownRefresh DEF UiOperateEnd
<1>8. ~UiCancel
    BY KnownCleaned DEF UiCancel
<1>9. CASE UiNotify
    BY <1>00, <1>3, <1>9, KnownRefresh DEF UiNotify
<1>10. ~LocalIdle /\ ~LocalList /\ ~LocalTimer /\ ~LocalTimerPush /\ ~RemoteLoop
       /\ ~AckGone /\ ~AckListEnd /\ ~Serve /\ ~Lose /\ ~UNCHANGED vars
    BY <1>3
       DEF LocalIdle, LocalList, LocalTimer, LocalTimerPush, RemoteLoop, AckGone,
           AckListEnd, Serve, Lose, vars
<1>11. ~LocalNew /\ ~LocalInform /\ ~LocalListEnd /\ ~AckInform /\ ~AckList
    BY <1>2 DEF LocalNew, LocalInform, LocalListEnd, AckInform, AckList
<1>12. CASE LocalDel
  <2>1. FirstLocal \in Tasks /\ Known(tasks, FirstLocal)
    BY <1>12, TakenTask DEF LocalDel, LocalTask
  <2>2. tasks' = MarkFailed(FirstLocal)
    BY <1>2, <1>12 DEF LocalDel
  <2>. QED
    BY <1>12, <2>1, <2>2, KnownMarked
<1>13. CASE LocalListFails
  <2>1. FirstLocal \in Tasks /\ Known(tasks, FirstLocal)
    BY <1>13, TakenTask DEF LocalListFails, LocalTask
  <2>2. tasks' = MarkFailed(FirstLocal)
    BY <1>13 DEF LocalListFails
  <2>. QED
    BY <1>13, <2>1, <2>2, KnownMarked
<1>14. CASE LocalAdd
    BY <1>1, <1>14, AddsUnderWay DEF LocalAdd, ToAdd, Fresh
<1>15. CASE Ack
  <2>1. net[1].task \in Tasks /\ Known(tasks, net[1].task)
    BY <1>15, TakenTask DEF Ack, AckOne, Answered, Packets
  <2>2. ~net[1].ok /\ tasks' = MarkFailed(net[1].task)
    BY <1>2, <1>15 DEF Ack, AckOne
  <2>. QED
    BY <1>15, <2>1, <2>2, KnownMarked
<1>16. CASE AckAdd
    BY <1>1, <1>16, AddsUnderWay DEF AckAdd, ToAdd, Fresh
<1>. QED
    BY <1>4, <1>5, <1>6, <1>7, <1>8, <1>9, <1>10, <1>11, <1>12, <1>13, <1>14, <1>15, <1>16
       DEF Next, Ui, UiBusy, Local, Timer, Remote

\* A task that has not failed leaves the list when the engine that serves it says so.
LEMMA TasksStay ==
    ASSUME TypeOK, [Next]_vars, NEW x, Known(tasks, x), x.ok, ~Known(tasks', x)
    PROVE  \/ (LocalDel \/ LocalNew \/ LocalListFails \/ LocalInform) /\ x = FirstLocal
           \/ LocalListEnd /\ x = lwork.task[1]
           \/ (Ack \/ AckInform \/ AckList) /\ x = net[1].task
<1>0. tasks \in Seq(Tasks) /\ Tasks \subseteq Tasks /\ Cleaned \in Seq(Tasks)
    BY EraseProperties DEF TypeOK, Holds, Cleaned, CleanError
<1>00. refresh = <<>> \/ \E t \in Fresh(PanelTasks) : refresh = <<t>>
    BY DEF TypeOK
<1>1. \A t \in Tasks : tasks' # Put(tasks, t)
    BY <1>0, PutProperties
<1>2. \A t : Known(RemoveTask(tasks, t), x) \/ x = t
    BY <1>0, EraseProperties DEF RemoveTask
<1>3. tasks' # tasks /\ Known(Cleaned, x)
    BY KnownCleaned
<1>4. ASSUME NEW s \in Sides, UiBrowse(s) PROVE FALSE
  <2>. DEFINE l == ListTask(s, Root, "InformUi", FALSE)
  <2>2. l \in Tasks
    BY TaskTypes
  <2>. HIDE DEF l
  <2>3. Known(Put(Cleaned, l), x)
    BY <1>0, <1>3, <2>2, PutProperties
  <2>4. OnRefresh(Put(Cleaned, l), refresh, 1)
    BY <1>4 DEF UiBrowse, l
  <2>. QED
    BY <1>00, <2>3, <2>4, KnownRefresh
<1>5. ASSUME NEW s, NEW op, NEW sel, UiOperate(s, op, sel) PROVE FALSE
    BY <1>3, <1>5 DEF UiOperate
<1>6. ~UiAdd /\ ~LocalAdd /\ ~AckAdd
    BY <1>1, AddsUnderWay DEF UiAdd, LocalAdd, AckAdd, Fresh
<1>7. ~UiOperateEnd
    BY WaitingPanel, KnownRefresh DEF UiOperateEnd
<1>8. ~UiCancel
    BY <1>3 DEF UiCancel
<1>9. ~UiNotify
    BY <1>00, <1>3, KnownRefresh DEF UiNotify
<1>10. ~LocalIdle /\ ~LocalList /\ ~LocalTimer /\ ~LocalTimerPush /\ ~RemoteLoop
       /\ ~AckGone /\ ~AckListEnd /\ ~Serve /\ ~Lose /\ ~UNCHANGED vars
    BY <1>3
       DEF LocalIdle, LocalList, LocalTimer, LocalTimerPush, RemoteLoop, AckGone,
           AckListEnd, Serve, Lose, vars
<1>11. CASE LocalDel \/ LocalListFails
  <2>1. FirstLocal \in Tasks /\ Known(tasks, FirstLocal)
    BY <1>11, TakenTask DEF LocalDel, LocalListFails, LocalTask
  <2>2. tasks' = RemoveTask(tasks, FirstLocal) \/ tasks' = MarkFailed(FirstLocal)
    BY <1>11 DEF LocalDel, LocalListFails
  <2>. QED
    BY <1>2, <1>11, <2>1, <2>2, KnownMarked
<1>12. CASE LocalNew \/ LocalInform
    BY <1>2, <1>12 DEF LocalNew, LocalInform
<1>13. CASE LocalListEnd
    BY <1>2, <1>13 DEF LocalListEnd
<1>14. CASE Ack
  <2>1. net[1].task \in Tasks /\ Known(tasks, net[1].task)
    BY <1>14, TakenTask DEF Ack, AckOne, Answered, Packets
  <2>2. tasks' = RemoveTask(tasks, net[1].task) \/ tasks' = MarkFailed(net[1].task)
    BY <1>14 DEF Ack, AckOne
  <2>. QED
    BY <1>2, <1>14, <2>1, <2>2, KnownMarked
<1>15. CASE AckInform \/ AckList
    BY <1>2, <1>15 DEF AckInform, AckList
<1>. QED
    BY <1>4, <1>5, <1>6, <1>7, <1>8, <1>9, <1>10, <1>11, <1>12, <1>13, <1>14, <1>15
       DEF Next, Ui, UiBusy, Local, Timer, Remote

-----------------------------------------------------------------------------
(* Deletes on this computer, continued                                     *)

\* What cannot happen then, and what the engines take.
LEMMA DelSteps ==
    ASSUME TypeOK, DelTasksInv
    PROVE  /\ ~LocalNew /\ ~Ack /\ ~AckList /\ ~AckAdd /\ ~AckListEnd
           /\ LocalWaits => FirstLocal \in LocalDelTasks /\ Known(tasks, FirstLocal)
                            /\ ~ForPeer(FirstLocal)
           /\ LocalInform => FirstLocal = ListTask("local", Root, "InformUi", FALSE)
           /\ LocalListFails => FirstLocal.after = "Del" /\ FirstLocal.node \notin fs["local"]
           /\ LocalList => FirstLocal.after = "Del" /\ FirstLocal.ok
           /\ RemoteWaits => FirstRemote = ListTask("peer", Root, "InformUi", FALSE)
<1>1. tasks \in Seq(LocalDelTasks)
    BY DEF DelTasksInv, Holds
<1>2. LocalWaits => FirstLocal \in LocalDelTasks /\ Known(tasks, FirstLocal)
                    /\ ~ForPeer(FirstLocal)
    BY <1>1, FirstProperties DEF LocalWaits, FirstLocal
<1>3. RemoteWaits => FirstRemote \in LocalDelTasks /\ Known(tasks, FirstRemote)
                     /\ ForPeer(FirstRemote)
    BY <1>1, FirstProperties DEF RemoteWaits, FirstRemote
<1>4. \A t \in LocalDelTasks : t.after = "InformUi" /\ Known(tasks, t) =>
         t = ListTask(t.side, Root, "InformUi", FALSE)
  <2>. SUFFICES ASSUME NEW t \in LocalDelTasks, t.after = "InformUi", Known(tasks, t)
                PROVE  t = ListTask(t.side, Root, "InformUi", FALSE)
    OBVIOUS
  <2>1. t.kind = "List"
    BY DelTaskKinds
  <2>2. t.ok
    BY <2>1 DEF DelTasksInv
  <2>. QED
    BY <2>2, DelTaskKinds
<1>5. ~LocalNew
    BY <1>2, DelTaskKinds DEF LocalNew, LocalTask
<1>6. ~Ack /\ ~AckList
  <2>1. /\ ListTask("peer", Root, "InformUi", FALSE).kind = "List"
        /\ ListTask("peer", Root, "InformUi", FALSE).after = "InformUi"
    BY DEF ListTask, Task
  <2>2. ~Ack
    BY <2>1 DEF Ack, AckOne, Answered, DelTasksInv
  <2>3. ~AckList
    BY <2>1 DEF AckList, Answered, DelTasksInv
  <2>. QED
    BY <2>2, <2>3
<1>7. ~AckAdd /\ ~AckListEnd
    BY DEF AckAdd, AckListEnd, DelTasksInv, TypeOK
<1>8. LocalInform => FirstLocal = ListTask("local", Root, "InformUi", FALSE)
    BY <1>2, <1>4, DelTaskKinds DEF LocalInform, LocalTask
<1>9. LocalListFails => FirstLocal.after = "Del" /\ FirstLocal.node \notin fs["local"]
  <2>. SUFFICES ASSUME LocalListFails
                PROVE  FirstLocal.after = "Del" /\ FirstLocal.node \notin fs["local"]
    OBVIOUS
  <2>1. /\ FirstLocal \in LocalDelTasks /\ FirstLocal.kind = "List"
        /\ FirstLocal.node # Root /\ FirstLocal.node \notin fs["local"]
    BY <1>2 DEF LocalListFails, LocalTask, Exists
  <2>. QED
    BY <2>1, DelTaskKinds
<1>10. LocalList => FirstLocal.after = "Del" /\ FirstLocal.ok
  <2>. SUFFICES ASSUME LocalList PROVE FirstLocal.after = "Del" /\ FirstLocal.ok
    OBVIOUS
  <2>1. /\ FirstLocal \in LocalDelTasks /\ FirstLocal.kind = "List"
        /\ FirstLocal.after # "InformUi" /\ Exists("local", FirstLocal.node)
        /\ Known(tasks, FirstLocal)
    BY <1>2, Zenon DEF LocalList, LocalTask
  <2>2. FirstLocal.after = "Del" /\ FirstLocal.node \in Folders
    BY <2>1, DelTaskKinds
  <2>3. FirstLocal.node # Root
    BY <2>2, TreeAssumption DEF Nodes
  <2>. QED
    BY <2>1, <2>2, <2>3 DEF DelTasksInv, Exists
<1>11. RemoteWaits => FirstRemote = ListTask("peer", Root, "InformUi", FALSE)
    BY <1>3, <1>4, DelTaskKinds
<1>. QED
    BY <1>2, <1>5, <1>6, <1>7, <1>8, <1>9, <1>10, <1>11

LEMMA DelTasksNext ==
    ASSUME LocalDeletes, TypeOK, DelTasksInv, [Next]_vars
    PROVE  DelTasksInv'
<1>. DEFINE peer == ListTask("peer", Root, "InformUi", FALSE)
<1>0. peer.kind = "List" /\ peer.node = Root /\ peer.side = "peer" /\ peer.after = "InformUi"
    BY DEF ListTask, Task
<1>00. net # <<>> => /\ net[1].task = peer /\ net = <<net[1]>>
                     /\ net[1].at = "client" =>
                           net[1].ok /\ net[1].names = Children(Root, fs["peer"])
    BY TakenTask DEF DelTasksInv
<1>. HIDE DEF peer
<1>1. Holds(LocalDelTasks)'
    BY LocalDelClosed, HoldsNext DEF DelTasksInv
<1>2. fs'["local"] \subseteq fs["local"] /\ fs'["peer"] = fs["peer"]
  <2>1. CASE LocalDel
    BY <2>1 DEF LocalDel, Removed, TypeOK, Sides
  <2>2. CASE Serve
    BY <1>0, <1>00, <2>2 DEF Serve, ServeDel, ServeNew, ServeList, ServeFile
  <2>3. CASE UNCHANGED fs
    BY <2>3
  <2>4. ~LocalNew
    BY DelSteps
  <2>. QED
    BY <2>1, <2>2, <2>3, <2>4
       DEF Next, vars, Ui, UiBusy, UiBrowse, UiOperate, UiCancel, UiNotify, UiAdd,
           UiOperateEnd, Local, LocalIdle, LocalListFails, LocalInform, LocalList,
           LocalAdd, LocalListEnd, Timer, LocalTimer, LocalTimerPush, Remote, RemoteLoop,
           Ack, AckOne, AckGone, AckInform, AckList, AckAdd, AckListEnd, Lose
<1>3. ASSUME NEW t \in LocalDelTasks, Known(tasks', t)
      PROVE  t.ok \/ t.kind = "Del" \/ (t.after = "Del" /\ t.node \notin fs'["local"])
  <2>1. CASE Known(tasks, t)
    BY <1>2, <2>1 DEF DelTasksInv
  <2>2. CASE ~Known(tasks, t)
    <3>1. \/ t.ok
          \/ LocalDel /\ t = [FirstLocal EXCEPT !.ok = FALSE]
          \/ LocalListFails /\ t = [FirstLocal EXCEPT !.ok = FALSE]
      BY <1>3, <2>2, TasksCome, DelSteps DEF Fresh
    <3>2. LocalDel \/ LocalListFails => FirstLocal \in Tasks
      BY TakenTask DEF LocalDel, LocalListFails, LocalTask
    <3>3. \A u \in Tasks : /\ [u EXCEPT !.ok = FALSE].kind = u.kind
                           /\ [u EXCEPT !.ok = FALSE].after = u.after
                           /\ [u EXCEPT !.ok = FALSE].node = u.node
      BY DEF Tasks, PanelTasks, TaskSet
    <3>4. LocalDel => FirstLocal.kind = "Del"
      BY DEF LocalDel, LocalTask
    <3>5. CASE LocalDel /\ t = [FirstLocal EXCEPT !.ok = FALSE]
      BY <3>2, <3>3, <3>4, <3>5
    <3>6. CASE LocalListFails /\ t = [FirstLocal EXCEPT !.ok = FALSE]
      <4>1. FirstLocal.after = "Del" /\ FirstLocal.node \notin fs["local"]
        BY <3>6, DelSteps
      <4>2. t.after = "Del" /\ t.node = FirstLocal.node
        BY <3>2, <3>3, <3>6, <4>1
      <4>. QED
        BY <1>2, <4>1, <4>2
    <3>. QED
      BY <3>1, <3>5, <3>6
  <2>. QED
    BY <2>1, <2>2
<1>4. net' # <<>> =>
          /\ net'[1].task = peer
          /\ net'[1].at = "client" => net'[1].ok /\ net'[1].names = Children(Root, fs'["peer"])
  <2>1. CASE RemoteLoop
    <3>1. \/ UNCHANGED net
          \/ RemoteWaits /\ net' = <<[at |-> "server", task |-> FirstRemote, ok |-> TRUE,
                                    names |-> {}]>>
      BY <2>1 DEF RemoteLoop
    <3>2. RemoteWaits => FirstRemote = peer
      BY DelSteps DEF peer
    <3>. QED
      BY <1>00, <1>2, <3>1, <3>2
  <2>2. CASE Serve
    <3>1. net # <<>> /\ net[1].task = peer /\ UNCHANGED fs
      BY <1>0, <1>00, <2>2 DEF Serve, ServeDel, ServeNew, ServeList, ServeFile
    <3>2. ServeList(peer)
      BY <1>0, <2>2, <3>1 DEF Serve, ServeDel, ServeNew, ServeFile
    <3>3. net' = <<[at |-> "client", task |-> peer, ok |-> Exists("peer", peer.node),
                    names |-> Children(peer.node, fs["peer"])]>>
      BY <3>2 DEF ServeList, Answer
    <3>. QED
      BY <1>0, <3>1, <3>3 DEF Exists
  <2>3. CASE UNCHANGED net
    BY <1>00, <1>2, <2>3
  <2>4. CASE net' = <<>>
    BY <2>4
  <2>. QED
    BY <2>1, <2>2, <2>3, <2>4
       DEF Next, vars, Ui, UiBusy, UiBrowse, UiOperate, UiCancel, UiNotify, UiAdd,
           UiOperateEnd, Local, LocalIdle, LocalDel, LocalNew, LocalListFails, LocalInform,
           LocalList, LocalAdd, LocalListEnd, Timer, LocalTimer, LocalTimerPush, Remote,
           Ack, AckOne, AckGone, AckInform, AckList, AckAdd, AckListEnd, Answered, Lose,
           localVars, remoteVars
<1>5. lwork'.pc = "adding" => lwork'.task[1].ok /\ lwork'.task[1].after = "Del"
                              /\ Known(tasks', lwork'.task[1])
  <2>1. CASE LocalList
    <3>1. lwork'.task = <<FirstLocal>> /\ UNCHANGED tasks /\ LocalWaits
      BY <2>1 DEF LocalList, LocalTask
    <3>. QED
      BY <2>1, <3>1, DelSteps
  <2>2. CASE lwork'.pc = "adding" /\ lwork.pc = "adding" /\ lwork'.task = lwork.task
    <3>1. lwork.task[1].ok /\ lwork.task[1].after = "Del" /\ Known(tasks, lwork.task[1])
      BY <2>2 DEF DelTasksInv
    <3>2. ~LocalDel /\ ~LocalNew /\ ~LocalListFails /\ ~LocalInform
      BY <2>2
         DEF LocalDel, LocalNew, LocalListFails, LocalInform, LocalTask, LocalTakes, Idle
    <3>3. ~LocalListEnd
      BY <2>2 DEF LocalListEnd, Idle
    <3>4. ~AckInform \/ lwork.task[1] # net[1].task
      BY <1>0, <1>00, <3>1 DEF AckInform, Answered
    <3>. QED
      BY <2>2, <3>1, <3>2, <3>3, <3>4, TasksStay, DelSteps
  <2>3. CASE lwork'.pc # "adding"
    BY <2>3
  <2>4. LocalList \/ lwork'.pc # "adding" \/ (lwork.pc = "adding" /\ lwork'.task = lwork.task)
    <3>1. CASE LocalAdd
      BY <3>1, AddsUnderWay DEF LocalAdd, TypeOK, Holds, Works
    <3>2. CASE LocalListEnd \/ LocalTimer \/ LocalTimerPush
      BY <3>2 DEF LocalListEnd, LocalTimer, LocalTimerPush, Idle
    <3>3. CASE UNCHANGED lwork
      BY <3>3
    <3>. QED
      BY <3>1, <3>2, <3>3
         DEF Next, vars, Ui, UiBusy, UiBrowse, UiOperate, UiCancel, UiNotify, UiAdd,
             UiOperateEnd, Local, LocalIdle, LocalDel, LocalNew, LocalListFails,
             LocalInform, Timer, Remote, RemoteLoop, Ack, AckOne, AckGone,
             AckInform, AckList, AckAdd, AckListEnd, Serve, Lose, localVars
  <2>. QED
    BY <2>1, <2>2, <2>3, <2>4
<1>6. ~busy'
  <2>1. UNCHANGED busy \/ AckList \/ AckListEnd
    BY DEF Next, vars, Ui, UiBusy, UiBrowse, UiOperate, UiCancel, UiNotify, UiAdd,
           UiOperateEnd, Local, LocalIdle, LocalDel, LocalNew, LocalListFails, LocalInform,
           LocalList, LocalAdd, LocalListEnd, Timer, LocalTimer, LocalTimerPush, Remote,
           RemoteLoop, Ack, AckOne, AckGone, AckInform, AckAdd, Serve, Lose, remoteVars
  <2>. QED
    BY <2>1, DelSteps DEF DelTasksInv
<1>. QED
    BY <1>1, <1>3, <1>4, <1>5, <1>6 DEF DelTasksInv, peer

-----------------------------------------------------------------------------
(* The local engine is woken                                               *)

LEMMA ForPeerBool == \A t : ForPeer(t) \in BOOLEAN
BY DEF ForPeer

\* A place in the list is that of the local engine's first task.
LEMMA IsFirstLocal ==
    ASSUME NEW X, tasks \in Seq(X), LocalWaits, NEW m \in 1 .. Len(tasks),
           ~ForPeer(tasks[m]), \A j \in 1 .. m - 1 : ForPeer(tasks[j])
    PROVE  FirstLocal = tasks[m]
<1>. DEFINE W == Waiting(FALSE)
            k == Min(W)
<1>1. W = {i \in 1 .. Len(tasks) : ForPeer(tasks[i]) = FALSE}
    BY DEF LocalWaits, Waiting
<1>2. W \subseteq 1 .. Len(tasks) /\ Len(tasks) \in Nat /\ m \in W
  <2>. HIDE DEF W
  <2>. QED
    BY <1>1, ForPeerBool
<1>3. k \in W /\ k <= m
    BY <1>2, MinPos
<1>. HIDE DEF k
<1>4. k \in 1 .. Len(tasks) /\ ~ForPeer(tasks[k])
    BY <1>1, <1>3
<1>5. k = m
    BY <1>2, <1>3, <1>4
<1>. QED
    BY <1>5 DEF FirstLocal, k

\* When a task of the remote engine has been carried out, the local engine has the
\* same first task.
LEMMA FirstLocalStays ==
    ASSUME TypeOK, NEW t \in Tasks, t.ok, ForPeer(t), tasks' = RemoveTask(tasks, t),
           LocalWaits'
    PROVE  LocalWaits /\ FirstLocal' = FirstLocal
<1>1. tasks \in Seq(Tasks) /\ Len(tasks) \in Nat
    BY DEF TypeOK, Holds
<1>2. CASE tasks' = tasks
    BY <1>2 DEF LocalWaits, FirstLocal, Waiting
<1>3. CASE \E k \in 1 .. Len(tasks) : tasks[k] \in {t} /\ tasks' = RemoveAt(tasks, k)
  <2>1. PICK k \in 1 .. Len(tasks) : tasks[k] = t /\ tasks' = RemoveAt(tasks, k)
    BY <1>3
  <2>2. /\ tasks' \in Seq(Tasks) /\ Len(tasks') = Len(tasks) - 1
        /\ \A i \in 1 .. Len(tasks) - 1 :
              tasks'[i] = IF i < k THEN tasks[i] ELSE tasks[i + 1]
    BY <1>1, <2>1, RemoveAtProperties
  <2>. DEFINE W == Waiting(FALSE)'
              m == Min(W)
              n == IF m < k THEN m ELSE m + 1
  <2>3. /\ tasks' # <<>> /\ tasks'[1].ok /\ W # {}
        /\ W = {i \in 1 .. Len(tasks') : ForPeer(tasks'[i]) = FALSE}
    BY DEF LocalWaits, Waiting
  <2>4. W \subseteq 1 .. Len(tasks') /\ Len(tasks') \in Nat
    <3>. HIDE DEF W
    <3>. QED
      BY <1>1, <2>2, <2>3
  <2>5. m \in W /\ \A y \in W : m <= y
    BY <2>3, <2>4, MinPos
  <2>. HIDE DEF m
  <2>6. /\ m \in 1 .. Len(tasks') /\ ~ForPeer(tasks'[m])
        /\ \A j \in 1 .. m - 1 : ForPeer(tasks'[j])
    <3>1. m \in 1 .. Len(tasks') /\ ~ForPeer(tasks'[m])
      BY <2>3, <2>5
    <3>2. ASSUME NEW j \in 1 .. m - 1, ~ForPeer(tasks'[j]) PROVE FALSE
      <4>0. ForPeer(tasks'[j]) = FALSE /\ j \in 1 .. Len(tasks')
        BY <2>4, <3>1, <3>2, ForPeerBool
      <4>. HIDE DEF W
      <4>1. j \in W
        BY <2>3, <4>0
      <4>. QED
        BY <2>5, <3>1, <4>1
    <3>. QED
      BY <3>1, <3>2
  <2>. HIDE DEF W
  <2>7. n \in 1 .. Len(tasks) /\ tasks[n] = tasks'[m]
    BY <1>1, <2>1, <2>2, <2>6
  <2>8. \A j \in 1 .. n - 1 : ForPeer(tasks[j])
    <3>1. ASSUME NEW j \in 1 .. n - 1, j < k PROVE ForPeer(tasks[j])
      BY <1>1, <2>2, <2>6, <3>1
    <3>2. ASSUME NEW j \in 1 .. n - 1, j > k PROVE ForPeer(tasks[j])
      <4>1. j - 1 \in 1 .. m - 1 /\ ~(j - 1 < k) /\ j - 1 \in 1 .. Len(tasks) - 1
        BY <1>1, <2>2, <2>6, <3>2
      <4>2. tasks'[j - 1] = tasks[j]
        BY <2>2, <4>1
      <4>. QED
        BY <2>6, <4>1, <4>2
    <3>. QED
      BY <2>1, <2>6, <3>1, <3>2
  <2>9. tasks # <<>> /\ tasks[1].ok
    <3>1. CASE k = 1
      BY <2>1, <3>1
    <3>2. CASE k # 1
      BY <1>1, <2>1, <2>2, <2>3, <2>6, <3>2
    <3>. QED
      BY <3>1, <3>2
  <2>. HIDE DEF n
  <2>10. LocalWaits
    BY <2>6, <2>7, <2>9 DEF LocalWaits, Waiting
  <2>11. FirstLocal = tasks[n]
    BY <1>1, <2>6, <2>7, <2>8, <2>10, IsFirstLocal
  <2>12. FirstLocal' = tasks'[m]
    BY DEF FirstLocal, m, W
  <2>. QED
    BY <2>7, <2>10, <2>11, <2>12
<1>. QED
    BY <1>1, <1>2, <1>3, EraseFirstProperties DEF RemoveTask

\* A folder that cannot be listed stays the local engine's first task, failed.
LEMMA FirstLocalFails ==
    ASSUME TypeOK, LocalWaits, tasks' = MarkFailed(FirstLocal), LocalWaits'
    PROVE  ~FirstLocal'.ok
<1>1. tasks \in Seq(Tasks)
    BY DEF TypeOK, Holds
<1>. DEFINE f == [FirstLocal EXCEPT !.ok = FALSE]
            w == Min(Waiting(FALSE))
<1>2. /\ w \in 1 .. Len(tasks) /\ tasks[w] = FirstLocal /\ ~ForPeer(FirstLocal)
      /\ FirstLocal \in Tasks /\ Known(tasks, FirstLocal)
      /\ \A j \in 1 .. w - 1 : ForPeer(tasks[j])
    BY <1>1, FirstProperties, ForPeerBool DEF LocalWaits, FirstLocal
<1>. HIDE DEF w
<1>3. f \in Tasks /\ ~f.ok /\ ~ForPeer(f)
  <2>1. \A u \in Tasks : /\ ~[u EXCEPT !.ok = FALSE].ok
                         /\ ForPeer([u EXCEPT !.ok = FALSE]) => ForPeer(u)
    BY DEF Tasks, PanelTasks, TaskSet, ForPeer
  <2>. QED
    BY <1>2, <2>1, TaskTypes
<1>4. PICK k \in 1 .. Len(tasks) :
         /\ tasks[k] = FirstLocal /\ \A j \in 1 .. k - 1 : tasks[j] # FirstLocal
         /\ tasks' \in Seq(Tasks) /\ Len(tasks') = Len(tasks) /\ tasks'[k] = f
         /\ \A j \in 1 .. Len(tasks) : j # k => tasks'[j] = tasks[j]
    BY <1>1, <1>2, <1>3, MarkProperties
<1>. HIDE DEF f
<1>5. k = w
    BY <1>1, <1>2, <1>4
<1>6. /\ k \in 1 .. Len(tasks') /\ ~ForPeer(tasks'[k])
      /\ \A j \in 1 .. k - 1 : ForPeer(tasks'[j])
    BY <1>1, <1>2, <1>3, <1>4, <1>5
<1>7. FirstLocal' = tasks'[k]
  <2>. DEFINE W == Waiting(FALSE)'
              m == Min(W)
  <2>1. W = {i \in 1 .. Len(tasks') : ForPeer(tasks'[i]) = FALSE}
    BY DEF LocalWaits, Waiting
  <2>2. W \subseteq 1 .. Len(tasks') /\ Len(tasks') \in Nat /\ k \in W
    <3>. HIDE DEF W
    <3>. QED
      BY <1>4, <1>6, <2>1, ForPeerBool
  <2>3. m \in W /\ m <= k
    BY <2>2, MinPos
  <2>. HIDE DEF m
  <2>4. m \in 1 .. Len(tasks') /\ ~ForPeer(tasks'[m])
    BY <2>1, <2>3
  <2>5. m = k
    BY <1>6, <2>2, <2>3, <2>4
  <2>. QED
    BY <2>5 DEF FirstLocal, m, W
<1>. QED
    BY <1>3, <1>4, <1>7

LEMMA LocalAwakeNext ==
    ASSUME TypeOK, DelTasksInv, LocalAwake, [Next]_vars
    PROVE  LocalAwake'
<1>1. lloops \in Nat
    BY DEF TypeOK
<1>2. UNCHANGED tasks => /\ LocalWaits' <=> LocalWaits
                         /\ FirstLocal' = FirstLocal
    BY DEF LocalWaits, FirstLocal, Waiting
<1>3. /\ lwork.adds # <<>> => lwork.pc = "adding"
      /\ uwork.adds # <<>> => uwork.pc = "adding"
      /\ Idle.pc = "idle"
    BY AddsUnderWay DEF Idle
<1>4. ASSUME NEW s, UiBrowse(s) PROVE LocalAwake'
  <2>1. \E ts : OnRefresh(ts, refresh, 1)
    BY <1>4, Zenon DEF UiBrowse
  <2>2. lloops' > 0
    BY <2>1, RefreshWakes
  <2>. QED
    BY <2>2 DEF LocalAwake
<1>5. ASSUME NEW s, NEW op, NEW sel, UiOperate(s, op, sel) PROVE LocalAwake'
  <2>1. uwork'.pc = "adding"
    BY <1>5 DEF UiOperate
  <2>. QED
    BY <1>3, <2>1 DEF LocalAwake, Quiet
<1>6. CASE UiAdd
  <2>1. uwork'.pc = "adding"
    BY <1>3, <1>6 DEF UiAdd, TypeOK, Holds, Works
  <2>. QED
    BY <1>3, <2>1 DEF LocalAwake, Quiet
<1>7. CASE UiOperateEnd
  <2>1. lloops' > 0
    BY <1>7, RefreshWakes DEF UiOperateEnd
  <2>. QED
    BY <2>1 DEF LocalAwake
<1>8. CASE UiCancel
  <2>1. CASE Cleaned = tasks
    BY <1>2, <1>8, <2>1 DEF UiCancel, LocalAwake, Quiet, localVars, remoteVars
  <2>2. CASE Cleaned # tasks
    BY <1>8, <2>2 DEF UiCancel, LocalAwake, Quiet
  <2>. QED
    BY <2>1, <2>2
<1>9. CASE UiNotify
  <2>1. (tasks' = tasks /\ lloops' = lloops) \/ lloops' > 0
    BY <1>1, <1>9, RefreshWakes DEF UiNotify
  <2>. QED
    BY <1>2, <1>9, <2>1 DEF UiNotify, LocalAwake, Quiet
<1>10. CASE LocalIdle
    BY <1>2, <1>10 DEF LocalIdle, LocalAwake
<1>11. CASE LocalDel \/ LocalInform
  <2>1. lloops' = lloops /\ lloops > 0
    BY <1>11 DEF LocalDel, LocalInform, LocalTask, LocalTakes, localVars
  <2>. QED
    BY <2>1 DEF LocalAwake
<1>12. CASE LocalListFails
  <2>1. LocalWaits' => ~FirstLocal'.ok
    BY <1>12, FirstLocalFails DEF LocalListFails, LocalTask
  <2>. QED
    BY <2>1 DEF LocalAwake
<1>13. CASE LocalList
  <2>1. lwork'.pc = "adding"
    BY <1>13 DEF LocalList
  <2>. QED
    BY <2>1 DEF LocalAwake, Quiet
<1>14. CASE LocalAdd
  <2>1. lwork'.pc = "adding"
    BY <1>3, <1>14 DEF LocalAdd, TypeOK, Holds, Works
  <2>. QED
    BY <2>1 DEF LocalAwake, Quiet
<1>15. CASE LocalListEnd
  <2>1. lloops' > 0
    BY <1>1, <1>15 DEF LocalListEnd
  <2>. QED
    BY <2>1 DEF LocalAwake
<1>16. CASE LocalTimer \/ LocalTimerPush
  <2>1. lwork'.pc # "adding" /\ lwork.pc # "adding"
    BY <1>16 DEF LocalTimer, LocalTimerPush, Idle
  <2>. QED
    BY <1>2, <1>16, <2>1
       DEF LocalTimer, LocalTimerPush, LocalAwake, Quiet, remoteVars, uiVars
<1>17. CASE AckInform
  <2>. DEFINE t == net[1].task
  <2>1. t = ListTask("peer", Root, "InformUi", FALSE)
    BY <1>17 DEF AckInform, Answered, DelTasksInv
  <2>2. t \in Tasks /\ t.ok /\ ForPeer(t)
    BY <2>1, TaskTypes, MadeOk DEF Sides, ForPeer, ListTask, Task
  <2>3. tasks' = RemoveTask(tasks, t)
    BY <1>17 DEF AckInform
  <2>. HIDE DEF t
  <2>4. LocalWaits' => LocalWaits /\ FirstLocal' = FirstLocal
    BY <2>2, <2>3, FirstLocalStays
  <2>. QED
    BY <1>17, <2>4 DEF AckInform, LocalAwake, Quiet, localVars
<1>18. CASE RemoteLoop \/ AckGone \/ Serve \/ Lose \/ UNCHANGED vars
  <2>1. UNCHANGED <<tasks, lloops, lwork, busy, uwork, silent>>
    BY <1>18
       DEF RemoteLoop, AckGone, Serve, Lose, vars, localVars, remoteVars, uiVars
  <2>. QED
    BY <1>2, <2>1 DEF LocalAwake, Quiet
<1>. QED
    BY <1>4, <1>5, <1>6, <1>7, <1>8, <1>9, <1>10, <1>11, <1>12, <1>13, <1>14, <1>15,
       <1>16, <1>17, <1>18, DelSteps
       DEF Next, Ui, UiBusy, Local, Timer, Remote

LEMMA DelTasksInit == Init => DelTasksInv
<1>. SUFFICES ASSUME Init PROVE DelTasksInv
    OBVIOUS
<1>1. Idle \in Works(LocalDelTasks) /\ Idle.pc = "idle"
    BY DEF Idle, Works
<1>2. /\ tasks = <<>> /\ lwork = Idle /\ uwork = Idle /\ radds = <<>> /\ net = <<>>
      /\ busy = FALSE
    BY DEF Init
<1>3. Holds(LocalDelTasks)
    BY <1>1, <1>2 DEF Holds
<1>. QED
    BY <1>1, <1>2, <1>3 DEF DelTasksInv, Known

\* When the user deletes on this computer, no task waits for an engine that sleeps:
\* neither for the local one, which does not post USER_LOOP again after a listing
\* (FmLocal::onGetSubList), nor for the remote one.
THEOREM NobodySleepsAlways ==
    ASSUME LocalDeletes
    PROVE  Spec => []NobodySleeps
<1>1. Init => LocalAwake
    BY DEF Init, LocalAwake, LocalWaits, Waiting
<1>2. TypeOK /\ DelTasksInv /\ [Next]_vars => DelTasksInv'
    BY LocalDeletes, DelTasksNext
<1>3. TypeOK /\ DelTasksInv /\ LocalAwake /\ [Next]_vars => LocalAwake'
    BY LocalAwakeNext
<1>4. LocalAwake /\ RemoteAwake => NobodySleeps
    BY DEF NobodySleeps
<1>. QED
    BY <1>1, <1>2, <1>3, <1>4, DelTasksInit, TypeCorrect, RemoteStaysAwake, PTL DEF Spec

-----------------------------------------------------------------------------
(* What the panels show                                                    *)

\* Handling a message of the UI's queue changes nothing of what will be shown.
LEMMA ShowTail ==
    ASSUME TypeOK, uiq # <<>>, uiq' = Tail(uiq), NEW s \in Sides,
           shown'[s] = IF Head(uiq).cmd = "list" /\ Head(uiq).side = s
                       THEN Head(uiq).names ELSE shown[s]
    PROVE  WillShow(s)' = WillShow(s)
<1>. DEFINE L == Lists(s)
            K == Lists(s)'
            M == Max(L)
            N == Max(K)
<1>1. /\ Len(uiq) \in Nat /\ 1 \in 1 .. Len(uiq) /\ Head(uiq) = uiq[1]
      /\ Len(uiq') = Len(uiq) - 1
      /\ \A i \in 1 .. Len(uiq') : uiq'[i] = uiq[i + 1]
    BY QueueProperties
<1>2. \A i : i \in L <=> i \in 1 .. Len(uiq) /\ uiq[i].cmd = "list" /\ uiq[i].side = s
    BY DEF Lists
<1>3. \A i : i \in K <=> i \in 1 .. Len(uiq') /\ uiq'[i].cmd = "list" /\ uiq'[i].side = s
    BY DEF Lists
<1>4. WillShow(s) = IF L = {} THEN shown[s] ELSE uiq[M].names
    BY DEF WillShow
<1>5. WillShow(s)' = IF K = {} THEN shown'[s] ELSE uiq'[N].names
    BY DEF WillShow
<1>6. L # {} => M \in L /\ \A y \in L : M >= y
  <2>1. L \subseteq 1 .. Len(uiq)
    BY <1>2
  <2>. HIDE DEF L
  <2>. QED
    BY <1>1, <2>1, MaxPos
<1>7. K # {} => N \in K /\ \A y \in K : N >= y
  <2>1. K \subseteq 1 .. Len(uiq') /\ Len(uiq') \in Nat
    BY <1>1, <1>3
  <2>. HIDE DEF K
  <2>. QED
    BY <2>1, MaxPos
<1>. HIDE DEF L, K, M, N
<1>8. \A i \in K : i + 1 \in L
  <2>. SUFFICES ASSUME NEW i \in K PROVE i + 1 \in L
    OBVIOUS
  <2>1. i \in 1 .. Len(uiq') /\ uiq'[i] = uiq[i + 1]
    BY <1>1, <1>3
  <2>2. i + 1 \in 1 .. Len(uiq)
    BY <1>1, <2>1
  <2>. QED
    BY <1>2, <1>3, <2>1, <2>2
<1>9. \A i \in L : i # 1 => i - 1 \in K /\ uiq'[i - 1] = uiq[i]
  <2>. SUFFICES ASSUME NEW i \in L, i # 1 PROVE i - 1 \in K /\ uiq'[i - 1] = uiq[i]
    OBVIOUS
  <2>1. i \in 1 .. Len(uiq)
    BY <1>2
  <2>2. i - 1 \in 1 .. Len(uiq') /\ (i - 1) + 1 = i
    BY <1>1, <2>1
  <2>3. uiq'[i - 1] = uiq[i]
    BY <1>1, <2>2
  <2>. QED
    BY <1>2, <1>3, <2>2, <2>3
<1>10. 1 \in L <=> Head(uiq).cmd = "list" /\ Head(uiq).side = s
    BY <1>1, <1>2
<1>11. \A i \in L : i \in Nat
    BY <1>1, <1>2
<1>12. \A i \in K : i \in Nat /\ i >= 1
    BY <1>1, <1>3
<1>13. CASE L = {}
    BY <1>4, <1>5, <1>8, <1>10, <1>13
<1>14. CASE L # {} /\ M = 1
  <2>1. K = {}
    BY <1>6, <1>7, <1>8, <1>12, <1>14
  <2>. QED
    BY <1>1, <1>4, <1>5, <1>6, <1>10, <1>14, <2>1
<1>15. CASE L # {} /\ M # 1
  <2>1. M - 1 \in K /\ uiq'[M - 1] = uiq[M]
    BY <1>6, <1>9, <1>15
  <2>2. N \in K /\ N >= M - 1 /\ N + 1 <= M
    BY <1>6, <1>7, <1>8, <1>15, <2>1
  <2>3. N = M - 1
    BY <1>6, <1>11, <1>12, <1>15, <2>2
  <2>. QED
    BY <1>4, <1>5, <1>15, <2>1, <2>2, <2>3
<1>. QED
    BY <1>13, <1>14, <1>15

\* A listing that is posted is what will be shown.
LEMMA ShowAppend ==
    ASSUME TypeOK, UNCHANGED shown, NEW m \in Messages, uiq' = Append(uiq, m),
           NEW s \in Sides
    PROVE  WillShow(s)' = IF m.cmd = "list" /\ m.side = s THEN m.names ELSE WillShow(s)
<1>. DEFINE L == Lists(s)
            K == Lists(s)'
            M == Max(L)
            N == Max(K)
            n == Len(uiq)
<1>1. /\ n \in Nat /\ Len(uiq') = n + 1
      /\ \A i \in 1 .. n : uiq'[i] = uiq[i]
      /\ uiq'[n + 1] = m
    BY QueueProperties
<1>2. \A i : i \in L <=> i \in 1 .. n /\ uiq[i].cmd = "list" /\ uiq[i].side = s
    BY DEF Lists
<1>3. \A i : i \in K <=> i \in 1 .. n + 1 /\ uiq'[i].cmd = "list" /\ uiq'[i].side = s
    BY <1>1 DEF Lists
<1>4. WillShow(s) = IF L = {} THEN shown[s] ELSE uiq[M].names
    BY DEF WillShow
<1>5. WillShow(s)' = IF K = {} THEN shown[s] ELSE uiq'[N].names
    BY DEF WillShow
<1>6. L # {} => M \in L /\ \A y \in L : M >= y
  <2>1. L \subseteq 1 .. n
    BY <1>2
  <2>. HIDE DEF L, n
  <2>. QED
    BY <1>1, <2>1, MaxPos
<1>7. K # {} => N \in K /\ \A y \in K : N >= y
  <2>1. K \subseteq 1 .. n + 1 /\ n + 1 \in Nat
    BY <1>1, <1>3
  <2>. HIDE DEF K, n
  <2>. QED
    BY <2>1, MaxPos
<1>. HIDE DEF L, K, M, N, n
<1>8. CASE m.cmd = "list" /\ m.side = s
  <2>1. n + 1 \in K
    BY <1>1, <1>3, <1>8
  <2>2. N = n + 1
    BY <1>1, <1>3, <1>7, <2>1
  <2>. QED
    BY <1>1, <1>5, <1>8, <2>1, <2>2
<1>9. CASE ~(m.cmd = "list" /\ m.side = s)
  <2>1. \A i : i \in K <=> i \in L
    <3>1. ASSUME NEW i \in L PROVE i \in K
      BY <1>1, <1>2, <1>3
    <3>2. ASSUME NEW i \in K PROVE i \in L
      <4>1. i # n + 1
        BY <1>1, <1>3, <1>9
      <4>. QED
        BY <1>1, <1>2, <1>3, <4>1
    <3>. QED
      BY <3>1, <3>2
  <2>2. K = L
    BY <2>1
  <2>3. N = M
    BY <2>2 DEF N, M
  <2>. QED
    BY <1>1, <1>2, <1>4, <1>5, <1>6, <1>9, <2>2, <2>3
<1>. QED
    BY <1>8, <1>9

\* The steps that change what is shown, or will be.
LEMMA ShowNext ==
    ASSUME TypeOK, DelTasksInv, [Next]_vars, NEW s \in Sides
    PROVE  \/ WillShow(s)' = WillShow(s)
           \/ LocalInform /\ s = "local" /\ WillShow(s)' = Children(Root, fs["local"])
           \/ AckInform /\ s = "peer" /\ WillShow(s)' = Children(Root, fs["peer"])
<1>1. UNCHANGED <<uiq, shown>> => WillShow(s)' = WillShow(s)
    BY DEF WillShow, Lists
<1>2. CASE UiNotify
  <2>1. uiq # <<>> /\ uiq' = Tail(uiq) /\ Head(uiq) \in Messages
    BY <1>2 DEF UiNotify, TypeOK
  <2>2. shown'[s] = IF Head(uiq).cmd = "list" /\ Head(uiq).side = s
                    THEN Head(uiq).names ELSE shown[s]
    BY <1>2, <2>1 DEF UiNotify, TypeOK, Messages
  <2>. QED
    BY <2>1, <2>2, ShowTail
<1>3. CASE LocalTimerPush
  <2>1. RefreshMsg \in Messages /\ RefreshMsg.cmd # "list"
    BY DEF RefreshMsg, Messages, Sides
  <2>. QED
    BY <1>3, <2>1, ShowAppend DEF LocalTimerPush
<1>4. CASE LocalInform
  <2>. DEFINE m == [cmd |-> "list", side |-> "local", names |-> Children(Root, fs["local"])]
  <2>1. Children(Root, fs["local"]) \in SUBSET Nodes
    BY ChildrenType DEF Sides
  <2>2. m \in Messages /\ m.cmd = "list" /\ m.side = "local"
    BY <2>1 DEF Messages, Sides
  <2>3. uiq' = Append(uiq, m) /\ UNCHANGED shown
    BY <1>4 DEF LocalInform
  <2>4. m.names = Children(Root, fs["local"])
    OBVIOUS
  <2>. HIDE DEF m
  <2>. QED
    BY <1>4, <2>2, <2>3, <2>4, ShowAppend
<1>5. CASE AckInform
  <2>. DEFINE m == [cmd |-> "list", side |-> "peer", names |-> net[1].names]
  <2>1. net[1].names \in SUBSET Nodes
    BY <1>5, TakenTask DEF AckInform, Answered, Packets
  <2>2. m \in Messages /\ m.cmd = "list" /\ m.side = "peer"
    BY <2>1 DEF Messages, Sides
  <2>3. uiq' = Append(uiq, m) /\ UNCHANGED shown
    BY <1>5 DEF AckInform
  <2>4. m.names = Children(Root, fs["peer"])
    BY <1>5 DEF AckInform, Answered, DelTasksInv
  <2>. HIDE DEF m
  <2>. QED
    BY <1>5, <2>2, <2>3, <2>4, ShowAppend
<1>6. UNCHANGED <<uiq, shown>> \/ UiNotify \/ LocalTimerPush \/ LocalInform \/ AckInform
    BY DEF Next, vars, Ui, UiBusy, UiBrowse, UiOperate, UiCancel, UiAdd, UiOperateEnd,
           Local, LocalIdle, LocalDel, LocalNew, LocalListFails, LocalList, LocalAdd,
           LocalListEnd, Timer, LocalTimer, Remote, RemoteLoop, Ack, AckOne, AckGone,
           AckList, AckAdd, AckListEnd, Serve, Lose, uiVars
<1>. QED
    BY <1>1, <1>2, <1>3, <1>4, <1>5, <1>6

\* The steps that change the files on this computer, then: deletes.
LEMMA DelFs ==
    ASSUME TypeOK, DelTasksInv, [Next]_vars
    PROVE  /\ fs'["peer"] = fs["peer"]
           /\ fs'["local"] = fs["local"] \/ LocalDel
<1>1. CASE LocalDel
    BY <1>1 DEF LocalDel, Removed, TypeOK, Sides
<1>2. CASE Serve
  <2>1. net # <<>> /\ net[1].task = ListTask("peer", Root, "InformUi", FALSE)
    BY <1>2 DEF Serve, DelTasksInv
  <2>2. net[1].task.kind = "List"
    BY <2>1 DEF ListTask, Task
  <2>. QED
    BY <1>2, <2>2 DEF Serve, ServeDel, ServeNew, ServeList, ServeFile
<1>3. UNCHANGED fs \/ LocalDel \/ Serve
    BY DelSteps
       DEF Next, vars, Ui, UiBusy, UiBrowse, UiOperate, UiCancel, UiNotify, UiAdd,
           UiOperateEnd, Local, LocalIdle, LocalListFails, LocalInform, LocalList,
           LocalAdd, LocalListEnd, Timer, LocalTimer, LocalTimerPush, Remote, RemoteLoop,
           Ack, AckOne, AckGone, AckInform, AckList, AckAdd, AckListEnd, Lose
<1>. QED
    BY <1>1, <1>2, <1>3

\* The listing of this computer's panel is posted.
LEMMA InformShows ==
    ASSUME TypeOK, LocalInform
    PROVE  WillShow("local")' = Children(Root, fs["local"])
<1>. DEFINE m == [cmd |-> "list", side |-> "local", names |-> Children(Root, fs["local"])]
<1>1. Children(Root, fs["local"]) \in SUBSET Nodes
    BY ChildrenType DEF Sides
<1>2. m \in Messages /\ m.cmd = "list" /\ m.side = "local"
    BY <1>1 DEF Messages, Sides
<1>3. uiq' = Append(uiq, m) /\ UNCHANGED shown
    BY DEF LocalInform
<1>4. m.names = Children(Root, fs["local"])
    OBVIOUS
<1>. HIDE DEF m
<1>. QED
    BY <1>2, <1>3, <1>4, ShowAppend DEF Sides

\* Where the deletes under way come from.
LEMMA DeletingNext ==
    ASSUME LocalDeletes, TypeOK, DelTasksInv, [Next]_vars, Deleting'
    PROVE  /\ Deleting \/ uwork # Idle
           /\ \E t \in LocalDelTasks : Known(tasks', t) /\ t.after # "InformUi"
<1>1. DelTasksInv'
    BY DelTasksNext
<1>2. lwork'.pc = "adding" =>
         /\ lwork'.task[1] \in LocalDelTasks /\ lwork'.task[1].after # "InformUi"
         /\ Known(tasks', lwork'.task[1])
  <2>1. lwork' \in Works(LocalDelTasks)
    BY <1>1 DEF DelTasksInv, Holds
  <2>2. lwork'.pc = "adding" => lwork'.task[1] \in LocalDelTasks
    BY <2>1 DEF Works
  <2>. QED
    BY <1>1, <2>2 DEF DelTasksInv
<1>3. PICK t \in LocalDelTasks : Known(tasks', t) /\ t.after # "InformUi"
    BY <1>2 DEF Deleting
<1>4. CASE Known(tasks, t)
    BY <1>3, <1>4 DEF Deleting
<1>5. CASE ~Known(tasks, t)
  <2>1. t \notin Fresh(PanelTasks)
    BY <1>3 DEF Fresh, PanelTasks, TaskSet
  <2>2. CASE ToAdd(t)
    <3>1. lwork.adds # <<>> \/ radds # <<>> \/ uwork.adds # <<>>
      BY <2>2 DEF ToAdd, InAdds
    <3>2. ~(radds # <<>>)
      BY DEF TypeOK, DelTasksInv
    <3>. QED
      BY <1>3, <3>1, <3>2, AddsUnderWay DEF Deleting, Idle
  <2>3. CASE (LocalDel \/ LocalListFails) /\ t = [FirstLocal EXCEPT !.ok = FALSE]
    <3>1. FirstLocal \in LocalDelTasks /\ Known(tasks, FirstLocal)
      BY <2>3, DelSteps DEF LocalDel, LocalListFails, LocalTask
    <3>2. \A u \in Tasks : [u EXCEPT !.ok = FALSE].after = u.after
      BY DEF Tasks, PanelTasks, TaskSet
    <3>3. FirstLocal.after # "InformUi"
      BY <1>3, <2>3, <3>1, <3>2 DEF LocalDelTasks
    <3>. QED
      BY <1>3, <3>1, <3>3 DEF Deleting
  <2>. QED
    BY <1>3, <1>5, <2>1, <2>2, <2>3, TasksCome, DelSteps
<1>. QED
    BY <1>3, <1>4, <1>5

\* fmscOnRefresh with the listing of the panel that waits, or none.
LEMMA RefreshSlot ==
    ASSUME NEW l, NEW ts, NEW slot, NEW n, OnRefresh(ts, slot, n),
           slot = <<>> \/ slot = <<l>>
    PROVE  \/ tasks' = ts /\ refresh' = slot
           \/ ts = <<>> /\ slot = <<l>> /\ tasks' = <<l>> /\ refresh' = <<>>
BY DEF OnRefresh

LEMMA PanelNext ==
    ASSUME LocalDeletes, TypeOK, DelTasksInv, PanelInv, [Next]_vars
    PROVE  PanelInv'
<1>. DEFINE l == ListTask("local", Root, "InformUi", FALSE)
<1>0. /\ refresh = <<>> \/ refresh = <<l>>
      /\ uwork.task = <<>> \/ uwork.task = <<l>>
      /\ Idle.task = <<>>
    BY DEF PanelInv, Idle
<1>1. /\ l.side = "local" /\ l.after = "InformUi" /\ l.ok /\ l.kind = "List"
      /\ \A x : Known(<<l>>, x) <=> x = l
      /\ \A x : ~Known(<<>>, x)
  <2>1. l.side = "local" /\ l.after = "InformUi" /\ l.ok /\ l.kind = "List"
    BY DEF ListTask, Task
  <2>. HIDE DEF l
  <2>. QED
    BY <2>1 DEF Known
<1>2. l \in Tasks
    BY TaskTypes DEF Sides
<1>. HIDE DEF l
<1>3. uwork.pc = "adding" => uwork.task = <<l>>
    BY <1>0, WaitingPanel
<1>4. /\ Deleting => refresh # <<>> \/ uwork # Idle
      /\ Due("local") \/ WillShow("local") = Children(Root, fs["local"])
      /\ WillShow("peer") = Children(Root, fs["peer"])
    BY DEF PanelInv
<1>5. Due("local") <=> refresh # <<>> \/ uwork # Idle \/ Known(tasks, l)
    BY DEF Due, l
<1>6. Due("local")' <=> refresh' # <<>> \/ uwork' # Idle \/ Known(tasks', l)
    BY DEF Due, l
<1>7. WillShow("peer")' = Children(Root, fs'["peer"])
  <2>1. WillShow("peer")' = WillShow("peer") \/ WillShow("peer")' = Children(Root, fs["peer"])
    BY ShowNext DEF Sides
  <2>2. Children(Root, fs'["peer"]) = Children(Root, fs["peer"])
    BY DelFs
  <2>. QED
    BY <1>4, <2>1, <2>2
<1>8. Deleting' => /\ refresh # <<>> \/ uwork # Idle
                   /\ \E t : Known(tasks', t) /\ t # l
    BY <1>1, <1>4, DeletingNext
<1>. DEFINE G ==
         /\ refresh' = <<>> \/ refresh' = <<l>>
         /\ uwork'.task = <<>> \/ uwork'.task = <<l>>
         /\ Deleting' => refresh' # <<>> \/ uwork' # Idle
         /\ Due("local")' \/ WillShow("local")' = Children(Root, fs'["local"])
<1>9. SUFFICES G
    BY <1>7 DEF PanelInv, l
<1>10. CASE LocalInform
  <2>1. WillShow("local")' = Children(Root, fs'["local"])
    <3>1. UNCHANGED fs
      BY <1>10 DEF LocalInform
    <3>. QED
      BY <1>10, <3>1, InformShows
  <2>2. UNCHANGED <<refresh, uwork>>
    BY <1>10 DEF LocalInform
  <2>. QED
    BY <1>0, <1>8, <2>1, <2>2
<1>11. CASE LocalDel
  <2>1. UNCHANGED <<refresh, uwork>>
    BY <1>11 DEF LocalDel, uiVars
  <2>2. Deleting
    <3>1. /\ FirstLocal \in LocalDelTasks /\ FirstLocal.kind = "Del"
          /\ Known(tasks, FirstLocal)
      BY <1>11, DelSteps DEF LocalDel, LocalTask
    <3>2. FirstLocal.after # "InformUi"
      BY <3>1, DelTaskKinds
    <3>. QED
      BY <3>1, <3>2 DEF Deleting
  <2>. QED
    BY <1>0, <1>4, <1>6, <2>1, <2>2
<1>12. CASE ~LocalInform /\ ~LocalDel
  <2>1. Due("local") \/ WillShow("local")' = Children(Root, fs'["local"])
    <3>1. WillShow("local")' = WillShow("local")
      BY <1>12, ShowNext DEF Sides
    <3>2. Children(Root, fs'["local"]) = Children(Root, fs["local"])
      BY <1>12, DelFs
    <3>. QED
      BY <1>4, <3>1, <3>2
  <2>2. ASSUME UNCHANGED <<refresh, uwork>>, Known(tasks, l) => Known(tasks', l)
        PROVE  G
    BY <1>0, <1>5, <1>6, <1>8, <2>1, <2>2
  <2>3. ASSUME uwork'.pc = "adding", uwork'.task = <<l>>, UNCHANGED refresh
        PROVE  G
    <3>1. uwork' # Idle
      BY <2>3 DEF Idle
    <3>. QED
      BY <1>0, <1>6, <2>3, <3>1
  <2>4. ASSUME NEW s \in Sides, UiBrowse(s) PROVE G
    <3>. DEFINE p == ListTask(s, Root, "InformUi", FALSE)
    <3>1. p \in Tasks /\ Tasks \subseteq Tasks /\ Cleaned \in Seq(Tasks)
      BY TaskTypes, EraseProperties DEF TypeOK, Holds, Cleaned, CleanError
    <3>. HIDE DEF p
    <3>2. Put(Cleaned, p) # <<>> /\ \A x : Known(Cleaned, x) => Known(Put(Cleaned, p), x)
      BY <3>1, PutProperties
    <3>3. OnRefresh(Put(Cleaned, p), refresh, 1) /\ UNCHANGED uwork
      BY <2>4 DEF UiBrowse, p
    <3>4. tasks' = Put(Cleaned, p) /\ refresh' = refresh
      BY <3>2, <3>3 DEF OnRefresh
    <3>. QED
      BY <1>1, <2>2, <3>2, <3>3, <3>4, KnownCleaned
  <2>5. ASSUME NEW s \in From, NEW op \in Operations, NEW sel, UiOperate(s, op, sel)
        PROVE  G
    <3>1. s = "local" /\ op = "Del"
      BY DEF LocalDeletes
    <3>. QED
      BY <2>3, <2>5, <3>1 DEF UiOperate, l
  <2>6. CASE UiAdd
    <3>1. uwork'.pc = "adding" /\ uwork'.task = <<l>> /\ UNCHANGED refresh
      BY <1>3, <2>6, AddsUnderWay DEF UiAdd, TypeOK, Holds, Works
    <3>. QED
      BY <2>3, <3>1
  <2>7. CASE UiOperateEnd
    <3>1. uwork' = Idle /\ OnRefresh(tasks, <<l>>, 1)
      BY <1>3, <2>7 DEF UiOperateEnd
    <3>2. \/ tasks' = tasks /\ refresh' = <<l>>
          \/ tasks' = <<l>> /\ refresh' = <<>>
      BY <3>1 DEF OnRefresh
    <3>. QED
      BY <1>0, <1>1, <1>6, <1>8, <3>1, <3>2
  <2>8. CASE UiNotify
    <3>1. UNCHANGED uwork
      BY <2>8 DEF UiNotify
    <3>2. \/ tasks' = tasks /\ refresh' = refresh
          \/ tasks' = <<l>> /\ refresh' = <<>>
      BY <1>0, <2>8, RefreshSlot DEF UiNotify
    <3>. QED
      BY <1>0, <1>1, <1>6, <1>8, <2>2, <3>1, <3>2
  <2>9. CASE UiCancel
    BY <1>1, <2>2, <2>9, KnownCleaned DEF UiCancel
  <2>. HIDE DEF G
  <2>10. CASE Local \/ Timer \/ Remote \/ Serve \/ Lose \/ UNCHANGED vars
    <3>1. UNCHANGED <<refresh, uwork>>
      BY <2>10
         DEF vars, Local, LocalIdle, LocalDel, LocalNew, LocalListFails, LocalInform,
             LocalList, LocalAdd, LocalListEnd, Timer, LocalTimer, LocalTimerPush, Remote,
             RemoteLoop, Ack, AckOne, AckGone, AckInform, AckList, AckAdd, AckListEnd,
             Serve, Lose, uiVars
    <3>2. Known(tasks, l) => Known(tasks', l)
      <4>1. LocalListFails => FirstLocal # l
        BY <1>1, DelSteps
      <4>2. LocalListEnd => lwork.task[1] # l
        BY <1>1 DEF LocalListEnd, DelTasksInv
      <4>3. AckInform => net[1].task # l
        <5>1. ListTask("peer", Root, "InformUi", FALSE).side = "peer"
          BY DEF ListTask, Task
        <5>. QED
          BY <1>1, <5>1 DEF AckInform, Answered, DelTasksInv
      <4>. QED
        BY <1>1, <1>12, <4>1, <4>2, <4>3, TasksStay, DelSteps
    <3>. QED
      BY <2>2, <3>1, <3>2
  <2>. QED
    BY <2>4, <2>5, <2>6, <2>7, <2>8, <2>9, <2>10 DEF Next, Ui, UiBusy
<1>. QED
    BY <1>10, <1>11, <1>12

LEMMA PanelInit == Init => PanelInv
<1>. SUFFICES ASSUME Init PROVE PanelInv
    OBVIOUS
<1>1. /\ tasks = <<>> /\ refresh = <<>> /\ uwork = Idle /\ lwork = Idle /\ uiq = <<>>
      /\ shown = [s \in Sides |-> Children(Root, fs[s])]
    BY DEF Init
<1>2. \A s \in Sides : WillShow(s) = Children(Root, fs[s])
    BY <1>1 DEF WillShow, Lists
<1>3. ~Deleting
    BY <1>1 DEF Deleting, Known, Idle
<1>. QED
    BY <1>1, <1>2, <1>3 DEF PanelInv, Idle, Sides

\* When the user deletes on this computer and everything has come to rest, both
\* panels show what is there: the listing that waits in refreshSubListTask_ is
\* taken after the last task, not before (FileManSubDlg::fmscOnRefresh).
THEOREM FinalListingAlways ==
    ASSUME LocalDeletes
    PROVE  Spec => []FinalListing
<1>1. TypeOK /\ DelTasksInv /\ [Next]_vars => DelTasksInv'
    BY LocalDeletes, DelTasksNext
<1>2. TypeOK /\ DelTasksInv /\ PanelInv /\ [Next]_vars => PanelInv'
    BY LocalDeletes, PanelNext
<1>3. PanelInv => FinalListing
  <2>. SUFFICES ASSUME PanelInv, Settled, NEW s \in Sides
                PROVE  shown[s] = Children(Root, fs[s])
    BY DEF FinalListing
  <2>1. WillShow(s) = shown[s]
    BY DEF Settled, WillShow, Lists
  <2>2. ~Due("local")
    BY DEF Settled, Due, Known
  <2>. QED
    BY <2>1, <2>2 DEF PanelInv, Sides
<1>. QED
    BY <1>1, <1>2, <1>3, PanelInit, DelTasksInit, TypeCorrect, PTL DEF Spec


-----------------------------------------------------------------------------
(* One request at a time                                                   *)

LEMMA OneRequestNext == TypeOK /\ OneRequest /\ [Next]_vars => OneRequest'
<1>. SUFFICES ASSUME TypeOK, OneRequest, [Next]_vars PROVE OneRequest'
    OBVIOUS
<1>1. CASE RemoteLoop
    BY <1>1 DEF RemoteLoop, OneRequest
<1>2. CASE Serve
    BY <1>2 DEF Serve, OneRequest
<1>3. CASE Lose
    BY <1>3 DEF Lose, OneRequest
<1>4. CASE Ack \/ AckGone \/ AckInform \/ AckList
    BY <1>4 DEF Ack, AckOne, AckGone, AckInform, AckList, Answered, OneRequest
<1>5. CASE AckListEnd
    BY <1>5 DEF AckListEnd, OneRequest
<1>6. CASE UNCHANGED <<net, canSend, busy>>
    BY <1>6 DEF OneRequest
<1>. QED
    BY <1>1, <1>2, <1>3, <1>4, <1>5, <1>6
       DEF Next, vars, Ui, UiBusy, UiBrowse, UiOperate, UiCancel, UiNotify, UiAdd,
           UiOperateEnd, Local, LocalIdle, LocalDel, LocalNew, LocalListFails, LocalInform,
           LocalList, LocalAdd, LocalListEnd, Timer, LocalTimer, LocalTimerPush, Remote,
           AckAdd, remoteVars

\* The remote engine has one request out at a time, and sends none while it works on
\* the answer to a listing (FileManClient::onUserLoop, canSend_).
THEOREM OneRequestAtATime == Spec => []OneRequest
<1>1. Init => OneRequest
    BY DEF Init, OneRequest
<1>. QED
    BY <1>1, OneRequestNext, TypeCorrect, PTL DEF Spec

-----------------------------------------------------------------------------
(* A user who copies                                                       *)

\* Such a user makes no task that removes.
LEMMA CopyClosed == Copies => Closed(CopyTasks)
<1>. SUFFICES ASSUME Copies PROVE Closed(CopyTasks)
    OBVIOUS
<1>. DEFINE copy(t) == t.kind # "Del" /\ t.after # "Del" /\ ~t.move
<1>1. \A t : t \in CopyTasks <=> t \in Tasks /\ copy(t)
    BY DEF CopyTasks
<1>2. \A s, n : copy(ListTask(s, n, "InformUi", FALSE)) /\ copy(ListTask(s, n, "DownUp", FALSE))
    BY DEF ListTask, Task
<1>3. \A s, n : copy(NewTask(s, n)) /\ copy(FileTask(s, n, FALSE))
    BY DEF NewTask, FileTask, Task
<1>4. \A t \in Tasks : copy(t) => copy([t EXCEPT !.ok = FALSE])
    BY DEF Tasks, PanelTasks, TaskSet
<1>5. ASSUME NEW s \in From, NEW op \in Operations, NEW n \in Nodes
      PROVE  copy(RowTask(s, op, n))
  <2>1. op = "Copy"
    BY DEF Copies
  <2>. QED
    BY <1>2, <1>3, <2>1 DEF RowTask
<1>6. \A t \in CopyTasks : t.after # "Del" /\ t.move = FALSE
    BY DEF CopyTasks, Tasks, PanelTasks, TaskSet
<1>. HIDE DEF copy
<1>7. \A s \in Sides : ListTask(s, Root, "InformUi", FALSE) \in CopyTasks
    BY <1>1, <1>2, TaskTypes
<1>8. \A t \in CopyTasks : [t EXCEPT !.ok = FALSE] \in CopyTasks
    BY <1>1, <1>4, TaskTypes
<1>9. ASSUME NEW t \in CopyTasks, t.after = "DownUp"
      PROVE  /\ \A n \in Folders : /\ NewTask(Other(t.side), n) \in CopyTasks
                                   /\ ListTask(t.side, n, "DownUp", t.move) \in CopyTasks
             /\ \A n \in Files : FileTask(t.side, n, t.move) \in CopyTasks
             /\ ~t.move
  <2>1. t.side \in Sides /\ Other(t.side) \in Sides
    BY <1>1, <1>9, ListedFolder, OtherSide
  <2>. QED
    BY <1>1, <1>2, <1>3, <1>6, <2>1, TaskTypes
<1>10. \A s \in From, op \in Operations, n \in Nodes : RowTask(s, op, n) \in CopyTasks
    BY <1>1, <1>5, RowTaskType, TreeAssumption
<1>11. CopyTasks \subseteq Tasks
    BY <1>1
<1>. QED
    BY <1>6, <1>7, <1>8, <1>9, <1>10, <1>11, ClosedSuffices

\* What the tasks of such a user are.
LEMMA CopyTaskKinds ==
    ASSUME NEW t \in CopyTasks
    PROVE  /\ t.side \in Sides /\ t.move = FALSE /\ t \in Tasks
           /\ t.kind \in {"List", "New", "File"}
           /\ t.kind = "List" => \/ t.after = "InformUi" /\ t.node = Root
                                 \/ t.after = "DownUp" /\ t.node \in Folders
           /\ t.kind = "New" => t.after = "None" /\ t.node \in Folders
           /\ t.kind = "File" => t.after = "None" /\ t.node \in Files
BY DEF CopyTasks, Tasks, PanelTasks, TaskSet

\* What the engines take, and what cannot happen.
LEMMA CopySteps ==
    ASSUME TypeOK, CopyTasksInv
    PROVE  /\ \A t : Known(tasks, t) => t \in CopyTasks /\ t.ok /\ Readable(t)
           /\ LocalWaits => Known(tasks, FirstLocal) /\ FirstLocal.side = "local"
                            /\ FirstLocal.kind # "File"
           /\ RemoteWaits => Known(tasks, FirstRemote) /\ ForPeer(FirstRemote)
           /\ net # <<>> => /\ net = <<net[1]>> /\ net[1] \in Packets(CopyTasks)
                            /\ NetInv(net[1])
           /\ ~LocalDel /\ ~LocalListFails
           /\ Ack => net[1].ok /\ net[1].task.kind \in {"New", "File"}
<1>1. tasks \in Seq(CopyTasks)
    BY DEF CopyTasksInv, Holds
<1>2. \A t : Known(tasks, t) => t \in CopyTasks /\ t.ok /\ Readable(t)
    BY <1>1 DEF Known, CopyTasksInv
<1>3. LocalWaits => Known(tasks, FirstLocal) /\ ~ForPeer(FirstLocal)
    BY <1>1, FirstProperties DEF LocalWaits, FirstLocal
<1>4. RemoteWaits => Known(tasks, FirstRemote) /\ ForPeer(FirstRemote)
    BY <1>1, FirstProperties, ForPeerBool DEF RemoteWaits, FirstRemote
<1>5. LocalWaits => FirstLocal.side = "local" /\ FirstLocal.kind # "File"
    BY <1>2, <1>3, CopyTaskKinds DEF ForPeer, Sides
<1>6. net # <<>> => net = <<net[1]>> /\ net[1] \in Packets(CopyTasks) /\ NetInv(net[1])
  <2>. SUFFICES ASSUME net # <<>>
                PROVE  net = <<net[1]>> /\ net[1] \in Packets(CopyTasks) /\ NetInv(net[1])
    OBVIOUS
  <2>1. PICK m \in Packets(CopyTasks) : net = <<m>>
    BY DEF CopyTasksInv, Holds
  <2>. HIDE DEF Packets, NetInv
  <2>2. 1 \in 1 .. Len(net) /\ net[1] = m
    BY <2>1
  <2>3. NetInv(net[1])
    BY <2>2 DEF CopyTasksInv
  <2>. QED
    BY <2>1, <2>2, <2>3
<1>7. ~LocalDel
    BY <1>2, <1>3, CopyTaskKinds DEF LocalDel, LocalTask
<1>8. ~LocalListFails
    BY <1>2, <1>3, <1>5 DEF LocalListFails, LocalTask, Readable
<1>9. Ack => net[1].ok /\ net[1].task.kind \in {"New", "File"}
  <2>. SUFFICES ASSUME Ack PROVE net[1].ok /\ net[1].task.kind \in {"New", "File"}
    OBVIOUS
  <2>1. /\ net # <<>> /\ net[1].at = "client" /\ Known(tasks, net[1].task)
        /\ net[1].task.kind = "List" => ~net[1].ok
    BY DEF Ack, AckOne, Answered
  <2>2. net[1].ok
    BY <1>6, <2>1 DEF NetInv
  <2>. QED
    BY <1>2, <2>1, <2>2, CopyTaskKinds
<1>. QED
    BY <1>2, <1>3, <1>4, <1>5, <1>6, <1>7, <1>8, <1>9

\* Nothing is removed.
LEMMA CopyFs ==
    ASSUME TypeOK, CopyTasksInv, [Next]_vars
    PROVE  \A s \in Sides : fs[s] \subseteq fs'[s]
<1>1. fs \in [Sides -> SUBSET Nodes]
    BY DEF TypeOK
<1>2. \A s, r \in Sides : \A n : /\ fs[r] \subseteq Made(s, n)[r]
                                /\ n \in Made(s, n)[s]
    BY <1>1 DEF Made
<1>3. "local" \in Sides /\ "peer" \in Sides /\ \A s \in Sides : Other(s) \in Sides
    BY OtherSide DEF Sides
<1>4. CASE LocalNew
    BY <1>2, <1>3, <1>4 DEF LocalNew
<1>5. CASE Serve
  <2>1. net[1].task \in CopyTasks
    BY <1>5, CopySteps DEF Serve, Packets
  <2>2. net[1].task.kind # "Del" /\ net[1].task.side \in Sides
    BY <2>1, CopyTaskKinds
  <2>3. CASE ServeNew(net[1].task)
    BY <1>2, <1>3, <2>3 DEF ServeNew
  <2>4. CASE ServeList(net[1].task)
    BY <2>4 DEF ServeList
  <2>5. CASE ServeFile(net[1].task)
    BY <1>2, <1>3, <2>2, <2>5 DEF ServeFile
  <2>. QED
    BY <1>5, <2>2, <2>3, <2>4, <2>5 DEF Serve, ServeDel
<1>6. CASE UNCHANGED fs
    BY <1>6
<1>7. UNCHANGED fs \/ LocalNew \/ Serve
    BY CopySteps
       DEF Next, vars, Ui, UiBusy, UiBrowse, UiOperate, UiCancel, UiNotify, UiAdd,
           UiOperateEnd, Local, LocalIdle, LocalInform, LocalList,
           LocalAdd, LocalListEnd, Timer, LocalTimer, LocalTimerPush, Remote, RemoteLoop,
           Ack, AckOne, AckGone, AckInform, AckList, AckAdd, AckListEnd, Lose
<1>. QED
    BY <1>4, <1>5, <1>6, <1>7

\* One add leaves the later ones.
LEMMA LaterLeft ==
    ASSUME TypeOK
    PROVE  /\ UiAdd => uwork'.adds = LaterAdds(uwork.adds)
           /\ LocalAdd => lwork'.adds = LaterAdds(lwork.adds)
BY DEF UiAdd, LocalAdd, TypeOK, Holds, Works

\* Tasks to add come from the rows the user has selected and from listings.
LEMMA AddsCome ==
    ASSUME TypeOK, [Next]_vars, NEW x, ToAdd(x)', ~ToAdd(x)
    PROVE  \/ \E s \in From, op \in Operations : \E n \in shown[s] : x = RowTask(s, op, n)
           \/ LocalList /\ \E order \in SetToSeqs(Children(FirstLocal.node, fs["local"])) :
                              InAdds(Dispatch(FirstLocal, order), x)
           \/ AckList /\ \E order \in SetToSeqs(net[1].names) :
                            InAdds(Dispatch(net[1].task, order), x)
<1>1. /\ lwork.adds # <<>> => lwork.adds \in Seq(Batches(Tasks))
      /\ uwork.adds # <<>> => uwork.adds \in Seq(Batches(Tasks))
      /\ radds \in Seq(Batches(Tasks))
    BY DEF TypeOK, Holds, Works
<1>2. ~InAdds(<<>>, x)
    BY DEF InAdds
<1>3. ASSUME NEW s \in From, NEW op \in Operations, NEW sel \in SUBSET shown[s],
             NEW order \in SetToSeqs(sel), UiOperate(s, op, order)
      PROVE  \E n \in shown[s] : x = RowTask(s, op, n)
  <2>. DEFINE adds == [i \in 1 .. Len(order) |-> <<RowTask(s, op, order[i])>>]
  <2>1. uwork'.adds = adds /\ UNCHANGED <<lwork, radds>>
    BY <1>3 DEF UiOperate, localVars, remoteVars
  <2>2. order \in Seq(sel) /\ Len(order) \in Nat
    <3>1. s \in Sides
      BY TreeAssumption
    <3>2. IsFiniteSet(sel)
      BY <3>1, TreeAssumption, FS_Subset DEF TypeOK
    <3>. QED
      BY <3>2, OrderProperties
  <2>3. Len(adds) = Len(order)
    BY <2>2
  <2>4. InAdds(adds, x)
    BY <2>1 DEF ToAdd
  <2>5. PICK i \in 1 .. Len(order) : \E j \in 1 .. Len(adds[i]) : adds[i][j] = x
    BY <2>3, <2>4 DEF InAdds
  <2>6. adds[i] = <<RowTask(s, op, order[i])>> /\ order[i] \in shown[s]
    BY <2>2
  <2>. HIDE DEF adds, RowTask
  <2>. QED
    BY <2>5, <2>6
<1>4. ~UiAdd
    BY <1>1, LaterLeft, AddsProperties DEF UiAdd, ToAdd, localVars, remoteVars
<1>5. ~LocalAdd
    BY <1>1, LaterLeft, AddsProperties DEF LocalAdd, ToAdd, uiVars, remoteVars
<1>6. ~AckAdd
    BY <1>1, AddsProperties DEF AckAdd, ToAdd, localVars, uiVars
<1>7. ~UiOperateEnd /\ ~LocalListEnd /\ ~LocalTimer /\ ~LocalTimerPush
    BY <1>2 DEF UiOperateEnd, LocalListEnd, LocalTimer, LocalTimerPush, Idle, ToAdd,
                remoteVars, uiVars
<1>8. ASSUME LocalList
      PROVE  \E order \in SetToSeqs(Children(FirstLocal.node, fs["local"])) :
                InAdds(Dispatch(FirstLocal, order), x)
  <2>1. PICK order \in SetToSeqs(Children(FirstLocal.node, fs["local"])) :
           lwork' = [pc |-> "adding", task |-> <<FirstLocal>>,
                     adds |-> Dispatch(FirstLocal, order)]
    BY <1>8, Zenon DEF LocalList
  <2>2. lwork'.adds = Dispatch(FirstLocal, order)
    BY <2>1
  <2>3. UNCHANGED <<uwork, radds>>
    BY <1>8 DEF LocalList, remoteVars, uiVars
  <2>. QED
    BY <2>2, <2>3 DEF ToAdd
<1>9. ASSUME AckList
      PROVE  \E order \in SetToSeqs(net[1].names) : InAdds(Dispatch(net[1].task, order), x)
    BY <1>9 DEF AckList, ToAdd, localVars, uiVars
<1>10. ~UNCHANGED <<lwork, radds, uwork>>
    BY DEF ToAdd
<1>. QED
    BY <1>3, <1>4, <1>5, <1>6, <1>7, <1>8, <1>9, <1>10
       DEF Next, vars, Ui, UiBusy, UiBrowse, UiCancel, UiNotify, Local, LocalIdle,
           LocalDel, LocalNew, LocalListFails, LocalInform, Timer, Remote, RemoteLoop,
           Ack, AckOne, AckGone, AckInform, AckListEnd, Serve, Lose, localVars,
           remoteVars, uiVars

\* A task to add is added, or is still to be added.
LEMMA AddsStay ==
    ASSUME TypeOK, OneRequest, [Next]_vars, NEW x, ToAdd(x), ~ToAdd(x)'
    PROVE  Known(tasks', x)
<1>1. /\ lwork.adds # <<>> => lwork.adds \in Seq(Batches(Tasks))
      /\ uwork.adds # <<>> => uwork.adds \in Seq(Batches(Tasks))
      /\ radds \in Seq(Batches(Tasks)) /\ (radds # <<>> => busy)
      /\ tasks \in Seq(Tasks)
    BY DEF TypeOK, Holds, Works
<1>2. ~InAdds(<<>>, x) /\ Idle.adds = <<>>
    BY DEF InAdds, Idle
<1>3. \A t \in Fresh(Tasks) : Known(Put(tasks, t), t)
    BY <1>1, PutProperties DEF Fresh
<1>4. CASE UiAdd
  <2>1. x = NextAdd(uwork.adds)
    BY <1>1, LaterLeft, <1>4, AddsProperties DEF UiAdd, ToAdd, localVars, remoteVars
  <2>. QED
    BY <1>3, <1>4, <2>1, AddsUnderWay DEF UiAdd
<1>5. CASE LocalAdd
  <2>1. x = NextAdd(lwork.adds)
    BY <1>1, LaterLeft, <1>5, AddsProperties DEF LocalAdd, ToAdd, uiVars, remoteVars
  <2>. QED
    BY <1>3, <1>5, <2>1, AddsUnderWay DEF LocalAdd
<1>6. CASE AckAdd
  <2>1. x = NextAdd(radds)
    BY <1>1, <1>6, AddsProperties DEF AckAdd, ToAdd, localVars, uiVars
  <2>. QED
    BY <1>3, <1>6, <2>1, AddsUnderWay DEF AckAdd
<1>7. ~LocalList /\ ~LocalListEnd /\ ~LocalTimer /\ ~LocalTimerPush
  <2>1. ~LocalList
    BY <1>2 DEF LocalList, LocalTask, LocalTakes, ToAdd, remoteVars, uiVars
  <2>2. ~LocalListEnd
    BY <1>2 DEF LocalListEnd, ToAdd, uiVars
  <2>3. ~LocalTimer
    BY <1>2 DEF LocalTimer, ToAdd, remoteVars, uiVars
  <2>4. ~LocalTimerPush
    <3>1. lwork.pc = "timer" => lwork.adds = <<>>
      BY DEF TypeOK, Holds, Works
    <3>. QED
      BY <1>2, <3>1 DEF LocalTimerPush, ToAdd, remoteVars
  <2>. QED
    BY <2>1, <2>2, <2>3, <2>4
<1>8. ASSUME NEW s, NEW op, NEW order, UiOperate(s, op, order) PROVE FALSE
    BY <1>2, <1>8 DEF UiOperate, ToAdd, localVars, remoteVars
<1>9. ~UiOperateEnd
    BY <1>2 DEF UiOperateEnd, ToAdd
<1>10. ~AckList
    BY <1>1, <1>2 DEF AckList, Answered, OneRequest, ToAdd, localVars, uiVars
<1>11. ~UNCHANGED <<lwork, radds, uwork>>
    BY DEF ToAdd
<1>. QED
    BY <1>4, <1>5, <1>6, <1>7, <1>8, <1>9, <1>10, <1>11
       DEF Next, vars, Ui, UiBusy, UiBrowse, UiCancel, UiNotify, Local, LocalIdle,
           LocalDel, LocalNew, LocalListFails, LocalInform, Timer, Remote, RemoteLoop,
           Ack, AckOne, AckGone, AckInform, AckListEnd, Serve, Lose, localVars,
           remoteVars, uiVars

\* What can be read stays readable.
LEMMA ReadableStays ==
    ASSUME TypeOK, CopyTasksInv, [Next]_vars, NEW t, t.side \in Sides, Readable(t)
    PROVE  Readable(t)'
BY CopyFs DEF Readable, Exists

\* The panels and the messages for them name what is there.
LEMMA CopyShown ==
    ASSUME TypeOK, CopyTasksInv, [Next]_vars
    PROVE  /\ \A s \in Sides : Start[s] \subseteq fs'[s] /\ shown'[s] \subseteq fs'[s]
           /\ \A i \in 1 .. Len(uiq') : uiq'[i].names \subseteq fs'[uiq'[i].side]
<1>1. \A s \in Sides : Start[s] \subseteq fs[s] /\ shown[s] \subseteq fs[s]
    BY DEF CopyTasksInv
<1>2. \A s \in Sides : fs[s] \subseteq fs'[s]
    BY CopyFs
<1>3. /\ uiq \in Seq(Messages) /\ Len(uiq) \in Nat
      /\ shown \in [Sides -> SUBSET Nodes]
    BY DEF TypeOK
<1>4. \A i \in 1 .. Len(uiq) : uiq[i].side \in Sides
  <2>1. \A m \in Messages : m.side \in Sides
    BY DEF Messages
  <2>2. \A i \in 1 .. Len(uiq) : uiq[i] \in Messages
    BY <1>3
  <2>. QED
    BY <2>1, <2>2
<1>5. \A i \in 1 .. Len(uiq) : uiq[i].names \subseteq fs'[uiq[i].side]
    BY <1>2, <1>4 DEF CopyTasksInv
<1>6. ASSUME NEW m \in Messages, m.names \subseteq fs'[m.side], uiq' = Append(uiq, m)
      PROVE  \A i \in 1 .. Len(uiq') : uiq'[i].names \subseteq fs'[uiq'[i].side]
  <2>1. /\ Len(uiq') = Len(uiq) + 1
        /\ \A i \in 1 .. Len(uiq) : uiq'[i] = uiq[i]
        /\ uiq'[Len(uiq) + 1] = m
    BY <1>6, QueueProperties
  <2>. QED
    BY <1>3, <1>5, <1>6, <2>1
<1>7. \A i \in 1 .. Len(uiq') : uiq'[i].names \subseteq fs'[uiq'[i].side]
  <2>1. CASE UiNotify
    <3>1. uiq # <<>> /\ uiq' = Tail(uiq)
      BY <2>1 DEF UiNotify
    <3>2. Len(uiq') = Len(uiq) - 1 /\ \A i \in 1 .. Len(uiq') : uiq'[i] = uiq[i + 1]
      BY <3>1, QueueProperties
    <3>. QED
      BY <1>3, <1>5, <3>2
  <2>2. CASE LocalInform
    <3>. DEFINE m == [cmd |-> "list", side |-> "local",
                      names |-> Children(Root, fs["local"])]
    <3>1. Children(Root, fs["local"]) \in SUBSET Nodes
      BY ChildrenType DEF Sides
    <3>2. m \in Messages /\ m.side = "local" /\ m.names \subseteq fs["local"]
      BY <3>1 DEF Messages, Sides, Children
    <3>3. uiq' = Append(uiq, m)
      BY <2>2 DEF LocalInform
    <3>. HIDE DEF m
    <3>. QED
      BY <1>2, <1>6, <3>2, <3>3 DEF Sides
  <2>3. CASE AckInform
    <3>. DEFINE m == [cmd |-> "list", side |-> "peer", names |-> net[1].names]
    <3>1. /\ net # <<>> /\ net[1].at = "client" /\ net[1].task.kind = "List"
          /\ net[1] \in Packets(CopyTasks) /\ NetInv(net[1])
      BY <2>3, CopySteps DEF AckInform, Answered
    <3>2. m \in Messages /\ m.side = "peer" /\ m.names \subseteq fs["peer"]
      BY <3>1 DEF Messages, Sides, Packets, NetInv
    <3>3. uiq' = Append(uiq, m)
      BY <2>3 DEF AckInform
    <3>. HIDE DEF m
    <3>. QED
      BY <1>2, <1>6, <3>2, <3>3 DEF Sides
  <2>4. CASE LocalTimerPush
    <3>1. RefreshMsg \in Messages /\ RefreshMsg.names = {}
      BY DEF RefreshMsg, Messages, Sides
    <3>. QED
      BY <1>6, <2>4, <3>1 DEF LocalTimerPush
  <2>5. CASE UNCHANGED uiq
    BY <1>5, <2>5
  <2>6. UNCHANGED uiq \/ UiNotify \/ LocalInform \/ AckInform \/ LocalTimerPush
    BY DEF Next, vars, Ui, UiBusy, UiBrowse, UiOperate, UiCancel, UiAdd, UiOperateEnd,
           Local, LocalIdle, LocalDel, LocalNew, LocalListFails, LocalList, LocalAdd,
           LocalListEnd, Timer, LocalTimer, Remote, RemoteLoop, Ack, AckOne, AckGone,
           AckList, AckAdd, AckListEnd, Serve, Lose, uiVars
  <2>. QED
    BY <2>1, <2>2, <2>3, <2>4, <2>5, <2>6
<1>8. \A s \in Sides : shown'[s] \subseteq fs'[s]
  <2>1. CASE UiNotify
    <3>1. /\ uiq # <<>> /\ Head(uiq) = uiq[1] /\ 1 \in 1 .. Len(uiq)
          /\ \/ UNCHANGED shown
             \/ shown' = [shown EXCEPT ![Head(uiq).side] = Head(uiq).names]
      BY <2>1, QueueProperties DEF UiNotify
    <3>. QED
      BY <1>1, <1>2, <1>3, <1>4, <1>5, <3>1
  <2>2. CASE UNCHANGED shown
    BY <1>1, <1>2, <2>2
  <2>3. UNCHANGED shown \/ UiNotify
    BY DEF Next, vars, Ui, UiBusy, UiBrowse, UiOperate, UiCancel, UiAdd, UiOperateEnd,
           Local, LocalIdle, LocalDel, LocalNew, LocalListFails, LocalInform, LocalList,
           LocalAdd, LocalListEnd, Timer, LocalTimer, LocalTimerPush, Remote, RemoteLoop,
           Ack, AckOne, AckGone, AckInform, AckList, AckAdd, AckListEnd, Serve, Lose, uiVars
  <2>. QED
    BY <2>1, <2>2, <2>3
<1>. QED
    BY <1>1, <1>2, <1>7, <1>8

\* What listing a folder to copy makes.
LEMMA CopyDispatch ==
    ASSUME NEW u \in CopyTasks, u.after = "DownUp"
    PROVE  /\ FolderTasks(u) = <<NewTask(Other(u.side), u.node)>>
           /\ \A n \in Folders :
                 EntryTasks(u, n) = <<NewTask(Other(u.side), n),
                                      ListTask(u.side, n, "DownUp", u.move)>>
           /\ \A n \in Files : EntryTasks(u, n) = <<FileTask(u.side, n, u.move)>>
<1>1. ~u.move
    BY CopyTaskKinds
<1>2. FolderTasks(u) = <<>> \o <<NewTask(Other(u.side), u.node)>>
    BY <1>1 DEF FolderTasks
<1>3. \A x : <<>> \o <<x>> = <<x>>
    OBVIOUS
<1>. QED
    BY <1>2, <1>3, TreeAssumption DEF EntryTasks

\* What is to be added can be read: an entry that was listed, a row on the screen.
LEMMA CopyAdds ==
    ASSUME Copies, TypeOK, OneRequest, CopyTasksInv, [Next]_vars,
           NEW t \in CopyTasks, ToAdd(t)'
    PROVE  t.ok /\ Readable(t)
<1>1. CASE ToAdd(t)
    BY <1>1 DEF CopyTasksInv
<1>2. ASSUME NEW s \in From, NEW op \in Operations, NEW n \in shown[s],
             t = RowTask(s, op, n)
      PROVE  t.ok /\ Readable(t)
  <2>1. op = "Copy" /\ s \in Sides /\ n \in fs[s]
    BY TreeAssumption DEF Copies, CopyTasksInv
  <2>2. t = ListTask(s, n, "DownUp", FALSE) \/ t = FileTask(s, n, FALSE)
    BY <1>2, <2>1 DEF RowTask
  <2>3. t.side = s /\ t.node = n /\ t.ok
    BY <2>2 DEF ListTask, FileTask, Task
  <2>. QED
    BY <2>1, <2>3 DEF Readable, Exists
<1>3. ASSUME NEW u \in CopyTasks, u.after = "DownUp",
             NEW S \in SUBSET Nodes, S \subseteq fs[u.side],
             NEW order \in SetToSeqs(S), InAdds(Dispatch(u, order), t)
      PROVE  t.ok /\ Readable(t)
  <2>1. \/ \E n \in S : \E j \in 1 .. Len(EntryTasks(u, n)) : t = EntryTasks(u, n)[j]
        \/ \E j \in 1 .. Len(FolderTasks(u)) : t = FolderTasks(u)[j]
    BY <1>3, CopyClosed, DispatchProperties
  <2>2. CASE \E j \in 1 .. Len(FolderTasks(u)) : t = FolderTasks(u)[j]
    <3>1. t = NewTask(Other(u.side), u.node)
      BY <1>3, <2>2, CopyDispatch
    <3>. QED
      BY <3>1 DEF NewTask, Task, Readable
  <2>3. ASSUME NEW n \in S, NEW j \in 1 .. Len(EntryTasks(u, n)), t = EntryTasks(u, n)[j]
        PROVE  t.ok /\ Readable(t)
    <3>1. \/ t = ListTask(u.side, n, "DownUp", u.move)
          \/ t = NewTask(Other(u.side), n)
          \/ t = FileTask(u.side, n, u.move)
      BY <1>3, <2>3, CopyDispatch DEF Nodes
    <3>2. t.ok /\ (t.kind = "New" \/ (t.side = u.side /\ t.node = n))
      BY <3>1 DEF ListTask, NewTask, FileTask, Task
    <3>. QED
      BY <1>3, <3>2 DEF Readable, Exists
  <2>. QED
    BY <2>1, <2>2, <2>3
<1>4. ASSUME LocalList,
             NEW order \in SetToSeqs(Children(FirstLocal.node, fs["local"])),
             InAdds(Dispatch(FirstLocal, order), t)
      PROVE  t.ok /\ Readable(t)
  <2>1. FirstLocal \in CopyTasks /\ FirstLocal.side = "local" /\ FirstLocal.after = "DownUp"
    BY <1>4, CopySteps, CopyTaskKinds, Zenon DEF LocalList, LocalTask
  <2>2. /\ Children(FirstLocal.node, fs["local"]) \in SUBSET Nodes
        /\ Children(FirstLocal.node, fs["local"]) \subseteq fs["local"]
    BY ChildrenType DEF Sides, Children
  <2>. QED
    BY <1>3, <1>4, <2>1, <2>2
<1>5. ASSUME AckList, NEW order \in SetToSeqs(net[1].names),
             InAdds(Dispatch(net[1].task, order), t)
      PROVE  t.ok /\ Readable(t)
  <2>1. /\ net # <<>> /\ net[1].at = "client" /\ net[1].task.kind = "List"
        /\ net[1].task.after # "InformUi"
        /\ net[1] \in Packets(CopyTasks) /\ NetInv(net[1])
    BY <1>5, CopySteps, Zenon DEF AckList, Answered
  <2>2. net[1].task \in CopyTasks /\ net[1].names \in SUBSET Nodes
    BY <2>1 DEF Packets
  <2>3. net[1].task.side = "peer" /\ net[1].task.after = "DownUp"
    BY <2>1, <2>2, CopyTaskKinds DEF NetInv, ForPeer
  <2>4. net[1].names \subseteq fs["peer"]
    BY <2>1 DEF NetInv
  <2>. QED
    BY <1>3, <1>5, <2>2, <2>3, <2>4
<1>. QED
    BY <1>1, <1>2, <1>4, <1>5, AddsCome

\* What the request or the answer on its way says stays true.
LEMMA CopyNet ==
    ASSUME TypeOK, CopyTasksInv, [Next]_vars
    PROVE  net' = <<>> \/ \E m : net' = <<m>> /\ NetInv(m)'
<1>1. net # <<>> => net = <<net[1]>> /\ net[1] \in Packets(CopyTasks) /\ NetInv(net[1])
    BY CopySteps
<1>2. \A s \in Sides : fs[s] \subseteq fs'[s] /\ Start[s] \subseteq fs[s]
    BY CopyFs DEF CopyTasksInv
<1>3. "peer" \in Sides /\ \A s \in Sides : Other(s) \in Sides
    BY OtherSide DEF Sides
<1>4. \A t \in CopyTasks : t.side \in Sides
    BY CopyTaskKinds
<1>5. \A t \in CopyTasks : Readable(t) => Readable(t)'
    BY <1>4, ReadableStays
<1>6. ASSUME net # <<>>, UNCHANGED net PROVE NetInv(net[1])'
  <2>1. net[1].task \in CopyTasks
    BY <1>1, <1>6 DEF Packets
  <2>2. NetInv(net[1]) /\ Readable(net[1].task)'
    BY <1>1, <1>5, <1>6, <2>1 DEF NetInv
  <2>3. net[1].task.side \in Sides /\ Other(net[1].task.side) \in Sides
    BY <1>3, <1>4, <2>1
  <2>. QED
    BY <1>2, <1>3, <1>6, <2>2, <2>3 DEF NetInv
<1>7. CASE RemoteLoop
  <2>. DEFINE m == [at |-> "server", task |-> FirstRemote, ok |-> TRUE, names |-> {}]
  <2>1. CASE RemoteWaits /\ net' = <<m>>
    <3>1. /\ FirstRemote \in CopyTasks /\ FirstRemote.ok /\ Readable(FirstRemote)
          /\ ForPeer(FirstRemote)
      BY <2>1, CopySteps
    <3>2. UNCHANGED <<fs, tasks>>
      BY <1>7 DEF RemoteLoop
    <3>3. m.at = "server" /\ m.task = FirstRemote
      OBVIOUS
    <3>4. UNCHANGED FirstRemote
      BY <3>2 DEF FirstRemote, Waiting
    <3>. HIDE DEF m
    <3>5. PICK x : x = FirstRemote
      OBVIOUS
    <3>6. PICK y : y = m
      OBVIOUS
    <3>7. NetInv(y)'
      BY <3>1, <3>2, <3>3, <3>5, <3>6 DEF NetInv, Readable, Exists
    <3>. QED
      BY <2>1, <3>6, <3>7
  <2>2. CASE UNCHANGED net
    BY <1>1, <1>6, <2>2
  <2>. QED
    BY <1>7, <2>1, <2>2 DEF RemoteLoop
<1>8. CASE Serve
  <2>1. PICK t \in CopyTasks : t = net[1].task /\ t.ok /\ ForPeer(t) /\ Readable(t)
    BY <1>1, <1>8 DEF Serve, Packets, NetInv
  <2>2. ServeNew(t) \/ ServeList(t) \/ ServeFile(t)
    BY <1>8, <2>1, CopyTaskKinds DEF Serve, ServeDel
  <2>3. t.side \in Sides /\ Other(t.side) \in Sides /\ Readable(t)'
    BY <1>3, <1>4, <1>5, <2>1
  <2>4. ASSUME NEW ok, NEW names, Answer(t, ok, names), ok,
               t.kind = "New" => t.node \in fs'["peer"],
               t.kind = "File" => t.node \in fs'[Other(t.side)],
               t.kind = "List" => Children(t.node, Start["peer"]) \subseteq names
                                  /\ names \subseteq fs'["peer"]
        PROVE  \E m : net' = <<m>> /\ NetInv(m)'
    <3>. DEFINE m == [at |-> "client", task |-> t, ok |-> ok, names |-> names]
    <3>1. net' = <<m>>
      BY <2>4 DEF Answer
    <3>2. m.task = t /\ m.ok = ok /\ m.names = names
      OBVIOUS
    <3>. HIDE DEF m
    <3>3. NetInv(m)'
      BY <2>1, <2>3, <2>4, <3>2 DEF NetInv
    <3>. QED
      BY <3>1, <3>3
  <2>5. fs \in [Sides -> SUBSET Nodes]
    BY DEF TypeOK
  <2>6. CASE ServeNew(t)
    <3>1. t.kind = "New" /\ t.node \in fs'["peer"] /\ Answer(t, TRUE, {})
      BY <1>3, <2>5, <2>6 DEF ServeNew, Made
    <3>. QED
      BY <2>4, <3>1
  <2>7. CASE ServeList(t)
    <3>1. /\ t.kind = "List" /\ UNCHANGED fs
          /\ Answer(t, Exists("peer", t.node), Children(t.node, fs["peer"]))
      BY <2>7 DEF ServeList
    <3>2. Exists("peer", t.node)
      BY <2>1, <3>1 DEF Readable, ForPeer
    <3>3. /\ Children(t.node, Start["peer"]) \subseteq Children(t.node, fs["peer"])
          /\ Children(t.node, fs["peer"]) \subseteq fs["peer"]
      BY <1>2, <1>3 DEF Children
    <3>. QED
      BY <2>4, <3>1, <3>2, <3>3
  <2>8. CASE ServeFile(t)
    <3>1. Exists(t.side, t.node) /\ t.kind = "File"
      BY <2>1, <2>8 DEF ServeFile, Readable
    <3>2. t.node \in fs'[Other(t.side)] /\ Answer(t, TRUE, {})
      BY <2>3, <2>5, <2>8, <3>1 DEF ServeFile, Made
    <3>. QED
      BY <2>4, <3>1, <3>2
  <2>. QED
    BY <2>2, <2>6, <2>7, <2>8
<1>9. CASE UNCHANGED net
    BY <1>1, <1>6, <1>9
<1>10. net' = <<>> \/ UNCHANGED net \/ RemoteLoop \/ Serve
    BY DEF Next, vars, Ui, UiBusy, UiBrowse, UiOperate, UiCancel, UiNotify, UiAdd,
           UiOperateEnd, Local, LocalIdle, LocalDel, LocalNew, LocalListFails, LocalInform,
           LocalList, LocalAdd, LocalListEnd, Timer, LocalTimer, LocalTimerPush, Remote,
           Ack, AckOne, AckGone, AckInform, AckList, AckAdd, AckListEnd, Answered, Lose,
           remoteVars
<1>. QED
    BY <1>7, <1>8, <1>9, <1>10

\* The task that is listed stays the same until its listing has been handled.
LEMMA CopyWork ==
    ASSUME TypeOK, [Next]_vars
    PROVE  LocalList \/ lwork'.pc # "adding" \/ (lwork.pc = "adding" /\ lwork'.task = lwork.task)
<1>1. CASE LocalAdd
    BY <1>1, AddsUnderWay DEF LocalAdd, TypeOK, Holds, Works
<1>2. CASE LocalListEnd \/ LocalTimer \/ LocalTimerPush
    BY <1>2 DEF LocalListEnd, LocalTimer, LocalTimerPush, Idle
<1>3. CASE UNCHANGED lwork
    BY <1>3
<1>. QED
    BY <1>1, <1>2, <1>3
       DEF Next, vars, Ui, UiBusy, UiBrowse, UiOperate, UiCancel, UiNotify, UiAdd,
           UiOperateEnd, Local, LocalIdle, LocalDel, LocalNew, LocalListFails,
           LocalInform, Timer, Remote, RemoteLoop, Ack, AckOne, AckGone,
           AckInform, AckList, AckAdd, AckListEnd, Serve, Lose, localVars

LEMMA CopyTasksNext ==
    ASSUME Copies, TypeOK, OneRequest, CopyTasksInv, [Next]_vars
    PROVE  CopyTasksInv'
<1>1. Holds(CopyTasks)' /\ OneRequest'
    BY CopyClosed, HoldsNext, OneRequestNext DEF CopyTasksInv
<1>2. lwork'.pc = "adding" => lwork'.task[1].kind = "List" /\ lwork'.task[1].side = "local"
  <2>1. CASE LocalList
    <3>1. /\ lwork'.task = <<FirstLocal>> /\ FirstLocal.kind = "List" /\ LocalWaits
      BY <2>1 DEF LocalList, LocalTask
    <3>. QED
      BY <3>1, CopySteps
  <2>2. CASE lwork.pc = "adding" /\ lwork'.task = lwork.task
    BY <2>2 DEF CopyTasksInv
  <2>3. LocalList \/ lwork'.pc # "adding" \/ (lwork.pc = "adding" /\ lwork'.task = lwork.task)
    BY CopyWork
  <2>. QED
    BY <2>1, <2>2, <2>3
<1>3. (\A i \in 1 .. Len(tasks) : tasks[i].ok /\ Readable(tasks[i]))'
  <2>1. \A t : Known(tasks', t) => t \in CopyTasks
    BY <1>1 DEF Holds, Known
  <2>2. ASSUME NEW t \in CopyTasks, Known(tasks', t) PROVE t.ok /\ Readable(t)'
    <3>1. t.side \in Sides
      BY CopyTaskKinds
    <3>2. CASE Known(tasks, t)
      BY <3>1, <3>2, CopySteps, ReadableStays
    <3>3. CASE t \in Fresh(PanelTasks)
      BY <3>3 DEF Fresh, PanelTasks, TaskSet, Readable, Exists
    <3>4. CASE ToAdd(t)
      BY <3>1, <3>4, ReadableStays DEF CopyTasksInv
    <3>. QED
      BY <2>2, <3>2, <3>3, <3>4, TasksCome, CopySteps
  <2>3. \A i \in 1 .. Len(tasks') : Known(tasks', tasks'[i])
    BY DEF Known
  <2>. QED
    BY <2>1, <2>2, <2>3
<1>4. \A t \in CopyTasks : ToAdd(t)' => t.ok /\ Readable(t)'
    BY CopyAdds, CopyTaskKinds, ReadableStays
<1>5. (\A i \in 1 .. Len(net) : NetInv(net[i]))'
  <2>1. CASE net' = <<>>
    BY <2>1
  <2>2. ASSUME NEW m, net' = <<m>>, NetInv(m)' PROVE (\A i \in 1 .. Len(net) : NetInv(net[i]))'
    BY <2>2 DEF NetInv
  <2>. QED
    BY <2>1, <2>2, CopyNet
<1>. QED
    BY <1>1, <1>2, <1>3, <1>4, <1>5, CopyShown DEF CopyTasksInv

LEMMA CopyTasksInit == Copies /\ Init => CopyTasksInv
<1>. SUFFICES ASSUME Copies, Init PROVE CopyTasksInv
    OBVIOUS
<1>1. /\ fs = Start /\ tasks = <<>> /\ lwork = Idle /\ uwork = Idle /\ radds = <<>>
      /\ net = <<>> /\ uiq = <<>> /\ shown = [s \in Sides |-> Children(Root, fs[s])]
      /\ ~busy /\ canSend
    BY DEF Init
<1>2. Holds(CopyTasks)
    BY <1>1 DEF Holds, Works, Idle
<1>3. \A t : ~ToAdd(t)
    BY <1>1 DEF ToAdd, InAdds, Idle
<1>4. \A s \in Sides : Start[s] \subseteq fs[s] /\ shown[s] \subseteq fs[s]
    BY <1>1 DEF Children
<1>. QED
    BY <1>1, <1>2, <1>3, <1>4 DEF CopyTasksInv, OneRequest, Idle

\* A copy meets no error: what its tasks read is there when they come to it, because
\* every task was made from a listing or from the screen and nothing is removed
\* meanwhile (dispatchSubList, FileManSubDlg::transfer).
THEOREM CopyMeetsNoError ==
    ASSUME Copies
    PROVE  Spec => []NothingFails
<1>1. TypeOK /\ OneRequest /\ CopyTasksInv /\ [Next]_vars => CopyTasksInv'
    BY Copies, CopyTasksNext
<1>2. Init => CopyTasksInv
    BY Copies, CopyTasksInit
<1>3. CopyTasksInv => NothingFails
    BY DEF CopyTasksInv, NothingFails
<1>. QED
    BY <1>1, <1>2, <1>3, OneRequestAtATime, TypeCorrect, PTL DEF Spec

\* Listing a folder to copy makes the tasks that bring it and all that is in it.
LEMMA ListingCovers ==
    ASSUME Copies, NEW t \in CopyTasks, t.after = "DownUp", NEW m \in Start[t.side],
           Brings(t, t.side, m), NEW S \in SUBSET Nodes,
           Children(t.node, Start[t.side]) \subseteq S, NEW order \in SetToSeqs(S)
    PROVE  \E u \in CopyTasks :
              /\ Brings(u, t.side, m) /\ u # t /\ InAdds(Dispatch(t, order), u)
              /\ u.kind = "List" => u.side = t.side
<1>1. /\ t.side \in Sides /\ Other(t.side) \in Sides /\ t.move = FALSE /\ t.node \in Folders
      /\ t.kind = "List" /\ m \in Nodes
    BY CopyTaskKinds, OtherSide, TreeAssumption
<1>2. /\ \A n \in S : \A j \in 1 .. Len(EntryTasks(t, n)) :
            InAdds(Dispatch(t, order), EntryTasks(t, n)[j])
      /\ \A j \in 1 .. Len(FolderTasks(t)) : InAdds(Dispatch(t, order), FolderTasks(t)[j])
    BY CopyClosed, DispatchProperties
<1>3. /\ \A n \in Folders : NewTask(Other(t.side), n) \in CopyTasks
      /\ \A n \in Folders : ListTask(t.side, n, "DownUp", t.move) \in CopyTasks
      /\ \A n \in Files : FileTask(t.side, n, t.move) \in CopyTasks
  <2>1. \A s \in Sides, n \in Folders : /\ NewTask(s, n) \in Tasks
                                        /\ ListTask(s, n, "DownUp", t.move) \in Tasks
    BY <1>1, TaskTypes
  <2>2. \A n \in Files : FileTask(t.side, n, t.move) \in Tasks
    BY <1>1, TaskTypes
  <2>. QED
    BY <1>1, <2>1, <2>2 DEF CopyTasks, NewTask, ListTask, FileTask, Task
<1>4. CASE m = t.node
  <2>. DEFINE u == NewTask(Other(t.side), t.node)
  <2>1. u.kind = "New" /\ u.side = Other(t.side) /\ u.node = t.node
    BY DEF NewTask, Task
  <2>2. u \in CopyTasks
    BY <1>1, <1>3
  <2>3. FolderTasks(t) = <<u>>
    BY CopyDispatch
  <2>. HIDE DEF u
  <2>4. InAdds(Dispatch(t, order), u)
    BY <1>2, <2>3
  <2>. QED
    BY <1>1, <1>4, <2>1, <2>2, <2>4 DEF Brings
<1>5. CASE t.node \in Above[m]
  <2>1. PICK n \in Above[m] \cup {m} : Up[n] = t.node
    BY <1>1, <1>5, AboveStep
  <2>2. n \in Children(t.node, Start[t.side]) /\ n \in Nodes /\ n \in S
    BY <1>1, <2>1, AboveInStart, TreeAssumption DEF Children
  <2>3. n # t.node
    <3>1. Above[n] \in Chains(n)
      BY <2>2, AboveIsChain
    <3>2. t.node \in Above[n]
      BY <1>1, <2>1, <3>1, TreeAssumption DEF Chains, Nodes
    <3>. QED
      BY <2>2, <3>2, NoLoopAssumption
  <2>4. CASE n \in Folders
    <3>. DEFINE u == ListTask(t.side, n, "DownUp", t.move)
    <3>1. u.after = "DownUp" /\ u.side = t.side /\ u.node = n
      BY DEF ListTask, Task
    <3>2. u \in CopyTasks
      BY <1>3, <2>4
    <3>3. EntryTasks(t, n) = <<NewTask(Other(t.side), n), u>>
      BY <2>4, CopyDispatch
    <3>. HIDE DEF u
    <3>4. EntryTasks(t, n)[2] = u /\ 2 \in 1 .. Len(EntryTasks(t, n))
      BY <3>3
    <3>5. InAdds(Dispatch(t, order), u)
      BY <1>2, <2>2, <3>4
    <3>. QED
      BY <2>1, <2>3, <3>1, <3>2, <3>5 DEF Brings
  <2>5. CASE n \in Files
    <3>. DEFINE u == FileTask(t.side, n, t.move)
    <3>1. u.kind = "File" /\ u.side = t.side /\ u.node = n
      BY DEF FileTask, Task
    <3>2. u \in CopyTasks
      BY <1>3, <2>5
    <3>3. EntryTasks(t, n) = <<u>>
      BY <2>5, CopyDispatch
    <3>. HIDE DEF u
    <3>4. EntryTasks(t, n)[1] = u /\ 1 \in 1 .. Len(EntryTasks(t, n))
      BY <3>3
    <3>5. InAdds(Dispatch(t, order), u)
      BY <1>2, <2>2, <3>4
    <3>6. n = m
      BY <1>1, <2>1, <2>5, AboveIsChain, TreeAssumption
    <3>. QED
      BY <1>1, <3>1, <3>2, <3>5, <3>6 DEF Brings
  <2>. QED
    BY <2>2, <2>4, <2>5 DEF Nodes
<1>. QED
    BY <1>1, <1>4, <1>5 DEF Brings

\* The two steps that list a folder.
LEMMA LocalListCovers ==
    ASSUME Copies, TypeOK, OneRequest, CopyTasksInv, LocalList,
           NEW s \in Sides, NEW m \in Start[s], Brings(FirstLocal, s, m)
    PROVE  Covered(s, m)'
<1>1. PICK t : t = FirstLocal
    OBVIOUS
<1>2. PICK order \in SetToSeqs(Children(t.node, fs["local"])) :
         lwork' = [pc |-> "adding", task |-> <<t>>, adds |-> Dispatch(t, order)]
    BY <1>1, Zenon DEF LocalList
<1>3. t \in CopyTasks /\ t.side = "local" /\ t.kind = "List" /\ t.after = "DownUp"
    BY <1>1, CopySteps, CopyTaskKinds, Zenon DEF LocalList, LocalTask
<1>4. s = t.side
    BY <1>1, <1>3, CopyTaskKinds DEF Brings
<1>5. /\ Children(t.node, fs["local"]) \in SUBSET Nodes
      /\ Children(t.node, Start["local"]) \subseteq Children(t.node, fs["local"])
    BY ChildrenType DEF CopyTasksInv, Sides, Children
<1>6. PICK u \in CopyTasks : Brings(u, s, m) /\ u # t /\ InAdds(Dispatch(t, order), u)
    BY <1>1, <1>2, <1>3, <1>4, <1>5, ListingCovers
<1>7. lwork'.task = <<t>> /\ lwork'.adds = Dispatch(t, order)
    BY <1>2
<1>. HIDE DEF Dispatch
<1>8. lwork'.task # <<u>> /\ ToAdd(u)'
    BY <1>6, <1>7 DEF ToAdd
<1>. QED
    BY <1>6, <1>8 DEF Covered

LEMMA AckListCovers ==
    ASSUME Copies, TypeOK, OneRequest, CopyTasksInv, AckList,
           NEW s \in Sides, NEW m \in Start[s], Brings(net[1].task, s, m)
    PROVE  Covered(s, m)'
<1>1. PICK t : t = net[1].task
    OBVIOUS
<1>2. PICK order \in SetToSeqs(net[1].names) : radds' = Dispatch(t, order)
    BY <1>1, Zenon DEF AckList
<1>3. /\ net # <<>> /\ net[1].at = "client" /\ t.kind = "List" /\ t.after # "InformUi"
      /\ net[1] \in Packets(CopyTasks) /\ NetInv(net[1])
    BY <1>1, CopySteps, Zenon DEF AckList, Answered
<1>4. t \in CopyTasks /\ t.side = "peer" /\ t.after = "DownUp"
  <2>1. t \in CopyTasks
    BY <1>1, <1>3 DEF Packets
  <2>. QED
    BY <1>1, <1>3, <2>1, CopyTaskKinds DEF NetInv, ForPeer
<1>5. s = t.side
    BY <1>1, <1>3, <1>4, CopyTaskKinds DEF Brings
<1>6. /\ net[1].names \in SUBSET Nodes
      /\ Children(t.node, Start["peer"]) \subseteq net[1].names
    BY <1>1, <1>3 DEF Packets, NetInv
<1>7. PICK u \in CopyTasks : /\ Brings(u, s, m) /\ u # t /\ InAdds(Dispatch(t, order), u)
                             /\ u.kind = "List" => u.side = "peer"
    BY <1>1, <1>2, <1>4, <1>5, <1>6, ListingCovers
<1>8. UNCHANGED lwork
    BY DEF AckList, localVars
<1>9. lwork.task # <<u>>
  <2>. SUFFICES ASSUME lwork.task = <<u>> PROVE FALSE
    OBVIOUS
  <2>1. lwork.pc = "adding" /\ lwork.task[1] = u
    BY DEF TypeOK, Holds, Works
  <2>. QED
    BY <1>7, <2>1 DEF CopyTasksInv
<1>10. ToAdd(u)'
    BY <1>2, <1>7 DEF ToAdd
<1>. QED
    BY <1>7, <1>8, <1>9, <1>10 DEF Covered

\* A task that brings an entry stays until the entry is there, or is listed.
LEMMA CoveredStays ==
    ASSUME Copies, TypeOK, OneRequest, CopyTasksInv, [Next]_vars,
           NEW s \in Sides, NEW m \in Start[s], Covered(s, m)
    PROVE  Covered(s, m)'
<1>. SUFFICES ASSUME m \notin fs'[Other(s)] PROVE Covered(s, m)'
    BY DEF Covered
<1>1. m \notin fs[Other(s)]
    BY CopyFs, OtherSide
<1>2. PICK t \in CopyTasks : /\ Brings(t, s, m) /\ lwork.task # <<t>>
                             /\ ToAdd(t) \/ Known(tasks, t)
    BY <1>1 DEF Covered
<1>3. CASE lwork'.task = <<t>>
  <2>1. LocalList
    <3>1. lwork'.pc # "adding" => lwork'.task = <<>>
      BY TypeNext DEF TypeOK, Holds, Works
    <3>. QED
      BY <1>2, <1>3, <3>1, CopyWork
  <2>2. t = FirstLocal
    <3>1. lwork'.task = <<FirstLocal>>
      BY <2>1 DEF LocalList
    <3>. QED
      BY <1>3, <3>1
  <2>. QED
    BY <1>2, <2>1, <2>2, LocalListCovers
<1>4. CASE lwork'.task # <<t>> /\ (ToAdd(t)' \/ Known(tasks', t))
    BY <1>2, <1>4 DEF Covered
<1>5. CASE ~ToAdd(t)' /\ ~Known(tasks', t)
  <2>1. Known(tasks, t) /\ t.ok
    BY <1>2, <1>5, AddsStay, CopySteps
  <2>2. CASE LocalNew /\ t = FirstLocal
    <3>1. t.kind = "New" /\ t.side = "local"
      BY <2>2, CopySteps DEF LocalNew, LocalTask
    <3>2. t.after = "None"
      BY <3>1, CopyTaskKinds
    <3>3. m = t.node /\ Other(s) = "local"
      BY <1>2, <3>1, <3>2, OtherSide DEF Brings
    <3>4. fs' = Made("local", t.node) /\ fs \in [Sides -> SUBSET Nodes] /\ "local" \in Sides
      BY <2>2 DEF LocalNew, TypeOK, Sides
    <3>. QED
      BY <3>3, <3>4 DEF Made
  <2>3. CASE (LocalInform /\ t = FirstLocal) \/ (AckInform /\ t = net[1].task)
    <3>1. t.kind = "List" /\ t.after = "InformUi"
      BY <2>3 DEF LocalInform, LocalTask, AckInform, Answered
    <3>. QED
      BY <1>2, <3>1 DEF Brings
  <2>4. CASE LocalListEnd /\ t = lwork.task[1]
    <3>1. lwork.task = <<t>>
      BY <2>4 DEF LocalListEnd, TypeOK, Holds, Works
    <3>. QED
      BY <1>2, <3>1
  <2>5. CASE Ack /\ t = net[1].task
    <3>1. t.kind \in {"New", "File"} /\ net # <<>> /\ net[1].at = "client" /\ NetInv(net[1])
      BY <2>5, CopySteps DEF Ack, AckOne, Answered
    <3>2. t.after = "None" /\ (t.kind = "New" => t.side = "peer")
      BY <2>5, <3>1, CopyTaskKinds DEF NetInv, ForPeer
    <3>3. m = t.node /\ (t.kind = "New" => Other(s) = "peer") /\ (t.kind = "File" => s = t.side)
      BY <1>2, <3>1, <3>2, OtherSide DEF Brings
    <3>. QED
      BY <1>1, <2>5, <3>1, <3>3 DEF NetInv
  <2>6. CASE AckList /\ t = net[1].task
    BY <1>2, <2>6, AckListCovers
  <2>. QED
    BY <1>5, <2>1, <2>2, <2>3, <2>4, <2>5, <2>6, TasksStay, CopySteps
<1>. QED
    BY <1>3, <1>4, <1>5

LEMMA CoverNext ==
    ASSUME Copies, TypeOK, OneRequest, CopyTasksInv, CoverInv, [Next]_vars
    PROVE  CoverInv'
<1>. SUFFICES ASSUME NEW s \in Sides, NEW m \in Start[s], Wanted(s, m)' PROVE Covered(s, m)'
    BY DEF CoverInv
<1>1. CASE Wanted(s, m)
  <2>1. Covered(s, m)
    BY <1>1 DEF CoverInv
  <2>. QED
    BY <2>1, CoveredStays
<1>2. CASE LocalList /\ ~Wanted(s, m)
  <2>1. lwork'.task = <<FirstLocal>> /\ UNCHANGED asked
    BY <1>2 DEF LocalList, boundVars
  <2>2. Brings(FirstLocal, s, m)
    BY <1>2, <2>1 DEF Wanted
  <2>. QED
    BY <1>2, <2>2, LocalListCovers
<1>3. ASSUME NEW r \in From, NEW op \in Operations, NEW sel \in SUBSET shown[r],
             NEW order \in SetToSeqs(sel), UiOperate(r, op, order), ~Wanted(s, m)
      PROVE  Covered(s, m)'
  <2>1. /\ op = "Copy" /\ r \in Sides /\ sel \subseteq Nodes
        /\ order \in Seq(sel) /\ Len(order) \in Nat
        /\ asked \in [Sides -> SUBSET Nodes]
    <3>1. op = "Copy" /\ r \in Sides /\ sel \subseteq Nodes
      BY TreeAssumption DEF Copies, TypeOK
    <3>2. IsFiniteSet(sel)
      BY <3>1, TreeAssumption, FS_Subset
    <3>3. order \in Seq(sel)
      BY <3>2, OrderProperties
    <3>. QED
      BY <3>1, <3>3 DEF TypeOK
  <2>2. /\ asked' = [asked EXCEPT ![r] = @ \cup ToSet(order)]
        /\ uwork'.adds = [i \in 1 .. Len(order) |-> <<RowTask(r, op, order[i])>>]
        /\ UNCHANGED <<lwork, radds>>
    BY <1>3, <2>1 DEF UiOperate, localVars, remoteVars
  <2>3. PICK n \in asked'[s] : m = n \/ n \in Above[m]
    BY <1>3, <2>2 DEF Wanted
  <2>4. n \notin asked[s]
    BY <1>3, <2>3 DEF Wanted
  <2>5. r = s /\ n \in ToSet(order)
    BY <2>1, <2>2, <2>3, <2>4
  <2>6. PICK i \in 1 .. Len(order) : order[i] = n
    BY <2>5 DEF ToSet
  <2>7. n \in Nodes
    BY <2>1, <2>6
  <2>8. PICK u : u = RowTask(s, op, n)
    OBVIOUS
  <2>9. u \in CopyTasks
    BY <2>1, <2>5, <2>7, <2>8, CopyClosed DEF Closed, Fresh
  <2>10. Brings(u, s, m)
    <3>1. m \in Nodes
      BY TreeAssumption
    <3>2. CASE n \in Folders
      <4>1. u = ListTask(s, n, "DownUp", op = "Move")
        BY <2>1, <2>8, <3>2 DEF RowTask
      <4>. QED
        BY <2>3, <4>1 DEF ListTask, Task, Brings
    <3>3. CASE n \notin Folders
      <4>1. u = FileTask(s, n, op = "Move") /\ m = n
        BY <2>1, <2>3, <2>8, <3>1, <3>3, AboveIsChain DEF RowTask
      <4>. QED
        BY <4>1 DEF FileTask, Task, Brings
    <3>. QED
      BY <3>2, <3>3
  <2>11. ToAdd(u)'
    <3>. DEFINE adds == [j \in 1 .. Len(order) |-> <<RowTask(r, op, order[j])>>]
    <3>1. i \in 1 .. Len(adds) /\ adds[i] = <<u>>
      BY <2>1, <2>5, <2>6, <2>8
    <3>. HIDE DEF adds
    <3>2. 1 \in 1 .. Len(adds[i]) /\ adds[i][1] = u
      BY <3>1
    <3>3. InAdds(adds, u)
      BY <3>1, <3>2 DEF InAdds
    <3>. QED
      BY <2>2, <3>3 DEF ToAdd, adds
  <2>12. lwork'.task # <<u>>
    BY <1>3, <2>2, <2>9, <2>10 DEF Wanted
  <2>. QED
    BY <2>9, <2>10, <2>11, <2>12 DEF Covered
<1>4. CASE UNCHANGED asked /\ lwork'.task = lwork.task
    BY <1>1, <1>4 DEF Wanted
<1>5. CASE lwork'.pc # "adding" /\ UNCHANGED asked
  <2>1. lwork'.task = <<>>
    BY <1>5, TypeNext DEF TypeOK, Holds, Works
  <2>. QED
    BY <1>1, <1>5, <2>1 DEF Wanted
<1>6. \/ UNCHANGED asked
      \/ \E r \in From, op \in Operations : \E sel \in SUBSET shown[r] :
            \E order \in SetToSeqs(sel) : UiOperate(r, op, order)
    BY DEF Next, vars, Ui, UiBusy, UiBrowse, UiCancel, UiNotify, UiAdd,
           UiOperateEnd, Local, LocalIdle, LocalDel, LocalNew, LocalListFails, LocalInform,
           LocalList, LocalAdd, LocalListEnd, Timer, LocalTimer, LocalTimerPush, Remote,
           RemoteLoop, Ack, AckOne, AckGone, AckInform, AckList, AckAdd, AckListEnd, Serve,
           Lose, boundVars
<1>. QED
    BY <1>1, <1>2, <1>3, <1>4, <1>5, <1>6, CopyWork

\* A copy leaves nothing behind: as long as an entry of a tree the user has asked for
\* is not at the destination, some task is to bring it, through every listing, on
\* either engine, and every lost connection (dispatchSubList, FmLocal::onNewFile,
\* FmsNewFile::echo).
THEOREM CopyIsWholeAlways ==
    ASSUME Copies
    PROVE  Spec => []CopyIsWhole
<1>1. TypeOK /\ OneRequest /\ CopyTasksInv /\ [Next]_vars => CopyTasksInv'
    BY Copies, CopyTasksNext
<1>2. TypeOK /\ OneRequest /\ CopyTasksInv /\ CoverInv /\ [Next]_vars => CoverInv'
    BY Copies, CoverNext
<1>3. Init => CopyTasksInv
    BY Copies, CopyTasksInit
<1>4. Init => CoverInv
    BY DEF Init, Idle, CoverInv, Wanted
<1>5. TypeOK /\ CoverInv => CopyIsWhole
  <2>. SUFFICES ASSUME TypeOK, CoverInv, tasks = <<>>, lwork = Idle, ~busy, uwork = Idle,
                       NEW s \in Sides, NEW n \in asked[s], NEW m \in Start[s],
                       m = n \/ n \in Above[m]
                PROVE  m \in fs[Other(s)]
    BY DEF CopyIsWhole
  <2>1. Covered(s, m)
    BY DEF CoverInv, Wanted
  <2>2. \A t : ~ToAdd(t) /\ ~Known(tasks, t)
    BY DEF ToAdd, InAdds, Known, Idle, TypeOK
  <2>. QED
    BY <2>1, <2>2 DEF Covered
<1>. QED
    BY <1>1, <1>2, <1>3, <1>4, <1>5, OneRequestAtATime, TypeCorrect, PTL DEF Spec

-----------------------------------------------------------------------------
(* The order of the list                                                   *)

Ordered(s) == \A i, j \in 1 .. Len(s) : i < j => Prio(s[i]) <= Prio(s[j])

LEMMA PutOrdered ==
    ASSUME NEW s \in Seq(Tasks), NEW t \in Tasks, Ordered(s)
    PROVE  Ordered(Put(s, t))
<1>. DEFINE T == ToSet(s) \cup {t}
            p == [x \in T |-> Prio(x)]
<1>1. s \in Seq(T) /\ T \subseteq Tasks /\ t \in T
  <2>1. \A i \in 1 .. Len(s) : s[i] \in ToSet(s)
    BY DEF ToSet
  <2>2. s \in [1 .. Len(s) -> T]
    BY <2>1
  <2>3. s \in Seq(T)
    BY <2>2, IsASeq
  <2>4. ToSet(s) \subseteq Tasks
    BY DEF ToSet
  <2>. QED
    BY <2>3, <2>4
<1>2. p \in [T -> Int] /\ \A x \in T : p[x] = Prio(x)
    BY <1>1, PrioType
<1>3. Put(s, t) = Add(s, p, t)
    BY DEF Put
<1>. HIDE DEF T, p
<1>4. Sorted(s, p)
    BY <1>1, <1>2 DEF Sorted, Ordered
<1>5. Add(s, p, t) \in Seq(T) /\ Sorted(Add(s, p, t), p)
    BY <1>1, <1>2, <1>4, AddProperties, AddKeepsSorted
<1>. QED
    BY <1>2, <1>3, <1>5 DEF Sorted, Ordered

LEMMA EraseOrdered ==
    ASSUME NEW s \in Seq(Tasks), NEW W, Ordered(s)
    PROVE  Ordered(EraseFirst(s, W))
<1>. DEFINE p == [x \in Tasks |-> Prio(x)]
<1>1. p \in [Tasks -> Int] /\ \A x \in Tasks : p[x] = Prio(x)
    BY PrioType
<1>. HIDE DEF p
<1>2. Sorted(s, p)
    BY <1>1 DEF Sorted, Ordered
<1>3. EraseFirst(s, W) \in Seq(Tasks) /\ Sorted(EraseFirst(s, W), p)
    BY <1>1, <1>2, EraseProperties, EraseKeepsSorted
<1>. QED
    BY <1>1, <1>3 DEF Sorted, Ordered

LEMMA MarkOrdered ==
    ASSUME tasks \in Seq(Tasks), Ordered(tasks), NEW t \in Tasks, Known(tasks, t)
    PROVE  Ordered(MarkFailed(t))
<1>. DEFINE f == [t EXCEPT !.ok = FALSE]
<1>1. f \in Tasks
    BY TaskTypes
<1>2. f.kind = t.kind /\ f.node = t.node /\ f.after = t.after
    BY DEF Tasks, PanelTasks, TaskSet
<1>. HIDE DEF f
<1>3. Prio(f) = Prio(t)
    BY <1>2 DEF Prio
<1>4. PICK k \in 1 .. Len(tasks) :
         /\ tasks[k] = t /\ Len(MarkFailed(t)) = Len(tasks) /\ MarkFailed(t)[k] = f
         /\ \A j \in 1 .. Len(tasks) : j # k => MarkFailed(t)[j] = tasks[j]
    BY <1>1, MarkProperties DEF f
<1>5. \A i \in 1 .. Len(tasks) : Prio(MarkFailed(t)[i]) = Prio(tasks[i])
    BY <1>3, <1>4
<1>. QED
    BY <1>4, <1>5 DEF Ordered

LEMMA PriorityOrderNext == TypeOK /\ PriorityOrder /\ [Next]_vars => PriorityOrder'
<1>. SUFFICES ASSUME TypeOK, Ordered(tasks), [Next]_vars PROVE Ordered(tasks')
    BY DEF PriorityOrder, Ordered
<1>1. tasks \in Seq(Tasks)
    BY DEF TypeOK, Holds
<1>2. Cleaned \in Seq(Tasks) /\ Ordered(Cleaned)
    BY <1>1, EraseOrdered, EraseProperties DEF Cleaned, CleanError
<1>3. \A t \in Tasks : Ordered(Put(tasks, t)) /\ Ordered(Put(Cleaned, t))
    BY <1>1, <1>2, PutOrdered
<1>4. \A t : Ordered(RemoveTask(tasks, t))
    BY <1>1, EraseOrdered DEF RemoveTask
<1>5. \A t \in Tasks : Known(tasks, t) => Ordered(MarkFailed(t))
    BY <1>1, MarkOrdered
<1>6. ASSUME NEW ts, NEW slot, NEW n, Ordered(ts), OnRefresh(ts, slot, n),
             slot = <<>> \/ \E t \in Fresh(PanelTasks) : slot = <<t>>
      PROVE  Ordered(tasks')
  <2>1. \A t : Ordered(<<t>>)
    BY DEF Ordered
  <2>2. tasks' = ts \/ \E t : tasks' = <<t>>
    BY <1>6 DEF OnRefresh
  <2>. QED
    BY <1>6, <2>1, <2>2
<1>7. refresh = <<>> \/ \E t \in Fresh(PanelTasks) : refresh = <<t>>
    BY DEF TypeOK
<1>8. ASSUME NEW s \in Sides, UiBrowse(s) PROVE Ordered(tasks')
  <2>1. ListTask(s, Root, "InformUi", FALSE) \in Tasks
    BY TaskTypes
  <2>2. OnRefresh(Put(Cleaned, ListTask(s, Root, "InformUi", FALSE)), refresh, 1)
    BY <1>8 DEF UiBrowse
  <2>. QED
    BY <1>3, <1>6, <1>7, <2>1, <2>2
<1>9. ASSUME NEW s, NEW op, NEW sel, UiOperate(s, op, sel) PROVE Ordered(tasks')
    BY <1>2, <1>9 DEF UiOperate
<1>10. CASE UiCancel
    BY <1>2, <1>10 DEF UiCancel
<1>11. CASE UiAdd
    BY <1>3, <1>11, AddsUnderWay DEF UiAdd, Fresh
<1>12. CASE UiOperateEnd
    BY <1>6, <1>12, WaitingPanel DEF UiOperateEnd
<1>13. CASE UiNotify
  <2>1. OnRefresh(tasks, refresh, 0) \/ UNCHANGED tasks
    BY <1>13 DEF UiNotify
  <2>. QED
    BY <1>6, <1>7, <2>1
<1>14. CASE LocalDel \/ LocalListFails \/ LocalNew \/ LocalInform
  <2>1. FirstLocal \in Tasks /\ Known(tasks, FirstLocal)
    BY <1>14, TakenTask DEF LocalDel, LocalListFails, LocalNew, LocalInform, LocalTask
  <2>2. tasks' = RemoveTask(tasks, FirstLocal) \/ tasks' = MarkFailed(FirstLocal)
    BY <1>14 DEF LocalDel, LocalListFails, LocalNew, LocalInform
  <2>. QED
    BY <1>4, <1>5, <2>1, <2>2
<1>15. CASE LocalAdd
    BY <1>3, <1>15, AddsUnderWay DEF LocalAdd, Fresh
<1>16. CASE LocalListEnd \/ AckInform \/ AckList
    BY <1>4, <1>16 DEF LocalListEnd, AckInform, AckList
<1>17. CASE Ack
  <2>1. net[1].task \in Tasks /\ Known(tasks, net[1].task)
    BY <1>17, TakenTask DEF Ack, AckOne, Answered, Packets
  <2>2. tasks' = RemoveTask(tasks, net[1].task) \/ tasks' = MarkFailed(net[1].task)
    BY <1>17 DEF Ack, AckOne
  <2>. QED
    BY <1>4, <1>5, <2>1, <2>2
<1>18. CASE AckAdd
    BY <1>3, <1>18, AddsUnderWay DEF AckAdd, Fresh
<1>19. CASE UNCHANGED tasks
    BY <1>19
<1>20. \/ UNCHANGED tasks
       \/ \E s \in Sides : UiBrowse(s)
       \/ \E s, op, sel : UiOperate(s, op, sel)
       \/ UiCancel \/ UiAdd \/ UiOperateEnd \/ UiNotify
       \/ LocalDel \/ LocalListFails \/ LocalNew \/ LocalInform \/ LocalAdd \/ LocalListEnd
       \/ AckInform \/ AckList \/ Ack \/ AckAdd
    BY DEF Next, vars, Ui, UiBusy, Local, LocalIdle, LocalList, Timer, LocalTimer,
           LocalTimerPush, Remote, RemoteLoop, AckGone, AckListEnd, Serve, Lose
<1>. QED
    BY <1>8, <1>9, <1>10, <1>11, <1>12, <1>13, <1>14, <1>15, <1>16, <1>17, <1>18, <1>19,
       <1>20

\* The list keeps the order of the priorities, whichever thread adds to it, takes from
\* it or marks a task as failed (FmScheduler::add).
THEOREM StaysInOrder == Spec => []PriorityOrder
<1>1. Init => PriorityOrder
    BY DEF Init, PriorityOrder
<1>. QED
    BY <1>1, PriorityOrderNext, TypeCorrect, PTL DEF Spec
=============================================================================
