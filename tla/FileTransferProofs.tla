------------------------- MODULE FileTransferProofs -------------------------
(***************************************************************************)
(* TransferInv is an invariant of Spec for every set of files, segment     *)
(* length, bound and combination of faults, and so are GateInv, ListInv    *)
(* and OffsetInv; NoMixture, OneOutstanding, PriorityOrder and             *)
(* OffsetNeverBack follow.  The second half says what becomes of a         *)
(* transfer: its answer finds its task, the engine is woken, the gate      *)
(* opens again, a finished file is whole, and a retry does not fail.       *)
(***************************************************************************)
EXTENDS FileTransfer, FmTaskListProofs

-----------------------------------------------------------------------------
(* fmReadFile and fmWriteFile                                              *)

\* fmReadFile sends a slice of the source whenever it reports success.
LEMMA ReadIsSlice ==
    ASSUME NEW n \in Nat, NEW pos \in Nat, NEW len \in Nat
    PROVE  LET seg == fmReadFile(n, pos, len)
           IN  /\ seg \in Segs
               /\ seg.pos = pos
               /\ seg.result \in {"Ok", "ReachEnd"} => IsSlice(seg, n)
<1>1. \A k \in Nat : Slice(pos, k) \in Seq(Nat) /\ Len(Slice(pos, k)) = k
    BY IsASeq DEF Slice
<1>2. \A k \in Nat : \A i \in 1 .. k : Slice(pos, k)[i] = pos + i
    BY DEF Slice
<1>3. CASE n < pos
    BY <1>3 DEF fmReadFile, Segs
<1>4. CASE ~(n < pos) /\ n - pos > len
  <2>1. fmReadFile(n, pos, len)
           = [result |-> "Ok", pos |-> pos, buf |-> Slice(pos, len)]
    BY <1>4 DEF fmReadFile
  <2>2. /\ Slice(pos, len) \in Seq(Nat) /\ Len(Slice(pos, len)) = len
        /\ \A i \in 1 .. len : Slice(pos, len)[i] = pos + i
        /\ pos + len <= n
    BY <1>1, <1>2, <1>4
  <2>3. /\ fmReadFile(n, pos, len).pos = pos
        /\ fmReadFile(n, pos, len).buf = Slice(pos, len)
    BY <2>1
  <2>4. fmReadFile(n, pos, len) \in Segs
    BY <2>1, <2>2 DEF Segs
  <2>5. IsSlice(fmReadFile(n, pos, len), n)
    BY <2>2, <2>3 DEF IsSlice
  <2>. QED
    BY <2>3, <2>4, <2>5
<1>5. CASE ~(n < pos) /\ ~(n - pos > len)
  <2>1. fmReadFile(n, pos, len)
           = [result |-> "ReachEnd", pos |-> pos, buf |-> Slice(pos, n - pos)]
    BY <1>5 DEF fmReadFile
  <2>2. n - pos \in Nat
    BY <1>5
  <2>3. /\ Slice(pos, n - pos) \in Seq(Nat) /\ Len(Slice(pos, n - pos)) = n - pos
        /\ \A i \in 1 .. n - pos : Slice(pos, n - pos)[i] = pos + i
        /\ pos + (n - pos) <= n
    BY <1>1, <1>2, <2>2
  <2>4. /\ fmReadFile(n, pos, len).pos = pos
        /\ fmReadFile(n, pos, len).buf = Slice(pos, n - pos)
    BY <2>1
  <2>5. fmReadFile(n, pos, len) \in Segs
    BY <2>1, <2>3 DEF Segs
  <2>6. IsSlice(fmReadFile(n, pos, len), n)
    BY <2>3, <2>4 DEF IsSlice
  <2>. QED
    BY <2>4, <2>5, <2>6
<1>. QED
    BY <1>3, <1>4, <1>5

\* fmWriteFile keeps a prefix of the source a prefix of the source when the
\* segment is a slice of it, however little fwrite stores.
LEMMA WriteKeepsPrefix ==
    ASSUME NEW file \in Seq(Nat), NEW seg \in Segs, NEW n \in Nat,
           NEW w \in 0 .. Len(seg.buf)
    PROVE  LET r == fmWriteFile(file, seg, w)
           IN  /\ r.file \in Seq(Nat)
               /\ r.ret \in Int
               /\ IsSourceUpTo(file, n) /\ IsSlice(seg, n) => IsSourceUpTo(r.file, n)
<1>. DEFINE b == SubSeq(seg.buf, 1, w)
            c == file \o b
<1>0. seg.buf \in Seq(Nat) /\ seg.pos \in Nat /\ Len(seg.buf) \in Nat
    BY DEF Segs
<1>1. /\ b \in Seq(Nat) /\ Len(b) = w /\ Len(file) \in Nat
      /\ \A i \in 1 .. w : b[i] = seg.buf[i]
    BY <1>0, SubSeqProperties
<1>. HIDE DEF b
<1>2. /\ c \in Seq(Nat) /\ Len(c) = Len(file) + w
      /\ \A i \in 1 .. Len(c) : c[i] = IF i <= Len(file) THEN file[i]
                                       ELSE b[i - Len(file)]
  <2>1. /\ c \in Seq(Nat) /\ Len(c) = Len(file) + Len(b)
        /\ \A i \in 1 .. Len(file) + Len(b) :
              c[i] = IF i <= Len(file) THEN file[i] ELSE b[i - Len(file)]
    BY <1>1, ConcatProperties
  <2>. QED
    BY <1>1, <2>1
<1>. HIDE DEF c
<1>3. CASE seg.pos = Len(file)
  <2>1. fmWriteFile(file, seg, w) = [ret |-> Len(seg.buf), file |-> c]
    BY <1>3 DEF fmWriteFile, b, c
  <2>2. ASSUME IsSourceUpTo(file, n), IsSlice(seg, n)
        PROVE  IsSourceUpTo(c, n)
    <3>1. Len(c) <= n
      BY <1>0, <1>2, <1>3, <2>2 DEF IsSlice
    <3>2. ASSUME NEW i \in 1 .. Len(c) PROVE c[i] = i
      <4>1. CASE i <= Len(file)
        BY <1>2, <2>2, <4>1 DEF IsSourceUpTo
      <4>2. CASE i > Len(file)
        <5>1. i - Len(file) \in 1 .. w
          BY <1>0, <1>1, <1>2, <4>2
        <5>2. c[i] = seg.buf[i - Len(file)]
          <6>1. ~(i <= Len(file))
            BY <1>1, <1>2, <4>2
          <6>2. c[i] = b[i - Len(file)]
            BY <1>2, <6>1
          <6>. QED
            BY <1>1, <5>1, <6>2
        <5>3. seg.buf[i - Len(file)] = seg.pos + (i - Len(file))
          <6>1. i - Len(file) \in 1 .. Len(seg.buf)
            BY <1>0, <5>1
          <6>. QED
            BY <2>2, <6>1 DEF IsSlice
        <5>. QED
          BY <1>0, <1>2, <1>3, <5>2, <5>3
      <4>. QED
        BY <1>2, <4>1, <4>2
    <3>. QED
      BY <3>1, <3>2 DEF IsSourceUpTo
  <2>. QED
    BY <1>0, <1>2, <2>1, <2>2
<1>4. CASE seg.pos # Len(file)
  <2>1. fmWriteFile(file, seg, w).file = file
    BY <1>4 DEF fmWriteFile
  <2>2. fmWriteFile(file, seg, w).ret \in Int
    BY <1>0, <1>4 DEF fmWriteFile
  <2>. QED
    BY <2>1, <2>2
<1>. QED
    BY <1>3, <1>4
-----------------------------------------------------------------------------
(* What every step keeps, and what follows from it for the messages.       *)

\* No source shrinks and no cleared destination gets foreign blocks.
FilesKept == \A f \in Files : size[f] <= size'[f] /\ (Touched(f) => Touched(f)')

\* A transfer stays a transfer of the same file.
TransfersKept ==
    \A t \in Ids : t \in Transfers => t \in Transfers' /\ info'[t].file = info[t].file

\* A request stays justified across a step.
LEMMA RequestStable ==
    ASSUME TypeOK, TypeOK', FilesKept, TransfersKept,
           NEW r \in Requests, RequestInv(r)
    PROVE  RequestInv(r)'
<1>1. r.id \in Ids /\ r.file \in Files /\ r.pos \in Int
    BY DEF Requests
<1>2. r.seg.pos \in Nat /\ Len(r.seg.buf) \in Nat
    BY DEF Requests, Segs
<1>3. r.id \in Transfers' /\ r.file = info'[r.id].file
    BY <1>1 DEF RequestInv, TransfersKept
<1>4. r.pos >= 0 => Touched(r.file)'
    BY <1>1 DEF RequestInv, FilesKept
<1>5. IsSlice(r.seg, size[r.file]) => IsSlice(r.seg, size'[r.file])
  <2>1. size[r.file] \in Nat /\ size'[r.file] \in Nat /\ size[r.file] <= size'[r.file]
    BY <1>1 DEF FilesKept, TypeOK
  <2>. QED
    BY <1>2, <2>1 DEF IsSlice
<1>. QED
    BY <1>3, <1>4, <1>5 DEF RequestInv

\* An answer stays justified across a step.
LEMMA AnswerStable ==
    ASSUME TypeOK, TypeOK', TaskInv, FilesKept, TransfersKept,
           NEW a \in Answers, AnswerInv(a)
    PROVE  AnswerInv(a)'
<1>1. a.id \in Ids /\ a.pos \in Int /\ a.id \in Transfers
    BY DEF Answers, AnswerInv
<1>2. a.seg.pos \in Nat /\ Len(a.seg.buf) \in Nat
    BY DEF Answers, Segs
<1>0. PICK f \in Files : f = info[a.id].file
    BY <1>1 DEF TaskInv
<1>3. a.id \in Transfers' /\ info'[a.id].file = f
    BY <1>0, <1>1 DEF TransfersKept
<1>4. a.pos >= 0 => Touched(f)'
    BY <1>0, <1>1, <1>3 DEF AnswerInv, FilesKept
<1>5. IsSlice(a.seg, size[f]) => IsSlice(a.seg, size'[f])
  <2>1. size[f] \in Nat /\ size'[f] \in Nat /\ size[f] <= size'[f]
    BY <1>3 DEF FilesKept, TypeOK
  <2>. QED
    BY <1>2, <2>1 DEF IsSlice
<1>6. a.pos >= 0 => Touched(info[a.id].file)'
    BY <1>3, <1>4 DEF Touched
<1>7. a.cmd = "Down" /\ a.result \in {"Ok", "ReachEnd"}
         => IsSlice(a.seg, size[info[a.id].file])'
    BY <1>0, <1>3, <1>5 DEF AnswerInv
<1>. QED
    BY <1>3, <1>6, <1>7 DEF AnswerInv

\* A step keeps MessageInv when all messages it leaves behind were there
\* before or are justified.
LEMMA MessagesStable ==
    ASSUME TypeOK, TypeOK', TaskInv, MessageInv, FilesKept, TransfersKept,
           \A r \in Requests : Known(reqs', r) => Known(reqs, r) \/ RequestInv(r)',
           \A r \in late' : r \in late \/ Known(reqs, r),
           \A a \in Answers : Known(acks', a) => Known(acks, a) \/ AnswerInv(a)'
    PROVE  MessageInv'
<1>1. \A r \in Requests : Known(reqs, r) => RequestInv(r)'
  <2>1. \A r \in Requests : Known(reqs, r) => RequestInv(r)
    BY DEF MessageInv, Known
  <2>. QED
    BY <2>1, RequestStable
<1>2. ASSUME NEW i \in 1 .. Len(reqs') PROVE RequestInv(reqs[i])'
  <2>1. reqs'[i] \in Requests /\ Known(reqs', reqs'[i])
    BY DEF TypeOK, Known
  <2>2. \A r \in Requests : r = reqs'[i] => RequestInv(r)'
    BY <1>1, <2>1
  <2>. QED
    BY <2>1, <2>2 DEF RequestInv
<1>3. ASSUME NEW r \in late' PROVE RequestInv(r)'
  <2>1. r \in Requests
    BY DEF TypeOK
  <2>2. r \in late => RequestInv(r)
    BY DEF MessageInv
  <2>. QED
    BY <1>1, <2>1, <2>2, RequestStable
<1>4. \A a \in Answers : Known(acks, a) => AnswerInv(a)'
  <2>1. \A a \in Answers : Known(acks, a) => AnswerInv(a)
    BY DEF MessageInv, Known
  <2>. QED
    BY <2>1, AnswerStable
<1>5. ASSUME NEW i \in 1 .. Len(acks') PROVE AnswerInv(acks[i])'
  <2>1. acks'[i] \in Answers /\ Known(acks', acks'[i])
    BY DEF TypeOK, Known
  <2>2. \A a \in Answers : a = acks'[i] => AnswerInv(a)'
    BY <1>4, <2>1
  <2>. QED
    BY <2>1, <2>2 DEF AnswerInv
<1>. QED
    BY <1>2, <1>3, <1>5 DEF MessageInv
-----------------------------------------------------------------------------
(* One lemma per action: it preserves TransferInv.                         *)

\* The list of the remote engine's first task.
LEMMA FirstType ==
    ASSUME TypeOK PROVE First = NoTask \/ First \in Ids
<1>1. tasks \in Seq(Ids)
    BY DEF TypeOK
<1>. QED
    BY <1>1, FirstOfProperties DEF First, GetFirst

\* 0 is no task id.
LEMMA NoTaskIsNoId == NoTask \notin Ids
    BY ConstAssumption DEF NoTask, Ids

\* Priorities are numbers.
LEMMA PriosType == \A tab : Prios(tab) \in [Ids -> Int]
    BY DEF Prios, Prio

\* A step that changes neither a file nor a task object, and whose messages
\* are old ones or justified.
LEMMA QuietStep ==
    ASSUME TransferInv, TypeOK', UNCHANGED <<size, dst, info, nextId>>,
           \A r \in Requests : Known(reqs', r) => Known(reqs, r) \/ RequestInv(r),
           \A r \in late' : r \in late \/ Known(reqs, r),
           \A a \in Answers : Known(acks', a) => Known(acks, a) \/ AnswerInv(a)
    PROVE  TransferInv'
<1>1. FilesKept
    BY DEF FilesKept, Touched, TransferInv, TypeOK
<1>2. TransfersKept
    BY DEF TransfersKept, Transfers
<1>3. TaskInv'
    BY DEF TransferInv, TaskInv, Transfers, Touched
<1>4. NoMixture'
    BY DEF TransferInv, NoMixture
<1>5. \A r \in Requests : RequestInv(r) => RequestInv(r)'
    BY <1>1, <1>2, RequestStable DEF TransferInv
<1>6. \A a \in Answers : AnswerInv(a) => AnswerInv(a)'
    BY <1>1, <1>2, AnswerStable DEF TransferInv
<1>7. MessageInv'
    BY <1>1, <1>2, <1>5, <1>6, MessagesStable DEF TransferInv
<1>. QED
    BY <1>3, <1>4, <1>7 DEF TransferInv

\* The handshake ends well preserves TransferInv.
LEMMA HandshakeOkStep == TransferInv /\ HandshakeOk => TransferInv'
<1>. SUFFICES ASSUME TransferInv, HandshakeOk PROVE TransferInv'
    OBVIOUS
<1>1. tasks' \in Seq(Ids)
    BY EraseFirstType DEF HandshakeOk, TransferInv, TypeOK, RemoveTask
<1>2. TypeOK'
    BY <1>1 DEF HandshakeOk, TransferInv, TypeOK, fileVars, netVars
<1>. QED
    BY <1>2, QuietStep DEF HandshakeOk, fileVars, netVars

\* USER_START preserves TransferInv.
LEMMA UserStartStep == TransferInv /\ UserStart => TransferInv'
<1>. SUFFICES ASSUME TransferInv, UserStart PROVE TransferInv'
    OBVIOUS
<1>0. starting' \in BOOLEAN /\ canSend' \in BOOLEAN
    BY DEF UserStart, TransferInv, TypeOK
<1>a. /\ loops' \in Nat
      /\ UNCHANGED <<size, dst, has, tasks, info, nextId, phase, slow, replacing, reqs,
                     acks, late, needReconnect, done>>
    BY DEF UserStart, TransferInv, TypeOK, fileVars, netVars, taskVars
<1>1. TypeOK'
    BY <1>0, <1>a DEF TransferInv, TypeOK
<1>. QED
    BY <1>1, QuietStep DEF UserStart, fileVars, netVars, taskVars

\* The timer of the client preserves TransferInv.
LEMMA TimerStep == TransferInv /\ Timer => TransferInv'
<1>. SUFFICES ASSUME TransferInv, Timer PROVE TransferInv'
    OBVIOUS
<1>1. TypeOK'
    BY DEF Timer, TransferInv, TypeOK, fileVars, netVars, taskVars, connVars
<1>. QED
    BY <1>1, QuietStep DEF Timer, fileVars, netVars, taskVars

\* USER_LOOP with nothing to send preserves TransferInv.
LEMMA UserLoopIdleStep == TransferInv /\ UserLoopIdle => TransferInv'
<1>. SUFFICES ASSUME TransferInv, UserLoopIdle PROVE TransferInv'
    OBVIOUS
<1>1. TypeOK'
    BY DEF UserLoopIdle, TakeLoop, TransferInv, TypeOK, fileVars, netVars, taskVars,
           connVars
<1>. QED
    BY <1>1, QuietStep DEF UserLoopIdle, fileVars, netVars, taskVars

\* USER_LOOP with a left-over Connect task preserves TransferInv.
LEMMA UserLoopConnectStep == TransferInv /\ UserLoopConnect => TransferInv'
<1>. SUFFICES ASSUME TransferInv, UserLoopConnect PROVE TransferInv'
    OBVIOUS
<1>0. canSend' \in BOOLEAN
    BY DEF UserLoopConnect, Serving
<1>a. /\ loops' \in Nat
      /\ UNCHANGED <<size, dst, has, tasks, info, nextId, phase, starting, slow,
                     replacing, reqs, acks, late, needReconnect, done>>
    BY DEF UserLoopConnect, Serving, TakeLoop, TransferInv, TypeOK, fileVars, connVars
<1>1. TypeOK'
    BY <1>0, <1>a DEF TransferInv, TypeOK
<1>. QED
    BY <1>1, QuietStep DEF UserLoopConnect, Serving, fileVars

\* What a client that gives up its connection does to the messages.
LEMMA AbandonProperties ==
    ASSUME TypeOK, Abandon
    PROVE  late' \subseteq Requests /\ \A r \in late' : r \in late \/ Known(reqs, r)
<1>1. reqs \in Seq(Requests) /\ late \subseteq Requests
    BY DEF TypeOK
<1>2. \A r \in late' : r \in late \/ Known(reqs, r)
    BY DEF Abandon, Known
<1>3. \A r : Known(reqs, r) => r \in Requests
    BY <1>1 DEF Known
<1>. QED
    BY <1>1, <1>2, <1>3

\* The connection breaks preserves TransferInv.
LEMMA DisconnectStep == TransferInv /\ Disconnect => TransferInv'
<1>. SUFFICES ASSUME TransferInv, Disconnect PROVE TransferInv'
    OBVIOUS
<1>1. late' \subseteq Requests /\ \A r \in late' : r \in late \/ Known(reqs, r)
    BY AbandonProperties DEF TransferInv, Disconnect
<1>2. TypeOK'
    BY <1>1 DEF Disconnect, TransferInv, TypeOK, fileVars, taskVars
<1>3. \A r : ~Known(reqs', r) /\ ~Known(acks', r)
    BY DEF Disconnect, Known
<1>. QED
    BY <1>1, <1>2, <1>3, QuietStep DEF Disconnect, fileVars, taskVars
\* A step that changes no file and only results of tasks, and keeps or drops
\* messages.
LEMMA ResultStep ==
    ASSUME TransferInv, TypeOK', UNCHANGED <<size, dst, nextId>>,
           \A t \in Ids : /\ info'[t].type = info[t].type
                          /\ info'[t].file = info[t].file
                          /\ info'[t].offset = info[t].offset,
           \A r \in Requests : Known(reqs', r) => Known(reqs, r),
           \A r \in late' : r \in late \/ Known(reqs, r),
           \A a \in Answers : Known(acks', a) => Known(acks, a)
    PROVE  TransferInv'
<1>1. FilesKept
    BY DEF FilesKept, Touched, TransferInv, TypeOK
<1>2. TransfersKept
    BY DEF TransfersKept, Transfers
<1>3. TaskInv'
    BY DEF TransferInv, TaskInv, Transfers, Touched
<1>4. NoMixture'
    BY DEF TransferInv, NoMixture
<1>5. MessageInv'
    BY <1>1, <1>2, MessagesStable DEF TransferInv
<1>. QED
    BY <1>3, <1>4, <1>5 DEF TransferInv

\* The visit code is refused preserves TransferInv.
LEMMA HandshakeMismatchStep == TransferInv /\ HandshakeMismatch => TransferInv'
<1>. SUFFICES ASSUME TransferInv, HandshakeMismatch PROVE TransferInv'
    OBVIOUS
<1>. DEFINE c == FirstOf(tasks, OfType("Connect"))
<1>1. tasks \in Seq(Ids) /\ c # NoTask
    BY DEF TransferInv, TypeOK, HandshakeMismatch
<1>2. c \in Ids
    BY <1>1, FirstOfProperties
<1>3. info' = [info EXCEPT ![c].result = "VisitCodeMismatch"]
    BY DEF HandshakeMismatch
<1>. HIDE DEF c
<1>4. info \in [Ids -> Tasks]
    BY DEF TransferInv, TypeOK
<1>5. info' \in [Ids -> Tasks]
    BY <1>2, <1>3, <1>4 DEF Tasks
<1>6. TypeOK'
    BY <1>5 DEF HandshakeMismatch, TransferInv, TypeOK, fileVars, netVars
<1>7. \A t \in Ids : /\ info'[t].type = info[t].type
                     /\ info'[t].file = info[t].file
                     /\ info'[t].offset = info[t].offset
    BY <1>2, <1>3, <1>4 DEF Tasks
<1>. QED
    BY <1>6, <1>7, ResultStep DEF HandshakeMismatch, fileVars, netVars

\* A step that creates one task object and touches no file.
LEMMA NewTaskStep ==
    ASSUME TransferInv, TypeOK', nextId \in Ids,
           NEW ty \in {"Connect", "Upload", "Download"},
           NEW f, ty # "Connect" => f \in Files, NEW n,
           info' = [info EXCEPT ![nextId] = Task(ty, f, n)], nextId' = nextId + 1,
           UNCHANGED <<size, dst>>,
           \A r \in Requests : Known(reqs', r) => Known(reqs, r),
           \A r \in late' : r \in late \/ Known(reqs, r),
           \A a \in Answers : Known(acks', a) => Known(acks, a)
    PROVE  TransferInv'
<1>1. FilesKept
    BY DEF FilesKept, Touched, TransferInv, TypeOK
<1>2. nextId \in Nat /\ info \in [Ids -> Tasks] /\ info[nextId].type = "None"
    BY DEF TransferInv, TypeOK, TaskInv
<1>3. \A t \in Ids : t # nextId => info'[t] = info[t]
    BY <1>2
<1>4. /\ info'[nextId].type = ty /\ info'[nextId].file = f
      /\ info'[nextId].offset = -1
    BY <1>2 DEF Task
<1>5. TransfersKept
    BY <1>2, <1>3 DEF TransfersKept, Transfers
<1>6. TaskInv'
  <2>. SUFFICES ASSUME NEW t \in Ids
                PROVE  /\ t >= nextId' => info'[t].type = "None"
                       /\ t \in Transfers' => info'[t].file \in Files
                       /\ t \in Transfers' /\ info'[t].offset >= 0
                             => Touched(info[t].file)'
    BY DEF TaskInv
  <2>1. CASE t = nextId
    BY <1>2, <1>4, <2>1 DEF Transfers
  <2>2. CASE t # nextId
    <3>1. t >= nextId' => info'[t].type = "None"
      BY <1>2, <1>3, <2>2 DEF TransferInv, TaskInv, Ids
    <3>2. t \in Transfers' <=> t \in Transfers
      BY <1>3, <2>2 DEF Transfers
    <3>. QED
      BY <1>3, <2>2, <3>1, <3>2 DEF TransferInv, TaskInv, Touched
  <2>. QED
    BY <2>1, <2>2
<1>7. NoMixture'
    BY DEF TransferInv, NoMixture
<1>8. MessageInv'
    BY <1>1, <1>5, MessagesStable DEF TransferInv
<1>. QED
    BY <1>6, <1>7, <1>8 DEF TransferInv

\* The task object a step creates has the type of one.
LEMMA NewTaskType ==
    ASSUME TypeOK, nextId <= MaxTasks,
           NEW ty \in {"Connect", "Upload", "Download"},
           NEW f \in Files \cup {NoFile}, NEW n \in Nat,
           NEW kept \in Seq(Ids),
           LET tab == [info EXCEPT ![nextId] = Task(ty, f, n)]
           IN  info' = tab /\ tasks' = Add(kept, Prios(tab), nextId)
    PROVE  nextId \in Ids /\ info' \in [Ids -> Tasks] /\ tasks' \in Seq(Ids)
<1>1. nextId \in Ids
    BY ConstAssumption DEF TypeOK, Ids
<1>2. Task(ty, f, n) \in Tasks
    BY DEF Task, Tasks
<1>3. info' \in [Ids -> Tasks]
    BY <1>1, <1>2 DEF TypeOK
<1>4. tasks' \in Seq(Ids)
    BY <1>1, AddProperties, PriosType
<1>. QED
    BY <1>1, <1>3, <1>4
\* The user asks for a transfer preserves TransferInv.
LEMMA UiTransferStep == TransferInv /\ (\E f \in Files : UiTransfer(f)) => TransferInv'
<1>. SUFFICES ASSUME TransferInv, NEW f \in Files, UiTransfer(f) PROVE TransferInv'
    OBVIOUS
<1>. DEFINE ty   == IF f \in UpFiles THEN "Upload" ELSE "Download"
            kept == CleanError(tasks, Ids \ OkTasks, OfType("Connect"))
            n    == size[f]
<1>0. TypeOK
    BY DEF TransferInv
<1>1. ty \in {"Upload", "Download"} /\ kept \in Seq(Ids) /\ n \in Nat
    BY <1>0, EraseFirstType DEF TypeOK, CleanError
<1>2. /\ nextId <= MaxTasks /\ nextId' = nextId + 1 /\ loops' = loops + 1
      /\ LET tab == [info EXCEPT ![nextId] = Task(ty, f, n)]
         IN  info' = tab /\ tasks' = Add(kept, Prios(tab), nextId)
      /\ UNCHANGED <<size, dst, has, phase, starting, slow, replacing, canSend, reqs,
                     acks, late, needReconnect, done>>
    BY DEF UiTransfer, fileVars, connVars, netVars
<1>. HIDE DEF ty, kept, n
<1>3. nextId \in Ids /\ info' \in [Ids -> Tasks] /\ tasks' \in Seq(Ids)
    BY <1>0, <1>1, <1>2, NewTaskType
<1>4. TypeOK'
    BY <1>0, <1>2, <1>3 DEF TypeOK
<1>. QED
    BY <1>1, <1>2, <1>3, <1>4, NewTaskStep

\* Shared by the two ways in which the UI replaces the client.
LEMMA ResetClientStep ==
    ASSUME TransferInv, NEW kept \in Seq(Ids), NEW posts \in Nat,
           ResetClient(kept, posts), needReconnect' \in Nat,
           UNCHANGED <<size, fileVars, done>>
    PROVE  TransferInv'
<1>0. TypeOK
    BY DEF TransferInv
<1>1. late' \subseteq Requests /\ \A r \in late' : r \in late \/ Known(reqs, r)
    BY <1>0, AbandonProperties DEF ResetClient
<1>2. /\ nextId <= MaxTasks /\ nextId' = nextId + 1 /\ loops' = posts
      /\ phase' = "connecting" /\ reqs' = <<>> /\ acks' = <<>>
      /\ LET tab == [info EXCEPT ![nextId] = Task("Connect", NoFile, 0)]
         IN  info' = tab /\ tasks' = Add(kept, Prios(tab), nextId)
    BY DEF ResetClient
<1>3. /\ starting' \in BOOLEAN /\ slow' \in BOOLEAN /\ canSend' \in BOOLEAN
      /\ replacing' \in BOOLEAN
    BY DEF ResetClient
<1>4. nextId \in Ids /\ info' \in [Ids -> Tasks] /\ tasks' \in Seq(Ids)
    BY <1>0, <1>2, NewTaskType
<1>5. TypeOK'
    BY <1>0, <1>1, <1>2, <1>3, <1>4 DEF TypeOK, fileVars
<1>6. \A r : ~Known(reqs', r) /\ ~Known(acks', r)
    BY <1>2 DEF Known
<1>. QED
    BY <1>1, <1>2, <1>4, <1>5, <1>6, NewTaskStep DEF fileVars

\* The UI replaces the client preserves TransferInv.
LEMMA UiReconnectStep == TransferInv /\ UiReconnect => TransferInv'
<1>1. TransferInv => tasks \in Seq(Ids)
    BY DEF TransferInv, TypeOK
<1>2. TransferInv /\ UiReconnect => needReconnect' \in Nat
    BY DEF UiReconnect, TransferInv, TypeOK
<1>. QED
    BY <1>1, <1>2, ResetClientStep DEF UiReconnect

\* The user connects anew, cleanAll: preserves TransferInv.
LEMMA UiCleanAllStep == TransferInv /\ UiCleanAll => TransferInv'
<1>. SUFFICES ASSUME TransferInv, UiCleanAll PROVE TransferInv'
    OBVIOUS
<1>1. tasks' \in Seq(Ids) /\ replacing' \in BOOLEAN
    BY DEF UiCleanAll
<1>2. TypeOK'
    BY <1>1 DEF UiCleanAll, TransferInv, TypeOK, fileVars, netVars
<1>. QED
    BY <1>2, QuietStep DEF UiCleanAll, fileVars, netVars

\* and the old client replaced: preserves TransferInv.
LEMMA UiConnectStep == TransferInv /\ UiConnect => TransferInv'
<1>1. TransferInv /\ UiConnect => needReconnect' \in Nat
    BY DEF UiConnect, TransferInv, TypeOK
<1>2. TransferInv => tasks \in Seq(Ids)
    BY DEF TransferInv, TypeOK
<1>. QED
    BY <1>1, <1>2, ResetClientStep DEF UiConnect

\* What fmReadFile may return, for every fault.
LEMMA ReadOutcomesProperties ==
    ASSUME TypeOK, NEW f \in Files, NEW pos \in Nat, NEW seg \in ReadOutcomes(f, pos)
    PROVE  /\ seg \in Segs
           /\ seg.result \in {"Ok", "ReachEnd"} => IsSlice(seg, size[f])
<1>1. size[f] \in Nat /\ SegLen \in Nat
    BY ConstAssumption DEF TypeOK
<1>2. CASE seg = fmReadFile(size[f], pos, SegLen)
    BY <1>1, <1>2, ReadIsSlice
<1>3. CASE seg = fmReadFileNoOpen(pos)
  <2>1. seg \in Segs /\ seg.result = "NotExist"
    BY <1>3 DEF fmReadFileNoOpen, Segs
  <2>. QED
    BY <2>1
<1>. QED
    BY <1>2, <1>3 DEF ReadOutcomes

\* The segment of the requests that carry none.
LEMMA NoSegType == NoSeg \in Segs
    BY DEF NoSeg, Segs

\* Serving a task: the task is a known one of this type.
LEMMA ServingProperties ==
    ASSUME TransferInv, NEW ty \in {"Upload", "Download"}, Serving(ty)
    PROVE  /\ First \in Ids /\ First \in Transfers /\ info[First] \in Tasks
           /\ info[First].file \in Files /\ info[First].offset \in Int
           /\ info[First].offset >= 0 => Touched(info[First].file)
           /\ loops' \in Nat /\ canSend' \in BOOLEAN
           /\ UNCHANGED <<size, phase, starting, slow, replacing, tasks, nextId, acks,
                          late, needReconnect, done>>
<1>1. First \in Ids
    BY FirstType DEF Serving, TransferInv
<1>2. info[First] \in Tasks /\ info[First].type = ty
    BY <1>1 DEF Serving, TransferInv, TypeOK
<1>3. First \in Transfers
    BY <1>1, <1>2 DEF Transfers
<1>4. /\ info[First].file \in Files
      /\ info[First].offset >= 0 => Touched(info[First].file)
    BY <1>1, <1>3 DEF TransferInv, TaskInv
<1>5. info[First].offset \in Int
    BY <1>2 DEF Tasks
<1>6. canSend' \in BOOLEAN
    BY DEF Serving
<1>7. loops' \in Nat
    BY DEF Serving, TakeLoop, TransferInv, TypeOK
<1>8. UNCHANGED <<size, phase, starting, slow, replacing, tasks, nextId, acks, late,
                  needReconnect, done>>
    BY DEF Serving, connVars
<1>. QED
    BY <1>1, <1>2, <1>3, <1>4, <1>5, <1>6, <1>7, <1>8

\* FmcUpFile::req preserves TransferInv.
LEMMA ReqUploadStep == TransferInv /\ ReqUpload => TransferInv'
<1>. SUFFICES ASSUME TransferInv, ReqUpload PROVE TransferInv'
    OBVIOUS
<1>0. TypeOK /\ Serving("Upload")
    BY DEF TransferInv, ReqUpload
<1>1. PICK t \in Ids : t = First /\ t \in Transfers
    BY <1>0, ServingProperties
<1>2. /\ info[t].file \in Files /\ info[t].offset \in Int
      /\ info[t].offset >= 0 => Touched(info[t].file)
      /\ loops' \in Nat /\ canSend' \in BOOLEAN
      /\ UNCHANGED <<size, phase, starting, slow, replacing, tasks, nextId, acks, late,
                     needReconnect, done>>
    BY <1>0, <1>1, ServingProperties
<1>3. PICK seg \in (IF info[t].offset < 0 THEN {NoSeg}
                   ELSE ReadOutcomes(info[t].file, info[t].offset)) :
          reqs' = Append(reqs, [cmd |-> "Up", id |-> t, file |-> info[t].file,
                                pos |-> info[t].offset, seg |-> seg])
    BY <1>1 DEF ReqUpload
<1>4. /\ seg \in Segs
      /\ info[t].offset >= 0 /\ seg.result \in {"Ok", "ReachEnd"}
            => IsSlice(seg, size[info[t].file])
  <2>1. CASE info[t].offset < 0
    BY <1>2, <1>3, <2>1, NoSegType
  <2>2. CASE info[t].offset >= 0
    BY <1>0, <1>2, <1>3, <2>2, ReadOutcomesProperties
  <2>. QED
    BY <1>2, <2>1, <2>2
<1>5. PICK r \in Requests :
         /\ r.cmd = "Up" /\ r.id = t /\ r.file = info[t].file
         /\ r.pos = info[t].offset /\ r.seg = seg
         /\ reqs' = Append(reqs, r)
    BY <1>2, <1>3, <1>4 DEF Requests
<1>6. RequestInv(r)
    BY <1>1, <1>2, <1>4, <1>5 DEF RequestInv
<1>7. reqs \in Seq(Requests) /\ reqs' \in Seq(Requests)
    BY <1>0, <1>5, AppendProperties DEF TypeOK
<1>8. UNCHANGED <<dst, has, info>>
    BY DEF ReqUpload, fileVars
<1>9. TypeOK'
    BY <1>0, <1>2, <1>7, <1>8 DEF TypeOK
<1>10. \A q : Known(reqs', q) => Known(reqs, q) \/ q = r
    BY <1>5, <1>7, KnownAppend
<1>. QED
    BY <1>2, <1>6, <1>8, <1>9, <1>10, QuietStep

\* Replacing one destination by a prefix of its source keeps the files.
LEMMA ReplaceFile ==
    ASSUME TypeOK, NoMixture, NEW f \in Files, NEW file \in Seq(Nat), NEW b \in BOOLEAN,
           file = dst[f] \/ IsSourceUpTo(file, size[f]),
           dst' = [dst EXCEPT ![f] = file], has' = [has EXCEPT ![f] = b], size' = size
    PROVE  /\ FilesKept /\ NoMixture'
           /\ dst' \in [Files -> Seq(Nat)] /\ has' \in [Files -> BOOLEAN]
           /\ IsSourceUpTo(file, size[f]) => Touched(f)'
<1>1. dst \in [Files -> Seq(Nat)] /\ has \in [Files -> BOOLEAN]
    BY DEF TypeOK
<1>2. dst' \in [Files -> Seq(Nat)] /\ has' \in [Files -> BOOLEAN]
    BY <1>1
<1>3. dst'[f] = file /\ \A g \in Files : g # f => dst'[g] = dst[g]
    BY <1>1
<1>4. \A g \in Files : size[g] \in Nat /\ size'[g] = size[g]
    BY DEF TypeOK
<1>5. FilesKept
    BY <1>3, <1>4 DEF FilesKept, Touched
<1>6. NoMixture'
    BY <1>3, <1>4 DEF NoMixture
<1>7. IsSourceUpTo(file, size[f]) => Touched(f)'
    BY <1>3, <1>4 DEF Touched
<1>. QED
    BY <1>2, <1>5, <1>6, <1>7

\* The empty file is a prefix of every source.
LEMMA EmptyIsPrefix ==
    ASSUME NEW n \in Nat PROVE IsSourceUpTo(<<>>, n) /\ <<>> \in Seq(Nat)
    BY DEF IsSourceUpTo

\* A step that changes one task object of a transfer: offset and result.
LEMMA OneTaskStep ==
    ASSUME TransferInv, TypeOK', FilesKept, NoMixture', nextId' = nextId,
           NEW k \in Ids, k \in Transfers,
           \A t \in Ids : t # k => info'[t] = info[t],
           info'[k].type = info[k].type, info'[k].file = info[k].file,
           info'[k].offset >= 0 => info'[k].offset = info[k].offset
                                   \/ Touched(info[k].file)',
           \A r \in Requests : Known(reqs', r) => Known(reqs, r) \/ RequestInv(r)',
           \A r \in late' : r \in late \/ Known(reqs, r),
           \A a \in Answers : Known(acks', a) => Known(acks, a) \/ AnswerInv(a)'
    PROVE  TransferInv'
<1>1. TransfersKept
    BY DEF TransfersKept, Transfers
<1>2. TaskInv'
  <2>. SUFFICES ASSUME NEW t \in Ids
                PROVE  /\ t >= nextId' => info'[t].type = "None"
                       /\ t \in Transfers' => info'[t].file \in Files
                       /\ t \in Transfers' /\ info'[t].offset >= 0
                             => Touched(info[t].file)'
    BY DEF TaskInv
  <2>1. info'[t].type = info[t].type /\ info'[t].file = info[t].file
    OBVIOUS
  <2>2. t \in Transfers' <=> t \in Transfers
    BY <2>1 DEF Transfers
  <2>3. /\ t >= nextId => info[t].type = "None"
        /\ t \in Transfers => info[t].file \in Files
        /\ t \in Transfers /\ info[t].offset >= 0 => Touched(info[t].file)
    BY DEF TransferInv, TaskInv
  <2>4. ASSUME t \in Transfers, info'[t].offset >= 0 PROVE Touched(info[t].file)'
    <3>1. PICK f \in Files : f = info[t].file /\ f = info'[t].file
      BY <2>1, <2>3, <2>4
    <3>2. CASE t = k /\ Touched(info[k].file)'
      BY <3>2
    <3>3. CASE info'[t].offset = info[t].offset
      <4>1. Touched(f)'
        BY <2>3, <2>4, <3>1, <3>3 DEF FilesKept
      <4>. QED
        BY <3>1, <4>1 DEF Touched
    <3>. QED
      BY <2>4, <3>2, <3>3
  <2>. QED
    BY <2>1, <2>2, <2>3, <2>4
<1>3. MessageInv'
    BY <1>1, MessagesStable DEF TransferInv
<1>. QED
    BY <1>2, <1>3 DEF TransferInv

\* FmcDownFile::req preserves TransferInv.
LEMMA ReqDownloadStep == TransferInv /\ ReqDownload => TransferInv'
<1>. SUFFICES ASSUME TransferInv, ReqDownload PROVE TransferInv'
    OBVIOUS
<1>0. TypeOK /\ NoMixture /\ Serving("Download")
    BY DEF TransferInv, ReqDownload
<1>1. PICK t \in Ids : t = First /\ t \in Transfers
    BY <1>0, ServingProperties
<1>2. /\ info[t].file \in Files /\ info[t].offset \in Int /\ info[t] \in Tasks
      /\ info[t].offset >= 0 => Touched(info[t].file)
      /\ loops' \in Nat /\ canSend' \in BOOLEAN
      /\ UNCHANGED <<size, phase, starting, slow, replacing, tasks, nextId, acks, late,
                     needReconnect, done>>
    BY <1>0, <1>1, ServingProperties
<1>3. PICK f \in Files : f = info[t].file
    BY <1>2
<1>4. PICK pos \in Nat : pos = IF info[t].offset < 0 THEN 0 ELSE info[t].offset
    BY <1>2
<1>5. /\ IF info[t].offset < 0 THEN Unlink(f) ELSE UNCHANGED <<dst, has>>
      /\ info' = [info EXCEPT ![t].offset = pos]
      /\ reqs' = Append(reqs, [cmd |-> "Down", id |-> t, file |-> f,
                               pos |-> pos, seg |-> NoSeg])
    BY <1>1, <1>3, <1>4 DEF ReqDownload, fileVars
<1>6. /\ FilesKept /\ NoMixture' /\ Touched(f)'
      /\ dst' \in [Files -> Seq(Nat)] /\ has' \in [Files -> BOOLEAN]
  <2>1. CASE info[t].offset < 0
    <3>1. size[f] \in Nat
      BY <1>0 DEF TypeOK
    <3>2. IsSourceUpTo(<<>>, size[f]) /\ <<>> \in Seq(Nat)
      BY <3>1, EmptyIsPrefix
    <3>3. /\ dst' = [dst EXCEPT ![f] = <<>>] /\ has' = [has EXCEPT ![f] = FALSE]
          /\ size' = size
      BY <1>2, <1>5, <2>1 DEF Unlink
    <3>. QED
      BY <1>0, <3>2, <3>3, ReplaceFile
  <2>2. CASE info[t].offset >= 0
    <3>1. UNCHANGED <<dst, has, size>>
      BY <1>2, <1>5, <2>2
    <3>2. \A g \in Files : size[g] \in Nat
      BY <1>0 DEF TypeOK
    <3>. QED
      BY <1>0, <1>2, <1>3, <2>2, <3>1, <3>2 DEF FilesKept, NoMixture, Touched, TypeOK
  <2>. QED
    BY <1>2, <2>1, <2>2
<1>7. PICK r \in Requests :
         /\ r.cmd = "Down" /\ r.id = t /\ r.file = f /\ r.pos = pos
         /\ reqs' = Append(reqs, r)
    BY <1>5, NoSegType DEF Requests
<1>8. info \in [Ids -> Tasks]
    BY <1>0 DEF TypeOK
<1>9. /\ info' \in [Ids -> Tasks]
      /\ \A u \in Ids : u # t => info'[u] = info[u]
      /\ info'[t].type = info[t].type /\ info'[t].file = f /\ info'[t].offset = pos
  <2>1. info'[t] = [info[t] EXCEPT !.offset = pos]
    BY <1>5, <1>8
  <2>2. info'[t] \in Tasks
    BY <1>2, <2>1 DEF Tasks
  <2>3. info'[t].type = info[t].type /\ info'[t].file = f /\ info'[t].offset = pos
    BY <1>2, <1>3, <2>1 DEF Tasks
  <2>4. \A u \in Ids : u # t => info'[u] = info[u]
    BY <1>5, <1>8
  <2>5. info' \in [Ids -> Tasks]
    <3>1. info' = [info EXCEPT ![t] = info'[t]]
      BY <1>5, <1>8
    <3>. QED
      BY <1>8, <2>2, <3>1
  <2>. QED
    BY <2>3, <2>4, <2>5
<1>10. reqs \in Seq(Requests) /\ reqs' \in Seq(Requests)
    BY <1>0, <1>7, AppendProperties DEF TypeOK
<1>11. TypeOK'
    BY <1>0, <1>2, <1>6, <1>9, <1>10 DEF TypeOK
<1>12. RequestInv(r)'
    BY <1>1, <1>6, <1>7, <1>9 DEF RequestInv, Transfers
<1>13. \A q : Known(reqs', q) => Known(reqs, q) \/ q = r
    BY <1>7, <1>10, KnownAppend
<1>14. \A q \in Requests : Known(reqs', q) => Known(reqs, q) \/ RequestInv(q)'
    BY <1>12, <1>13
<1>15. Touched(info[t].file)'
    BY <1>6, <1>9 DEF Touched
<1>. QED
    BY <1>1, <1>2, <1>3, <1>6, <1>9, <1>11, <1>14, <1>15, OneTaskStep

\* FmcDownFile::req on a full disk preserves TransferInv.
LEMMA ReqDownloadNoSpaceStep == TransferInv /\ ReqDownloadNoSpace => TransferInv'
<1>. SUFFICES ASSUME TransferInv, ReqDownloadNoSpace PROVE TransferInv'
    OBVIOUS
<1>0. TypeOK /\ NoMixture /\ Serving("Download")
    BY DEF TransferInv, ReqDownloadNoSpace
<1>1. PICK t \in Ids : t = First /\ t \in Transfers
    BY <1>0, ServingProperties
<1>2. /\ info[t].file \in Files /\ info[t] \in Tasks
      /\ loops' \in Nat /\ canSend' \in BOOLEAN
      /\ UNCHANGED <<size, phase, starting, slow, replacing, tasks, nextId, acks, late,
                     needReconnect, done>>
    BY <1>0, <1>1, ServingProperties
<1>3. PICK f \in Files : f = info[t].file
    BY <1>2
<1>4. /\ dst' = [dst EXCEPT ![f] = <<>>] /\ has' = [has EXCEPT ![f] = FALSE]
      /\ info' = [info EXCEPT ![t].result = "NoSpace"] /\ reqs' = reqs
    BY <1>1, <1>3 DEF ReqDownloadNoSpace, Unlink
<1>5. size[f] \in Nat /\ info \in [Ids -> Tasks]
    BY <1>0 DEF TypeOK
<1>6. IsSourceUpTo(<<>>, size[f]) /\ <<>> \in Seq(Nat)
    BY <1>5, EmptyIsPrefix
<1>7. /\ FilesKept /\ NoMixture'
      /\ dst' \in [Files -> Seq(Nat)] /\ has' \in [Files -> BOOLEAN]
    BY <1>0, <1>2, <1>4, <1>6, ReplaceFile
<1>8. info'[t] = [info[t] EXCEPT !.result = "NoSpace"]
    BY <1>4, <1>5
<1>9. info'[t] \in Tasks
    BY <1>2, <1>8 DEF Tasks
<1>10. /\ info'[t].type = info[t].type /\ info'[t].file = info[t].file
       /\ info'[t].offset = info[t].offset
    BY <1>2, <1>8 DEF Tasks
<1>11. \A u \in Ids : u # t => info'[u] = info[u]
    BY <1>4, <1>5
<1>12. info' \in [Ids -> Tasks]
    <2>1. info' = [info EXCEPT ![t] = info'[t]]
      BY <1>4, <1>5
    <2>. QED
      BY <1>5, <1>9, <2>1
<1>13. TypeOK'
    BY <1>0, <1>2, <1>4, <1>7, <1>12 DEF TypeOK
<1>14. /\ nextId' = nextId
       /\ \A r \in Requests : Known(reqs', r) => Known(reqs, r) \/ RequestInv(r)'
       /\ \A q \in late' : q \in late \/ Known(reqs, q)
       /\ \A a \in Answers : Known(acks', a) => Known(acks, a) \/ AnswerInv(a)'
    BY <1>2, <1>4
<1>. QED
    BY <1>1, <1>7, <1>10, <1>11, <1>13, <1>14, OneTaskStep

-----------------------------------------------------------------------------
\* Every outcome of fmWriteFile on a cleared destination is a prefix of the
\* source.
LEMMA WriteOutcomesProperties ==
    ASSUME TypeOK, NEW f \in Files, NEW seg \in Segs, IsSlice(seg, size[f]),
           Touched(f), NEW w \in WriteOutcomes(f, seg)
    PROVE  /\ w.file \in Seq(Nat) /\ w.ret \in Int /\ w.has \in BOOLEAN
           /\ IsSourceUpTo(w.file, size[f])
<1>1. /\ dst[f] \in Seq(Nat) /\ size[f] \in Nat /\ has[f] \in BOOLEAN
      /\ IsSourceUpTo(dst[f], size[f]) /\ Len(seg.buf) \in Nat
    BY DEF TypeOK, Touched, Segs
<1>2. CASE w = [ret |-> -1, file |-> dst[f], has |-> has[f]]
    BY <1>1, <1>2
<1>3. ASSUME NEW k \in Wrote(seg),
             w = [ret |-> fmWriteFile(dst[f], seg, k).ret,
                  file |-> fmWriteFile(dst[f], seg, k).file, has |-> TRUE]
      PROVE  /\ w.file \in Seq(Nat) /\ w.ret \in Int /\ w.has \in BOOLEAN
             /\ IsSourceUpTo(w.file, size[f])
  <2>1. k \in 0 .. Len(seg.buf)
    BY <1>1, <1>3 DEF Wrote
  <2>2. /\ fmWriteFile(dst[f], seg, k).file \in Seq(Nat)
        /\ fmWriteFile(dst[f], seg, k).ret \in Int
        /\ IsSourceUpTo(fmWriteFile(dst[f], seg, k).file, size[f])
    BY <1>1, <2>1, WriteKeepsPrefix
  <2>3. /\ w.file = fmWriteFile(dst[f], seg, k).file
        /\ w.ret = fmWriteFile(dst[f], seg, k).ret
    BY <1>3
  <2>4. w.has \in BOOLEAN
    BY <1>3
  <2>. QED
    BY <2>2, <2>3, <2>4
<1>. QED
    BY <1>2, <1>3 DEF WriteOutcomes

\* FmsUpFile::echo answers a non-negative position only after it cleared the
\* destination, and leaves a prefix of the source or the file as it was.
LEMMA UpResultsProperties ==
    ASSUME TypeOK, NEW r \in Requests, r.cmd = "Up", RequestInv(r),
           NEW out \in UpResults(r)
    PROVE  /\ out.file \in Seq(Nat) /\ out.has \in BOOLEAN /\ out.pos \in Int
           /\ out.result \in {"Ok", "ReachEnd", "SeekExceed", "NotExist",
                              "NoSpace", "Failed"}
           /\ out.file = dst[r.file] \/ IsSourceUpTo(out.file, size[r.file])
           /\ out.pos >= 0 => IsSourceUpTo(out.file, size[r.file])
<1>1. /\ r.file \in Files /\ r.pos \in Int /\ r.seg \in Segs
      /\ r.seg.result \in {"Ok", "ReachEnd", "SeekExceed", "NotExist"}
    BY DEF Requests, Segs
<1>2. dst[r.file] \in Seq(Nat) /\ size[r.file] \in Nat /\ has[r.file] \in BOOLEAN
    BY <1>1 DEF TypeOK
<1>3. CASE r.pos < 0
  <2>1. CASE out = [pos |-> 0, result |-> "Ok", file |-> <<>>, has |-> FALSE]
    <3>1. IsSourceUpTo(<<>>, size[r.file]) /\ <<>> \in Seq(Nat)
      BY <1>2, EmptyIsPrefix
    <3>2. out.has \in BOOLEAN
      BY <2>1
    <3>. QED
      BY <2>1, <3>1, <3>2
  <2>2. CASE out = [pos |-> r.pos, result |-> "NoSpace",
                    file |-> dst[r.file], has |-> has[r.file]]
    BY <1>1, <1>2, <1>3, <2>2
  <2>. QED
    BY <1>3, <2>1, <2>2 DEF UpResults
<1>4. CASE r.pos >= 0 /\ r.seg.result \in {"Ok", "ReachEnd"}
  <2>1. IsSlice(r.seg, size[r.file]) /\ Touched(r.file)
    BY <1>4 DEF RequestInv
  <2>2. PICK w \in WriteOutcomes(r.file, r.seg) :
            out = [pos    |-> IF w.ret < 0 THEN r.pos ELSE r.pos + w.ret,
                   result |-> IF w.ret < 0 THEN "Failed" ELSE r.seg.result,
                   file   |-> w.file, has |-> w.has]
    BY <1>1, <1>4 DEF UpResults
  <2>3. /\ w.file \in Seq(Nat) /\ w.ret \in Int /\ w.has \in BOOLEAN
        /\ IsSourceUpTo(w.file, size[r.file])
    BY <1>1, <2>1, WriteOutcomesProperties
  <2>4. /\ out.pos = IF w.ret < 0 THEN r.pos ELSE r.pos + w.ret
        /\ out.result = IF w.ret < 0 THEN "Failed" ELSE r.seg.result
        /\ out.file = w.file
    BY <2>2
  <2>5. out.has \in BOOLEAN
    BY <2>2, <2>3
  <2>. QED
    BY <1>1, <2>3, <2>4, <2>5
<1>5. CASE r.pos >= 0 /\ r.seg.result \notin {"Ok", "ReachEnd"}
  <2>1. out = [pos |-> r.pos, result |-> r.seg.result,
               file |-> dst[r.file], has |-> has[r.file]]
    BY <1>1, <1>5 DEF UpResults
  <2>2. Touched(r.file)
    BY <1>5 DEF RequestInv
  <2>3. out.has \in BOOLEAN
    BY <1>2, <2>1
  <2>4. /\ out.pos = r.pos /\ out.result = r.seg.result /\ out.file = dst[r.file]
    BY <2>1
  <2>. QED
    BY <1>1, <1>2, <2>2, <2>3, <2>4 DEF Touched
<1>. QED
    BY <1>1, <1>3, <1>4, <1>5

\* A step that changes files and no task object.
LEMMA FileStep ==
    ASSUME TransferInv, TypeOK', FilesKept, NoMixture', UNCHANGED <<info, nextId>>,
           \A r \in Requests : Known(reqs', r) => Known(reqs, r),
           \A r \in late' : r \in late \/ Known(reqs, r),
           \A a \in Answers : Known(acks', a) => Known(acks, a) \/ AnswerInv(a)'
    PROVE  TransferInv'
<1>1. TransfersKept
    BY DEF TransfersKept, Transfers
<1>2. TaskInv'
  <2>. SUFFICES ASSUME NEW t \in Ids, t \in Transfers, info[t].offset >= 0
                PROVE  Touched(info[t].file)'
    BY DEF TaskInv, TransferInv, Transfers
  <2>1. PICK f \in Files : f = info[t].file /\ Touched(f)
    BY DEF TransferInv, TaskInv
  <2>2. Touched(f)'
    BY <2>1 DEF FilesKept
  <2>. QED
    BY <2>1, <2>2 DEF Touched
<1>3. MessageInv'
    BY <1>1, MessagesStable DEF TransferInv
<1>. QED
    BY <1>2, <1>3 DEF TransferInv

\* The request the server takes next.
LEMMA HeadRequest ==
    ASSUME TransferInv, reqs # <<>>, reqs' = Tail(reqs)
    PROVE  /\ Head(reqs) \in Requests /\ RequestInv(Head(reqs))
           /\ reqs' \in Seq(Requests)
           /\ \A r : Known(reqs', r) => Known(reqs, r)
<1>1. reqs \in Seq(Requests)
    BY DEF TransferInv, TypeOK
<1>2. Head(reqs) \in Requests /\ reqs' \in Seq(Requests)
    BY <1>1, HeadTailProperties
<1>3. Known(reqs, Head(reqs)) /\ \A r : Known(reqs', r) => Known(reqs, r)
    BY <1>1, KnownTail
<1>4. \A r : Known(reqs, r) => RequestInv(r)
    BY DEF TransferInv, MessageInv, Known
<1>. QED
    BY <1>2, <1>3, <1>4

\* FmsDownFile::echo preserves TransferInv.
LEMMA FmsDownStep == TransferInv /\ FmsDown => TransferInv'
<1>. SUFFICES ASSUME TransferInv, FmsDown PROVE TransferInv'
    OBVIOUS
<1>0. TypeOK /\ reqs # <<>> /\ reqs' = Tail(reqs)
    BY DEF TransferInv, FmsDown
<1>1. PICK r \in Requests : r = Head(reqs) /\ RequestInv(r) /\ r.cmd = "Down"
    BY <1>0, HeadRequest DEF FmsDown
<1>2. reqs' \in Seq(Requests) /\ \A q : Known(reqs', q) => Known(reqs, q)
    BY <1>0, HeadRequest
<1>3. /\ r.id \in Ids /\ r.file \in Files /\ r.pos \in Nat
      /\ r.id \in Transfers /\ r.file = info[r.id].file /\ Touched(r.file)
    BY <1>1 DEF Requests, RequestInv
<1>4. PICK seg \in ReadOutcomes(r.file, r.pos) :
         acks' = Append(acks, [cmd |-> "Down", id |-> r.id, pos |-> r.pos,
                               result |-> seg.result, seg |-> seg])
    BY <1>1 DEF FmsDown
<1>5. seg \in Segs /\ (seg.result \in {"Ok", "ReachEnd"} => IsSlice(seg, size[r.file]))
    BY <1>0, <1>3, ReadOutcomesProperties
<1>6. seg.result \in {"Ok", "ReachEnd", "SeekExceed", "NotExist"}
    BY <1>5 DEF Segs
<1>7. PICK a \in Answers :
         /\ a.cmd = "Down" /\ a.id = r.id /\ a.pos = r.pos /\ a.result = seg.result
         /\ a.seg = seg /\ acks' = Append(acks, a)
    BY <1>3, <1>4, <1>5, <1>6 DEF Answers
<1>8. AnswerInv(a)
    BY <1>3, <1>5, <1>7 DEF AnswerInv
<1>9. acks \in Seq(Answers) /\ acks' \in Seq(Answers)
    BY <1>0, <1>7, AppendProperties DEF TypeOK
<1>10. UNCHANGED <<size, dst, has, tasks, info, nextId, phase, starting, slow,
                   replacing, canSend, loops, late, needReconnect, done>>
    BY DEF FmsDown, fileVars, taskVars, connVars
<1>11. TypeOK'
    BY <1>0, <1>2, <1>9, <1>10 DEF TypeOK
<1>12. \A q : Known(acks', q) => Known(acks, q) \/ q = a
    BY <1>7, <1>9, KnownAppend
<1>. QED
    BY <1>2, <1>8, <1>10, <1>11, <1>12, QuietStep

\* FmsUpFile::echo preserves TransferInv.
LEMMA FmsUpStep == TransferInv /\ FmsUp => TransferInv'
<1>. SUFFICES ASSUME TransferInv, FmsUp PROVE TransferInv'
    OBVIOUS
<1>0. TypeOK /\ NoMixture /\ reqs # <<>> /\ reqs' = Tail(reqs)
    BY DEF TransferInv, FmsUp
<1>1. PICK r \in Requests : r = Head(reqs) /\ RequestInv(r) /\ r.cmd = "Up"
    BY <1>0, HeadRequest DEF FmsUp
<1>2. reqs' \in Seq(Requests) /\ \A q : Known(reqs', q) => Known(reqs, q)
    BY <1>0, HeadRequest
<1>3. r.id \in Ids /\ r.file \in Files /\ r.id \in Transfers /\ r.file = info[r.id].file
    BY <1>1 DEF Requests, RequestInv
<1>4. PICK out \in UpResults(r) :
         /\ ServeUp(r, out)
         /\ acks' = Append(acks, [cmd |-> "Up", id |-> r.id, pos |-> out.pos,
                                  result |-> out.result, seg |-> NoSeg])
    BY <1>1 DEF FmsUp
<1>5. /\ out.file \in Seq(Nat) /\ out.has \in BOOLEAN /\ out.pos \in Int
      /\ out.result \in {"Ok", "ReachEnd", "SeekExceed", "NotExist", "NoSpace",
                         "Failed"}
      /\ out.file = dst[r.file] \/ IsSourceUpTo(out.file, size[r.file])
      /\ out.pos >= 0 => IsSourceUpTo(out.file, size[r.file])
    BY <1>0, <1>1, UpResultsProperties
<1>6. UNCHANGED <<size, tasks, info, nextId, phase, starting, slow, replacing, canSend,
                  loops, late, needReconnect, done>>
    BY DEF FmsUp, taskVars, connVars
<1>7. /\ FilesKept /\ NoMixture'
      /\ dst' \in [Files -> Seq(Nat)] /\ has' \in [Files -> BOOLEAN]
      /\ IsSourceUpTo(out.file, size[r.file]) => Touched(r.file)'
    BY <1>0, <1>3, <1>4, <1>5, <1>6, ReplaceFile DEF ServeUp
<1>8. PICK a \in Answers :
         /\ a.cmd = "Up" /\ a.id = r.id /\ a.pos = out.pos
         /\ acks' = Append(acks, a)
    BY <1>3, <1>4, <1>5, NoSegType DEF Answers
<1>9. AnswerInv(a)'
    BY <1>3, <1>5, <1>6, <1>7, <1>8 DEF AnswerInv, Transfers, Touched
<1>10. acks \in Seq(Answers) /\ acks' \in Seq(Answers)
    BY <1>0, <1>8, AppendProperties DEF TypeOK
<1>11. TypeOK'
    BY <1>0, <1>2, <1>6, <1>7, <1>10 DEF TypeOK
<1>12. \A q : Known(acks', q) => Known(acks, q) \/ q = a
    BY <1>8, <1>10, KnownAppend
<1>. QED
    BY <1>2, <1>6, <1>7, <1>9, <1>11, <1>12, FileStep

\* A late request preserves TransferInv.
LEMMA FmsLateStep == TransferInv /\ FmsLate => TransferInv'
<1>. SUFFICES ASSUME TransferInv, NEW r \in late, late' = late \ {r},
                     IF r.cmd = "Up" THEN \E out \in UpResults(r) : ServeUp(r, out)
                                     ELSE UNCHANGED fileVars,
                     UNCHANGED <<size, taskVars, connVars, canSend, loops, reqs, acks,
                                 needReconnect, done>>
              PROVE  TransferInv'
    BY DEF FmsLate
<1>0. TypeOK /\ NoMixture /\ r \in Requests /\ RequestInv(r)
    BY DEF TransferInv, MessageInv, TypeOK
<1>1. /\ FilesKept /\ NoMixture'
      /\ dst' \in [Files -> Seq(Nat)] /\ has' \in [Files -> BOOLEAN]
  <2>1. CASE r.cmd = "Up"
    <3>1. PICK out \in UpResults(r) : ServeUp(r, out)
      BY <2>1
    <3>2. /\ out.file \in Seq(Nat) /\ out.has \in BOOLEAN
          /\ out.file = dst[r.file] \/ IsSourceUpTo(out.file, size[r.file])
      BY <1>0, <2>1, UpResultsProperties
    <3>3. r.file \in Files
      BY <1>0 DEF Requests
    <3>. QED
      BY <1>0, <3>1, <3>2, <3>3, ReplaceFile DEF ServeUp
  <2>2. CASE r.cmd # "Up"
    <3>1. UNCHANGED <<size, dst, has>>
      BY <2>2 DEF fileVars
    <3>2. \A g \in Files : size[g] \in Nat
      BY <1>0 DEF TypeOK
    <3>. QED
      BY <1>0, <3>1, <3>2 DEF FilesKept, NoMixture, Touched, TypeOK
  <2>. QED
    BY <2>1, <2>2
<1>2. TypeOK'
    BY <1>0, <1>1 DEF TypeOK, taskVars, connVars
<1>. QED
    BY <1>1, <1>2, FileStep DEF taskVars

\* A source that grows preserves TransferInv.
LEMMA GrowSourceStep == TransferInv /\ (\E f \in Files : GrowSource(f)) => TransferInv'
<1>. SUFFICES ASSUME TransferInv, NEW f \in Files, GrowSource(f) PROVE TransferInv'
    OBVIOUS
<1>0. TypeOK /\ NoMixture
    BY DEF TransferInv
<1>1. /\ size' = [size EXCEPT ![f] = @ + 1]
      /\ UNCHANGED <<dst, has, tasks, info, nextId, phase, starting, slow, replacing,
                     canSend, loops, reqs, acks, late, needReconnect, done>>
    BY DEF GrowSource, fileVars, taskVars, connVars, netVars
<1>2. size' \in [Files -> Nat] /\ \A g \in Files : size[g] <= size'[g]
    BY <1>0, <1>1 DEF TypeOK
<1>3. TypeOK'
    BY <1>0, <1>1, <1>2 DEF TypeOK
<1>4. \A g \in Files : Len(dst[g]) \in Nat /\ size[g] \in Nat /\ size'[g] \in Nat
    BY <1>0, <1>2 DEF TypeOK
<1>5. FilesKept
    BY <1>1, <1>2, <1>4 DEF FilesKept, Touched, IsSourceUpTo
<1>6. NoMixture'
    BY <1>0, <1>1, <1>5 DEF NoMixture, FilesKept, Touched
<1>. QED
    BY <1>1, <1>3, <1>5, <1>6, FileStep

\* What all answers do, and the answer that is taken.
LEMMA TakeAckProperties ==
    ASSUME TransferInv, NEW cmd \in {"Up", "Down"}, TakeAck(cmd)
    PROVE  /\ Head(acks) \in Answers /\ AnswerInv(Head(acks)) /\ Head(acks).cmd = cmd
           /\ acks' \in Seq(Answers)
           /\ \A a : Known(acks', a) => Known(acks, a)
           /\ canSend' \in BOOLEAN /\ slow' \in BOOLEAN /\ loops' \in Nat
           /\ UNCHANGED <<size, nextId, phase, starting, replacing, reqs, late,
                          needReconnect>>
<1>1. acks \in Seq(Answers) /\ acks # <<>> /\ acks' = Tail(acks) /\ Head(acks).cmd = cmd
    BY DEF TransferInv, TypeOK, TakeAck
<1>2. Head(acks) \in Answers /\ acks' \in Seq(Answers)
    BY <1>1, HeadTailProperties
<1>3. Known(acks, Head(acks)) /\ \A a : Known(acks', a) => Known(acks, a)
    BY <1>1, KnownTail
<1>4. \A a : Known(acks, a) => AnswerInv(a)
    BY DEF TransferInv, MessageInv, Known
<1>5. canSend' \in BOOLEAN /\ slow' \in BOOLEAN
    BY DEF TakeAck, TransferInv, TypeOK
<1>6. loops' \in Nat
    BY DEF TakeAck, TransferInv, TypeOK
<1>7. UNCHANGED <<size, nextId, phase, starting, replacing, reqs, late, needReconnect>>
    BY DEF TakeAck
<1>. QED
    BY <1>1, <1>2, <1>3, <1>4, <1>5, <1>6, <1>7

\* Finishing a task or not, the list stays one of task ids.
LEMMA FinishType ==
    ASSUME TypeOK, NEW t \in Ids, Finish(t) \/ GoOn
    PROVE  tasks' \in Seq(Ids) /\ done' \subseteq Ids
<1>1. tasks \in Seq(Ids) /\ done \subseteq Ids
    BY DEF TypeOK
<1>2. CASE Finish(t)
    BY <1>1, <1>2, EraseFirstType DEF Finish, RemoveTask
<1>3. CASE GoOn
    BY <1>1, <1>3 DEF GoOn
<1>. QED
    BY <1>2, <1>3

\* FmcUpFile::ack preserves TransferInv.
LEMMA AckUpStep == TransferInv /\ AckUp => TransferInv'
<1>. SUFFICES ASSUME TransferInv, AckUp PROVE TransferInv'
    OBVIOUS
<1>0. TypeOK /\ NoMixture /\ TakeAck("Up") /\ UNCHANGED <<dst, has>>
    BY DEF TransferInv, AckUp, fileVars
<1>1. /\ acks' \in Seq(Answers) /\ \A q : Known(acks', q) => Known(acks, q)
      /\ canSend' \in BOOLEAN /\ slow' \in BOOLEAN /\ loops' \in Nat
      /\ UNCHANGED <<size, nextId, phase, starting, replacing, reqs, late,
                     needReconnect>>
    BY <1>0, TakeAckProperties
<1>2. PICK a \in Answers : a = Head(acks) /\ AnswerInv(a)
    BY <1>0, TakeAckProperties
<1>3. PICK t \in Ids : t = a.id /\ t \in Transfers
    BY <1>2 DEF Answers, AnswerInv
<1>4. a.pos \in Int /\ (a.pos >= 0 => Touched(info[t].file))
    BY <1>2, <1>3 DEF Answers, AnswerInv
<1>5. info \in [Ids -> Tasks] /\ info[t] \in Tasks
    BY <1>0 DEF TypeOK
<1>6. PICK res \in {"Ok", "Failed", "NoSpace", "VisitCodeMismatch"} :
         info' = [info EXCEPT ![t].offset = a.pos, ![t].result = res]
  <2>1. info' = [info EXCEPT
             ![t].offset = a.pos,
             ![t].result = CASE a.result \in {"Ok", "ReachEnd"} -> @
                             [] a.result = "NoSpace" -> "NoSpace"
                             [] OTHER -> "Failed"]
    BY <1>2, <1>3 DEF AckUp
  <2>2. info[t].result \in {"Ok", "Failed", "NoSpace", "VisitCodeMismatch"}
    BY <1>5 DEF Tasks
  <2>3. CASE a.result \in {"Ok", "ReachEnd"}
    <3>1. info' = [info EXCEPT ![t].offset = a.pos, ![t].result = info[t].result]
      BY <1>5, <2>1, <2>3
    <3>. QED
      BY <2>2, <3>1
  <2>4. CASE a.result = "NoSpace"
    <3>1. info' = [info EXCEPT ![t].offset = a.pos, ![t].result = "NoSpace"]
      BY <1>5, <2>1, <2>4
    <3>. QED
      BY <3>1
  <2>5. CASE a.result \notin {"Ok", "ReachEnd", "NoSpace"}
    <3>1. info' = [info EXCEPT ![t].offset = a.pos, ![t].result = "Failed"]
      BY <1>5, <2>1, <2>5
    <3>. QED
      BY <3>1
  <2>. QED
    BY <2>3, <2>4, <2>5
<1>7. info'[t] = [info[t] EXCEPT !.offset = a.pos, !.result = res]
    BY <1>5, <1>6
<1>8. info'[t] \in Tasks
    BY <1>4, <1>5, <1>7 DEF Tasks
<1>9. /\ info'[t].type = info[t].type /\ info'[t].file = info[t].file
      /\ info'[t].offset = a.pos
    BY <1>5, <1>7 DEF Tasks
<1>10. \A u \in Ids : u # t => info'[u] = info[u]
    BY <1>5, <1>6
<1>11. info' \in [Ids -> Tasks]
  <2>1. info' = [info EXCEPT ![t] = info'[t]]
    BY <1>5, <1>6
  <2>. QED
    BY <1>5, <1>8, <2>1
<1>12. tasks' \in Seq(Ids) /\ done' \subseteq Ids
    BY <1>0, <1>2, <1>3, FinishType DEF AckUp
<1>13. TypeOK'
    BY <1>0, <1>1, <1>11, <1>12 DEF TypeOK
<1>14. FilesKept /\ NoMixture'
  <2>1. \A g \in Files : size[g] \in Nat
    BY <1>0 DEF TypeOK
  <2>. QED
    BY <1>0, <1>1, <2>1 DEF FilesKept, NoMixture, Touched
<1>15. a.pos >= 0 => Touched(info[t].file)'
    BY <1>0, <1>1, <1>4, <1>9 DEF Touched
<1>16. /\ nextId' = nextId
       /\ \A r \in Requests : Known(reqs', r) => Known(reqs, r) \/ RequestInv(r)'
       /\ \A q \in late' : q \in late \/ Known(reqs, q)
       /\ \A q \in Answers : Known(acks', q) => Known(acks, q) \/ AnswerInv(q)'
    BY <1>1
<1>. QED
    BY <1>3, <1>9, <1>10, <1>13, <1>14, <1>15, <1>16, OneTaskStep

\* FmcDownFile::ack preserves TransferInv.
LEMMA AckDownStep == TransferInv /\ AckDown => TransferInv'
<1>. SUFFICES ASSUME TransferInv, AckDown PROVE TransferInv'
    OBVIOUS
<1>0. TypeOK /\ NoMixture /\ TakeAck("Down")
    BY DEF TransferInv, AckDown
<1>1. /\ acks' \in Seq(Answers) /\ \A q : Known(acks', q) => Known(acks, q)
      /\ canSend' \in BOOLEAN /\ slow' \in BOOLEAN /\ loops' \in Nat
      /\ UNCHANGED <<size, nextId, phase, starting, replacing, reqs, late,
                     needReconnect>>
    BY <1>0, TakeAckProperties
<1>2. PICK a \in Answers : a = Head(acks) /\ AnswerInv(a) /\ a.cmd = "Down"
    BY <1>0, TakeAckProperties
<1>3. PICK t \in Ids : t = a.id /\ t \in Transfers
    BY <1>2 DEF Answers, AnswerInv
<1>4. PICK f \in Files : f = info[t].file
    BY <1>3 DEF TransferInv, TaskInv
<1>5. /\ a.seg \in Segs /\ Touched(f)
      /\ a.result \in {"Ok", "ReachEnd"} => IsSlice(a.seg, size[f])
    BY <1>2, <1>3, <1>4 DEF Answers, AnswerInv
<1>6. info \in [Ids -> Tasks] /\ info[t] \in Tasks /\ info[t].offset \in Int
    BY <1>0 DEF TypeOK, Tasks
<1>7. \/ \E w \in WriteOutcomes(f, a.seg) :
            /\ a.result \in {"Ok", "ReachEnd"}
            /\ dst' = [dst EXCEPT ![f] = w.file]
            /\ has' = [has EXCEPT ![f] = w.has]
            /\ info' = IF w.ret < 0 THEN [info EXCEPT ![t].result = "Failed"]
                                    ELSE [info EXCEPT ![t].offset = @ + w.ret]
            /\ Finish(t) \/ GoOn
      \/ /\ info' = [info EXCEPT ![t].result = "Failed"]
         /\ GoOn
         /\ UNCHANGED <<dst, has>>
    BY <1>2, <1>3, <1>4 DEF AckDown, fileVars
<1>8. /\ FilesKept /\ NoMixture' /\ Touched(f)'
      /\ dst' \in [Files -> Seq(Nat)] /\ has' \in [Files -> BOOLEAN]
  <2>1. ASSUME NEW w \in WriteOutcomes(f, a.seg), a.result \in {"Ok", "ReachEnd"},
               dst' = [dst EXCEPT ![f] = w.file], has' = [has EXCEPT ![f] = w.has]
        PROVE  /\ FilesKept /\ NoMixture' /\ Touched(f)'
               /\ dst' \in [Files -> Seq(Nat)] /\ has' \in [Files -> BOOLEAN]
    <3>1. /\ w.file \in Seq(Nat) /\ w.has \in BOOLEAN
          /\ IsSourceUpTo(w.file, size[f])
      BY <1>0, <1>5, <2>1, WriteOutcomesProperties
    <3>. QED
      BY <1>0, <1>1, <2>1, <3>1, ReplaceFile
  <2>2. ASSUME UNCHANGED <<dst, has>>
        PROVE  /\ FilesKept /\ NoMixture' /\ Touched(f)'
               /\ dst' \in [Files -> Seq(Nat)] /\ has' \in [Files -> BOOLEAN]
    <3>1. \A g \in Files : size[g] \in Nat
      BY <1>0 DEF TypeOK
    <3>. QED
      BY <1>0, <1>1, <1>5, <2>2, <3>1 DEF FilesKept, NoMixture, Touched, TypeOK
  <2>. QED
    BY <1>7, <2>1, <2>2
<1>9. \/ info' = [info EXCEPT ![t].result = "Failed"]
      \/ \E off \in Int : info' = [info EXCEPT ![t].offset = off]
  <2>1. ASSUME NEW w \in WriteOutcomes(f, a.seg), a.result \in {"Ok", "ReachEnd"},
               info' = [info EXCEPT ![t].offset = @ + w.ret]
        PROVE  \E off \in Int : info' = [info EXCEPT ![t].offset = off]
    <3>1. w.ret \in Int
      BY <1>0, <1>5, <2>1, WriteOutcomesProperties
    <3>2. info' = [info EXCEPT ![t].offset = info[t].offset + w.ret]
      BY <1>6, <2>1
    <3>3. info[t].offset + w.ret \in Int
      BY <1>6, <3>1
    <3>. QED
      BY <3>2, <3>3
  <2>. QED
    BY <1>7, <2>1
<1>10. info' \in [Ids -> Tasks]
    BY <1>6, <1>9 DEF Tasks
<1>11. /\ info'[t].type = info[t].type /\ info'[t].file = info[t].file
       /\ \A u \in Ids : u # t => info'[u] = info[u]
    BY <1>6, <1>9 DEF Tasks
<1>12. tasks' \in Seq(Ids) /\ done' \subseteq Ids
  <2>1. Finish(t) \/ GoOn
    BY <1>7
  <2>. QED
    BY <1>0, <2>1, FinishType
<1>13. TypeOK'
    BY <1>0, <1>1, <1>8, <1>10, <1>12 DEF TypeOK
<1>14. Touched(info[t].file)'
    BY <1>4, <1>8, <1>11 DEF Touched
<1>15. /\ nextId' = nextId
       /\ \A r \in Requests : Known(reqs', r) => Known(reqs, r) \/ RequestInv(r)'
       /\ \A q \in late' : q \in late \/ Known(reqs, q)
       /\ \A q \in Answers : Known(acks', q) => Known(acks, q) \/ AnswerInv(q)'
    BY <1>1
<1>. QED
    BY <1>3, <1>8, <1>11, <1>13, <1>14, <1>15, OneTaskStep

\* The answer of a dropped task: preserves TransferInv.
LEMMA AckGoneStep == TransferInv /\ AckGone => TransferInv'
<1>. SUFFICES ASSUME TransferInv, NEW cmd \in {"Up", "Down"}, TakeAck(cmd),
                     UNCHANGED <<fileVars, tasks, info, done>>
              PROVE  TransferInv'
    BY DEF AckGone
<1>1. /\ acks' \in Seq(Answers) /\ \A a : Known(acks', a) => Known(acks, a)
      /\ canSend' \in BOOLEAN /\ slow' \in BOOLEAN /\ loops' \in Nat
      /\ UNCHANGED <<size, nextId, phase, starting, replacing, reqs, late,
                     needReconnect>>
    BY TakeAckProperties
<1>2. TypeOK'
    BY <1>1 DEF TransferInv, TypeOK, fileVars
<1>. QED
    BY <1>1, <1>2, QuietStep DEF fileVars

-----------------------------------------------------------------------------
\* The initial states satisfy the invariant.
LEMMA InitInv == Init => TransferInv
<1>. SUFFICES ASSUME Init PROVE TransferInv
    OBVIOUS
<1>1. size \in [Files -> Nat]
    BY ConstAssumption DEF Init
<1>2. /\ OldFiles \subseteq Seq(Nat)
      /\ \A o \in OldFiles : IsOld(o)
    BY DEF OldFiles, OldBlock, IsOld
<1>3. dst \in [Files -> Seq(Nat)] /\ NoMixture
    BY <1>2 DEF Init, NoMixture
<1>4. has \in [Files -> BOOLEAN]
    BY DEF Init
<1>5. 1 \in Ids /\ tasks \in Seq(Ids)
    BY ConstAssumption DEF Init, Ids
<1>6. \A ty \in {"Connect", "None"} : Task(ty, NoFile, 0) \in Tasks
    BY DEF Task, Tasks
<1>7. info \in [Ids -> Tasks]
    BY <1>6 DEF Init, InitTask
<1>8. \A t \in Ids : /\ t # 1 => info[t].type = "None"
                     /\ info[t].type \in {"None", "Connect"}
    BY DEF Init, InitTask, Task
<1>9. /\ starting \in BOOLEAN /\ canSend \in BOOLEAN /\ slow \in BOOLEAN
      /\ replacing \in BOOLEAN
    BY DEF Init
<1>10. /\ nextId = 2 /\ phase = "connecting" /\ loops = 0 /\ needReconnect = 0
       /\ reqs = <<>> /\ acks = <<>> /\ late = {} /\ done = {}
    BY DEF Init
<1>11. TypeOK
    BY <1>1, <1>3, <1>4, <1>5, <1>7, <1>9, <1>10 DEF TypeOK
<1>12. TaskInv
    BY <1>8, <1>10 DEF TaskInv, Transfers, Ids
<1>13. MessageInv
    BY <1>10 DEF MessageInv
<1>. QED
    BY <1>3, <1>11, <1>12, <1>13 DEF TransferInv

\* Every step of every thread preserves the invariant.
LEMMA NextInv == TransferInv /\ [Next]_vars => TransferInv'
<1>. SUFFICES ASSUME TransferInv, [Next]_vars PROVE TransferInv'
    OBVIOUS
<1>1. CASE Ui
    BY <1>1, UiTransferStep, UiReconnectStep, UiCleanAllStep, UiConnectStep DEF Ui
<1>2. CASE Conn
    BY <1>2, HandshakeOkStep, HandshakeMismatchStep, DisconnectStep DEF Conn
<1>3. CASE Client
    BY <1>3, UserStartStep, TimerStep, UserLoopIdleStep, UserLoopConnectStep,
       ReqUploadStep, ReqDownloadStep, ReqDownloadNoSpaceStep,
       AckUpStep, AckDownStep, AckGoneStep DEF Client
<1>4. CASE Server
    BY <1>4, FmsUpStep, FmsDownStep, FmsLateStep DEF Server
<1>5. CASE \E f \in Files : GrowSource(f)
    BY <1>5, GrowSourceStep
<1>6. CASE UNCHANGED vars
  <2>1. UNCHANGED <<size, dst, info, nextId, reqs, acks, late>>
    BY <1>6 DEF vars, fileVars, taskVars, netVars
  <2>2. TypeOK'
    BY <1>6 DEF TransferInv, TypeOK, vars, fileVars, taskVars, netVars, connVars
  <2>. QED
    BY <2>1, <2>2, QuietStep
<1>. QED
    BY <1>1, <1>2, <1>3, <1>4, <1>5, <1>6 DEF Next

\* The inductive invariant holds in every reachable state, for every set of
\* files, segment length and combination of faults.
THEOREM TransferInvariant == Spec => []TransferInv
<1>. QED
    BY InitInv, NextInv, PTL DEF Spec

\* The variables of the engine, the task list and the messages keep their
\* types in every reachable state.
THEOREM TypeCorrect == Spec => []TypeOK
<1>1. TransferInv => TypeOK
    BY DEF TransferInv
<1>. QED
    BY <1>1, TransferInvariant, PTL

\* fmReadFile, fmWriteFile and the offset protocol between FmcUpFile/FmsUpFile
\* and FmcDownFile/FmsDownFile never leave a destination that is neither the
\* old file nor a prefix of the source.
THEOREM DestinationNeverMixed == Spec => []NoMixture
<1>1. TransferInv => NoMixture
    BY DEF TransferInv
<1>. QED
    BY <1>1, TransferInvariant, PTL

-----------------------------------------------------------------------------
(* canSend_ serialises the protocol                                        *)

\* Lengths of the message queues and when they are empty.
LEMMA QueueLengths ==
    ASSUME TypeOK
    PROVE  /\ Len(reqs) \in Nat /\ Len(acks) \in Nat
           /\ reqs = <<>> <=> Len(reqs) = 0
           /\ acks = <<>> <=> Len(acks) = 0
<1>1. reqs \in Seq(Requests) /\ acks \in Seq(Answers)
    BY DEF TypeOK
<1>. QED
    BY <1>1, EmptySeq

\* The gate invariant holds initially.
LEMMA GateInit == Init => GateInv
    BY DEF Init, GateInv, OneOutstanding

\* A step that leaves the messages alone and neither opens the gate nor
\* starts the client.
LEMMA GateQuiet ==
    ASSUME GateInv, UNCHANGED <<reqs, acks>>,
           canSend' => canSend, starting' => starting,
           phase' = "connecting" => phase = "connecting"
    PROVE  GateInv'
    BY DEF GateInv, OneOutstanding

\* A step that drops all messages of the connection.
LEMMA GateDropped ==
    ASSUME GateInv, reqs' = <<>>, acks' = <<>>,
           canSend' => canSend, starting' => starting,
           phase' = "connecting" => (phase = "connecting" \/ (~canSend' /\ ~starting'))
    PROVE  GateInv'
<1>1. Len(reqs') = 0 /\ Len(acks') = 0
    OBVIOUS
<1>. QED
    BY <1>1 DEF GateInv, OneOutstanding

\* onUserLoop sends one request through the open gate and closes it.
LEMMA GateSend ==
    ASSUME TypeOK, GateInv, phase = "up", canSend, ~canSend', Len(reqs') = Len(reqs) + 1,
           UNCHANGED <<acks, starting, phase>>
    PROVE  GateInv'
<1>1. reqs = <<>> /\ acks = <<>> /\ ~starting
    BY DEF GateInv, OneOutstanding
<1>2. Len(reqs) = 0 /\ Len(acks) = 0
    BY <1>1
<1>3. Len(reqs') + Len(acks') <= 1
    BY <1>2
<1>. QED
    BY <1>1, <1>3 DEF GateInv, OneOutstanding

\* The server turns a request into an answer.
LEMMA GateServe ==
    ASSUME TypeOK, GateInv, reqs # <<>>, reqs' = Tail(reqs), Len(acks') = Len(acks) + 1,
           UNCHANGED <<canSend, starting, phase>>
    PROVE  GateInv'
<1>1. reqs \in Seq(Requests) /\ Len(reqs) \in Nat /\ Len(acks) \in Nat
    BY QueueLengths DEF TypeOK
<1>2. Len(reqs') = Len(reqs) - 1
    BY <1>1, HeadTailProperties
<1>3. Len(reqs') + Len(acks') <= 1
    BY <1>1, <1>2 DEF GateInv, OneOutstanding
<1>4. ~canSend /\ ~starting /\ phase # "connecting"
    BY DEF GateInv, OneOutstanding
<1>. QED
    BY <1>3, <1>4 DEF GateInv, OneOutstanding

\* onRead takes the only answer and opens the gate.
LEMMA GateAck ==
    ASSUME TypeOK, TypeOK', GateInv, NEW cmd, TakeAck(cmd)
    PROVE  GateInv'
<1>1. /\ acks \in Seq(Answers) /\ acks # <<>> /\ acks' = Tail(acks)
      /\ UNCHANGED <<reqs, starting, phase>>
    BY DEF TypeOK, TakeAck
<1>2. Len(acks') = Len(acks) - 1 /\ Len(acks) # 0
    BY <1>1, HeadTailProperties, QueueLengths
<1>3. Len(reqs) + Len(acks) <= 1
    BY DEF GateInv, OneOutstanding
<1>4. Len(reqs) = 0 /\ Len(acks') = 0
    BY <1>2, <1>3, QueueLengths
<1>5. Len(reqs') = 0 /\ Len(acks') = 0
    BY <1>1, <1>4
<1>6. reqs' = <<>> /\ acks' = <<>>
    BY <1>5, EmptySeq DEF TypeOK
<1>7. ~starting /\ phase # "connecting"
    BY <1>1 DEF GateInv, OneOutstanding
<1>8. Len(reqs') + Len(acks') <= 1
    BY <1>5
<1>. QED
    BY <1>1, <1>6, <1>7, <1>8 DEF GateInv, OneOutstanding

\* Every step keeps the gate invariant.
LEMMA GateNext == TypeOK /\ TypeOK' /\ GateInv /\ [Next]_vars => GateInv'
<1>. SUFFICES ASSUME TypeOK, TypeOK', GateInv, [Next]_vars PROVE GateInv'
    OBVIOUS
<1>1. CASE \E f \in Files : UiTransfer(f)
    BY <1>1, GateQuiet DEF UiTransfer, connVars, netVars
<1>19. CASE UiCleanAll
    BY <1>19, GateQuiet DEF UiCleanAll, netVars
<1>2. CASE UiReconnect \/ UiConnect
  <2>1. /\ reqs' = <<>> /\ acks' = <<>>
        /\ ~canSend' /\ ~starting'
    BY <1>2 DEF UiReconnect, UiConnect, ResetClient
  <2>. QED
    BY <2>1, GateDropped
<1>3. CASE HandshakeOk
  <2>1. /\ reqs = <<>> /\ acks = <<>> /\ ~canSend /\ phase' = "up"
        /\ UNCHANGED <<reqs, acks, canSend>>
    BY <1>3 DEF HandshakeOk, GateInv, netVars
  <2>2. Len(reqs') + Len(acks') <= 1
    BY <2>1 DEF GateInv, OneOutstanding
  <2>. QED
    BY <2>1, <2>2 DEF GateInv, OneOutstanding
<1>4. CASE HandshakeMismatch
    BY <1>4, GateQuiet DEF HandshakeMismatch, netVars
<1>5. CASE Disconnect
    BY <1>5, GateDropped DEF Disconnect
<1>6. CASE UserStart
  <2>1. /\ reqs = <<>> /\ acks = <<>> /\ ~starting' /\ phase # "connecting"
        /\ UNCHANGED <<reqs, acks, phase>>
    BY <1>6 DEF UserStart, GateInv, OneOutstanding, netVars
  <2>2. Len(reqs') + Len(acks') <= 1
    BY <2>1 DEF GateInv, OneOutstanding
  <2>. QED
    BY <2>1, <2>2 DEF GateInv, OneOutstanding
<1>7. CASE Timer
    BY <1>7, GateQuiet DEF Timer, netVars, connVars
<1>8. CASE UserLoopIdle
    BY <1>8, GateQuiet DEF UserLoopIdle, netVars, connVars
<1>9. CASE UserLoopConnect
    BY <1>9, GateQuiet DEF UserLoopConnect, Serving, connVars
<1>10. CASE ReqUpload
  <2>1. /\ phase = "up" /\ canSend /\ ~canSend'
        /\ UNCHANGED <<acks, starting, phase>>
    BY <1>10 DEF ReqUpload, Serving, connVars
  <2>2. \E r : reqs' = Append(reqs, r)
    BY <1>10 DEF ReqUpload
  <2>3. Len(reqs') = Len(reqs) + 1
    BY <2>2 DEF TypeOK
  <2>. QED
    BY <2>1, <2>3, GateSend
<1>11. CASE ReqDownload
  <2>1. /\ phase = "up" /\ canSend /\ ~canSend'
        /\ UNCHANGED <<acks, starting, phase>>
    BY <1>11 DEF ReqDownload, Serving, connVars
  <2>2. \E r : reqs' = Append(reqs, r)
    BY <1>11 DEF ReqDownload
  <2>3. Len(reqs') = Len(reqs) + 1
    BY <2>2 DEF TypeOK
  <2>. QED
    BY <2>1, <2>3, GateSend
<1>12. CASE ReqDownloadNoSpace
    BY <1>12, GateQuiet DEF ReqDownloadNoSpace, Serving, connVars
<1>13. CASE AckUp \/ AckDown \/ AckGone
  <2>1. TakeAck("Up") \/ TakeAck("Down")
    BY <1>13 DEF AckUp, AckDown, AckGone
  <2>. QED
    BY <2>1, GateAck
<1>14. CASE FmsUp
  <2>1. reqs # <<>> /\ reqs' = Tail(reqs) /\ UNCHANGED <<canSend, starting, phase>>
    BY <1>14 DEF FmsUp, connVars
  <2>2. \E a : acks' = Append(acks, a)
    BY <1>14 DEF FmsUp
  <2>3. Len(acks') = Len(acks) + 1
    BY <2>2 DEF TypeOK
  <2>. QED
    BY <2>1, <2>3, GateServe
<1>15. CASE FmsDown
  <2>1. reqs # <<>> /\ reqs' = Tail(reqs) /\ UNCHANGED <<canSend, starting, phase>>
    BY <1>15 DEF FmsDown, connVars
  <2>2. \E a : acks' = Append(acks, a)
    BY <1>15 DEF FmsDown
  <2>3. Len(acks') = Len(acks) + 1
    BY <2>2 DEF TypeOK
  <2>. QED
    BY <2>1, <2>3, GateServe
<1>16. CASE FmsLate
    BY <1>16, GateQuiet DEF FmsLate, connVars
<1>17. CASE \E f \in Files : GrowSource(f)
    BY <1>17, GateQuiet DEF GrowSource, connVars, netVars
<1>18. CASE UNCHANGED vars
    BY <1>18, GateQuiet DEF vars, connVars, netVars
<1>. QED
    BY <1>1, <1>2, <1>3, <1>4, <1>5, <1>6, <1>7, <1>8, <1>9, <1>10, <1>11, <1>12,
       <1>13, <1>14, <1>15, <1>16, <1>17, <1>18, <1>19 DEF Next, Ui, Conn, Client, Server

\* canSend_ admits one request or answer at a time, whatever breaks: none is
\* on the wire while the gate is open or USER_START is queued.
THEOREM OneAtATime == Spec => []OneOutstanding
<1>1. GateInv => OneOutstanding
    BY DEF GateInv
<1>. QED
    BY <1>1, GateInit, GateNext, TypeCorrect, PTL DEF Spec

-----------------------------------------------------------------------------
(* The task list stays sorted                                              *)

\* Sorting looks at the priorities of listed tasks only.
LEMMA SortedCongruent ==
    ASSUME NEW s \in Seq(Ids), NEW p, NEW q,
           \A t \in Ids : Known(s, t) => p[t] = q[t], Sorted(s, p)
    PROVE  Sorted(s, q)
<1>1. \A i \in 1 .. Len(s) : s[i] \in Ids /\ Known(s, s[i])
    BY DEF Known
<1>2. \A i \in 1 .. Len(s) : p[s[i]] = q[s[i]]
    BY <1>1
<1>. QED
    BY <1>2 DEF Sorted

\* A step that gives out no id, keeps or erases list entries and keeps what
\* priorities depend on.
LEMMA ListQuiet ==
    ASSUME TypeOK, TypeOK', ListInv, nextId' = nextId,
           \A t \in Ids : info'[t].type = info[t].type /\ info'[t].total = info[t].total,
           tasks' = tasks \/ \E W : tasks' = EraseFirst(tasks, W)
    PROVE  ListInv'
<1>1. tasks \in Seq(Ids) /\ tasks' \in Seq(Ids)
    BY DEF TypeOK
<1>2. \A t \in Ids : Known(tasks', t) => Known(tasks, t)
    BY <1>1, KnownErase
<1>3. Sorted(tasks', Prios(info))
    BY <1>1, EraseKeepsSorted, PriosType DEF ListInv, PriorityOrder
<1>4. \A t \in Ids : Prios(info)[t] = Prios(info')[t]
    BY DEF Prios, Prio
<1>5. Sorted(tasks', Prios(info'))
    BY <1>1, <1>3, <1>4, SortedCongruent
<1>. QED
    BY <1>2, <1>5 DEF ListInv, PriorityOrder

\* add() of a task with a new id.
LEMMA ListAdd ==
    ASSUME TypeOK, ListInv, nextId \in Ids, nextId' = nextId + 1,
           NEW x, NEW kept \in Seq(Ids), Sorted(kept, Prios(info)),
           \A t \in Ids : Known(kept, t) => Known(tasks, t),
           info' = [info EXCEPT ![nextId] = x],
           tasks' = Add(kept, Prios(info'), nextId)
    PROVE  ListInv'
<1>1. info \in [Ids -> Tasks] /\ nextId \in Nat
    BY DEF TypeOK
<1>2. \A t \in Ids : Known(kept, t) => t < nextId
    BY DEF ListInv
<1>3. \A t \in Ids : t < nextId => info'[t] = info[t]
    BY <1>1 DEF Ids
<1>4. \A t \in Ids : Known(kept, t) => Prios(info)[t] = Prios(info')[t]
    BY <1>2, <1>3 DEF Prios
<1>5. Sorted(kept, Prios(info'))
    BY <1>4, SortedCongruent
<1>6. Sorted(tasks', Prios(info'))
    BY <1>5, AddKeepsSorted, PriosType
<1>7. \A t \in Ids : Known(tasks', t) => Known(kept, t) \/ t = nextId
    BY KnownAdd, PriosType
<1>8. \A t \in Ids : Known(tasks', t) => t < nextId'
  <2>1. \A t \in Ids : t \in Int
    BY DEF Ids
  <2>2. \A t \in Ids : t < nextId \/ t = nextId => t < nextId + 1
    BY <1>1, <2>1
  <2>. QED
    BY <1>2, <1>7, <2>2
<1>. QED
    BY <1>6, <1>8 DEF ListInv, PriorityOrder

\* The list of the first Connect task is sorted.
LEMMA ListInit == Init => ListInv
<1>. SUFFICES ASSUME Init PROVE ListInv
    OBVIOUS
<1>1. tasks = <<1>> /\ nextId = 2
    BY DEF Init
<1>2. Len(tasks) = 1 /\ tasks[1] = 1
    BY <1>1
<1>3. \A t \in Ids : Known(tasks, t) => t < nextId
    BY <1>1, <1>2 DEF Known
<1>4. PriorityOrder
    BY <1>2 DEF PriorityOrder, Sorted
<1>. QED
    BY <1>3, <1>4 DEF ListInv

\* The empty list is sorted.
LEMMA EmptySorted == \A p : Sorted(<<>>, p)
    BY DEF Sorted

\* Every step keeps the list invariant.
LEMMA ListNext == TypeOK /\ TypeOK' /\ ListInv /\ [Next]_vars => ListInv'
<1>. SUFFICES ASSUME TypeOK, TypeOK', ListInv, [Next]_vars PROVE ListInv'
    OBVIOUS
<1>0. /\ tasks \in Seq(Ids) /\ info \in [Ids -> Tasks]
      /\ nextId <= MaxTasks => nextId \in Ids
      /\ Sorted(tasks, Prios(info))
    BY ConstAssumption DEF TypeOK, Ids, ListInv, PriorityOrder
<1>1. ASSUME NEW f \in Files, UiTransfer(f) PROVE ListInv'
  <2>. DEFINE kept == CleanError(tasks, Ids \ OkTasks, OfType("Connect"))
  <2>1. kept \in Seq(Ids) /\ Sorted(kept, Prios(info))
    BY <1>0, EraseFirstType, EraseKeepsSorted, PriosType DEF CleanError
  <2>2. \A t \in Ids : Known(kept, t) => Known(tasks, t)
    BY <1>0, KnownErase DEF CleanError
  <2>3. /\ nextId <= MaxTasks /\ nextId' = nextId + 1
        /\ \E x : info' = [info EXCEPT ![nextId] = x]
        /\ tasks' = Add(kept, Prios(info'), nextId)
    BY <1>1 DEF UiTransfer
  <2>. HIDE DEF kept
  <2>. QED
    BY <1>0, <2>1, <2>2, <2>3, ListAdd
<1>2. CASE UiReconnect \/ UiConnect
  <2>1. /\ nextId <= MaxTasks /\ nextId' = nextId + 1
        /\ \E x : info' = [info EXCEPT ![nextId] = x]
        /\ tasks' = Add(tasks, Prios(info'), nextId)
    BY <1>2 DEF UiReconnect, UiConnect, ResetClient
  <2>. QED
    BY <1>0, <2>1, ListAdd
<1>3. CASE UiCleanAll
  <2>1. tasks' = <<>>
    BY <1>3 DEF UiCleanAll
  <2>2. \A t \in Ids : ~Known(<<>>, t)
    BY DEF Known
  <2>3. Sorted(<<>>, Prios(info'))
    BY EmptySorted
  <2>. QED
    BY <2>1, <2>2, <2>3 DEF ListInv, PriorityOrder
<1>4. CASE HandshakeOk
    BY <1>4, ListQuiet DEF HandshakeOk, RemoveTask
<1>5. CASE HandshakeMismatch
  <2>1. \A t \in Ids : info'[t].type = info[t].type /\ info'[t].total = info[t].total
    BY <1>0, <1>5 DEF HandshakeMismatch, Tasks
  <2>. QED
    BY <1>5, <2>1, ListQuiet DEF HandshakeMismatch
<1>6. CASE Disconnect \/ UserStart \/ Timer \/ UserLoopIdle \/ FmsUp \/ FmsDown
           \/ FmsLate \/ AckGone \/ UNCHANGED vars \/ \E f \in Files : GrowSource(f)
  <2>1. UNCHANGED <<tasks, info, nextId>>
    BY <1>6 DEF Disconnect, UserStart, Timer, UserLoopIdle, FmsUp, FmsDown, FmsLate,
                AckGone, TakeAck, GrowSource, taskVars, vars
  <2>. QED
    BY <2>1, ListQuiet
<1>7. CASE UserLoopConnect \/ ReqUpload
  <2>1. UNCHANGED <<tasks, info, nextId>>
    BY <1>7 DEF UserLoopConnect, ReqUpload, Serving
  <2>. QED
    BY <2>1, ListQuiet
<1>8. CASE ReqDownload \/ ReqDownloadNoSpace
  <2>1. \E y : info' = [info EXCEPT ![First].offset = y]
                \/ info' = [info EXCEPT ![First].result = y]
    BY <1>8 DEF ReqDownload, ReqDownloadNoSpace
  <2>2. \A t \in Ids : info'[t].type = info[t].type /\ info'[t].total = info[t].total
    <3>1. PICK y : \/ info' = [info EXCEPT ![First].offset = y]
                   \/ info' = [info EXCEPT ![First].result = y]
      BY <2>1
    <3>2. CASE info' = [info EXCEPT ![First].offset = y]
      BY <1>0, <3>2 DEF Tasks
    <3>3. CASE info' = [info EXCEPT ![First].result = y]
      BY <1>0, <3>3 DEF Tasks
    <3>. QED
      BY <3>1, <3>2, <3>3
  <2>3. UNCHANGED <<tasks, nextId>>
    BY <1>8 DEF ReqDownload, ReqDownloadNoSpace, Serving
  <2>. QED
    BY <2>2, <2>3, ListQuiet
<1>10. CASE AckUp
  <2>1. \E y, z : info' = [info EXCEPT ![Head(acks).id].offset = y,
                                       ![Head(acks).id].result = z]
    BY <1>10 DEF AckUp
  <2>2. \A t \in Ids : info'[t].type = info[t].type /\ info'[t].total = info[t].total
    BY <1>0, <2>1 DEF Tasks
  <2>3. nextId' = nextId /\ (tasks' = tasks \/ \E W : tasks' = EraseFirst(tasks, W))
    BY <1>10 DEF AckUp, TakeAck, Finish, GoOn, RemoveTask
  <2>. QED
    BY <2>2, <2>3, ListQuiet
<1>11. CASE AckDown
  <2>1. \E y : info' = [info EXCEPT ![Head(acks).id].offset = y]
                \/ info' = [info EXCEPT ![Head(acks).id].result = y]
    BY <1>11 DEF AckDown
  <2>2. \A t \in Ids : info'[t].type = info[t].type /\ info'[t].total = info[t].total
    <3>1. PICK y : \/ info' = [info EXCEPT ![Head(acks).id].offset = y]
                   \/ info' = [info EXCEPT ![Head(acks).id].result = y]
      BY <2>1
    <3>2. CASE info' = [info EXCEPT ![Head(acks).id].offset = y]
      BY <1>0, <3>2 DEF Tasks
    <3>3. CASE info' = [info EXCEPT ![Head(acks).id].result = y]
      BY <1>0, <3>3 DEF Tasks
    <3>. QED
      BY <3>1, <3>2, <3>3
  <2>3. nextId' = nextId /\ (tasks' = tasks \/ \E W : tasks' = EraseFirst(tasks, W))
    BY <1>11 DEF AckDown, TakeAck, Finish, GoOn, RemoveTask
  <2>. QED
    BY <2>2, <2>3, ListQuiet
<1>. QED
    BY <1>1, <1>2, <1>3, <1>4, <1>5, <1>6, <1>7, <1>8, <1>10, <1>11
       DEF Next, Ui, Conn, Client, Server

\* FmScheduler::add and the removals of the two engines and the UI keep tasks_
\* in the order of getPriority for ever.
THEOREM ListStaysSorted == Spec => []PriorityOrder
<1>1. ListInv => PriorityOrder
    BY DEF ListInv
<1>. QED
    BY <1>1, ListInit, ListNext, TypeCorrect, PTL DEF Spec

-----------------------------------------------------------------------------
(* No handler moves a transfer back                                        *)

\* The step property of OffsetNeverBack.
OffsetKept == \A t \in Ids : t < nextId => info[t].offset <= info'[t].offset

\* OffsetInv in terms of the messages that are in a queue.
LEMMA OffsetInvAll ==
    OffsetInv <=> /\ \A r : Known(reqs, r) => info[r.id].offset <= r.pos
                  /\ \A a : Known(acks, a) /\ a.cmd = "Up" => info[a.id].offset <= a.pos
    BY DEF OffsetInv, Known

\* Messages name tasks that exist.
LEMMA MessageIds ==
    ASSUME TransferInv
    PROVE  /\ \A r : Known(reqs, r) => r \in Requests /\ r.id \in Ids /\ r.id < nextId
           /\ \A a : Known(acks, a) => a \in Answers /\ a.id \in Ids /\ a.id < nextId
<1>1. \A t \in Ids : t \in Transfers => t < nextId
  <2>1. \A t \in Ids : t \in Int /\ nextId \in Int
    BY DEF Ids, TransferInv, TypeOK
  <2>. QED
    BY <2>1 DEF TransferInv, TaskInv, Transfers
<1>2. ASSUME NEW r, Known(reqs, r)
      PROVE  r \in Requests /\ r.id \in Ids /\ r.id < nextId
  <2>1. r \in Requests /\ RequestInv(r)
    BY <1>2 DEF Known, TransferInv, MessageInv, TypeOK
  <2>2. r.id \in Ids /\ r.id \in Transfers
    BY <2>1 DEF Requests, RequestInv
  <2>. QED
    BY <1>1, <2>1, <2>2
<1>3. ASSUME NEW a, Known(acks, a)
      PROVE  a \in Answers /\ a.id \in Ids /\ a.id < nextId
  <2>1. a \in Answers /\ AnswerInv(a)
    BY <1>3 DEF Known, TransferInv, MessageInv, TypeOK
  <2>2. a.id \in Ids /\ a.id \in Transfers
    BY <2>1 DEF Answers, AnswerInv
  <2>. QED
    BY <1>1, <2>1, <2>2
<1>. QED
    BY <1>2, <1>3

\* A step that adds no message and moves no existing task.
LEMMA OffsetQuiet ==
    ASSUME TransferInv, OffsetInv,
           \A t \in Ids : t < nextId => info'[t].offset = info[t].offset,
           \A r : Known(reqs', r) => Known(reqs, r),
           \A a : Known(acks', a) => Known(acks, a)
    PROVE  OffsetInv' /\ OffsetKept
<1>1. \A t \in Ids : info[t].offset \in Int
    BY DEF TransferInv, TypeOK, Tasks
<1>2. OffsetKept
    BY <1>1 DEF OffsetKept
<1>3. \A r : Known(reqs', r) => info'[r.id].offset <= r.pos
    BY MessageIds, OffsetInvAll
<1>4. \A a : Known(acks', a) /\ a.cmd = "Up" => info'[a.id].offset <= a.pos
    BY MessageIds, OffsetInvAll
<1>5. OffsetInv'
    BY <1>3, <1>4 DEF OffsetInv, Known
<1>. QED
    BY <1>2, <1>5

\* A request is sent at the offset_ of its task.
LEMMA OffsetSend ==
    ASSUME TransferInv, GateInv, canSend, OffsetInv, NEW r \in Requests,
           reqs' = Append(reqs, r), acks' = acks,
           info'[r.id].offset <= r.pos,
           \A t \in Ids : info[t].offset <= info'[t].offset
    PROVE  OffsetInv' /\ OffsetKept
<1>1. OffsetKept
    BY DEF OffsetKept
<1>2. reqs = <<>> /\ acks = <<>> /\ reqs \in Seq(Requests)
    BY DEF GateInv, OneOutstanding, TransferInv, TypeOK
<1>3. \A q : ~Known(reqs, q) /\ ~Known(acks, q)
    BY <1>2 DEF Known
<1>4. \A q : Known(reqs', q) => q = r
    BY <1>2, <1>3, KnownAppend
<1>5. OffsetInv'
    BY <1>3, <1>4 DEF OffsetInv, Known
<1>. QED
    BY <1>1, <1>5

\* The server answers at or behind the position of the request.
LEMMA OffsetServe ==
    ASSUME TransferInv, GateInv, OffsetInv, reqs # <<>>, reqs' = Tail(reqs), info' = info,
           NEW a \in Answers, acks' = Append(acks, a), a.id = Head(reqs).id,
           a.cmd = "Up" => info[a.id].offset <= a.pos
    PROVE  OffsetInv' /\ OffsetKept
<1>1. reqs \in Seq(Requests) /\ acks \in Seq(Answers)
    BY DEF TransferInv, TypeOK
<1>2. \A t \in Ids : info[t].offset \in Int
    BY DEF TransferInv, TypeOK, Tasks
<1>3. OffsetKept
    BY <1>2 DEF OffsetKept
<1>4. \A r : Known(reqs', r) => Known(reqs, r)
    BY <1>1, KnownTail
<1>5. \A q : Known(acks', q) => Known(acks, q) \/ q = a
    BY <1>1, KnownAppend
<1>6. \A r : Known(reqs', r) => info'[r.id].offset <= r.pos
    BY <1>4, OffsetInvAll
<1>7. \A q : Known(acks', q) /\ q.cmd = "Up" => info'[q.id].offset <= q.pos
    BY <1>5, OffsetInvAll
<1>8. OffsetInv'
    BY <1>6, <1>7 DEF OffsetInv, Known
<1>. QED
    BY <1>3, <1>8

\* The only answer is taken: nothing is left in flight.
LEMMA OffsetAck ==
    ASSUME TransferInv, TypeOK', GateInv, NEW cmd, TakeAck(cmd), OffsetKept
    PROVE  OffsetInv' /\ OffsetKept
<1>1. GateInv' /\ canSend'
    BY GateAck DEF TransferInv, TakeAck
<1>2. reqs' = <<>> /\ acks' = <<>>
    BY <1>1 DEF GateInv, OneOutstanding
<1>. QED
    BY <1>2 DEF OffsetInv

\* FmsUpFile::echo never answers with an earlier position.
LEMMA UpResultsForward ==
    ASSUME TypeOK, NEW r \in Requests, r.cmd = "Up", RequestInv(r),
           NEW out \in UpResults(r)
    PROVE  r.pos <= out.pos /\ out.pos \in Int
<1>1. r.file \in Files /\ r.pos \in Int /\ r.seg \in Segs
    BY DEF Requests
<1>2. out.pos \in Int
    BY UpResultsProperties
<1>3. CASE r.pos < 0
  <2>1. out.pos = 0 \/ out.pos = r.pos
    BY <1>3 DEF UpResults
  <2>. QED
    BY <1>1, <1>2, <1>3, <2>1
<1>4. CASE r.pos >= 0 /\ r.seg.result \in {"Ok", "ReachEnd"}
  <2>1. IsSlice(r.seg, size[r.file]) /\ Touched(r.file)
    BY <1>4 DEF RequestInv
  <2>2. PICK w \in WriteOutcomes(r.file, r.seg) :
            out.pos = IF w.ret < 0 THEN r.pos ELSE r.pos + w.ret
    BY <1>1, <1>4 DEF UpResults
  <2>3. w.ret \in Int
    BY <1>1, <2>1, WriteOutcomesProperties
  <2>. QED
    BY <1>1, <1>2, <2>2, <2>3
<1>5. CASE r.pos >= 0 /\ r.seg.result \notin {"Ok", "ReachEnd"}
  <2>1. out.pos = r.pos
    BY <1>1, <1>5 DEF UpResults
  <2>. QED
    BY <1>1, <2>1
<1>. QED
    BY <1>1, <1>3, <1>4, <1>5

\* The steps of onUserLoop that send.
LEMMA OffsetReq ==
    ASSUME TransferInv, TypeOK', GateInv, OffsetInv, ReqUpload \/ ReqDownload
    PROVE  OffsetInv' /\ OffsetKept
<1>0. TypeOK /\ info \in [Ids -> Tasks] /\ canSend /\ acks' = acks
    BY DEF TransferInv, TypeOK, ReqUpload, ReqDownload, Serving
<1>1. PICK t \in Ids : t = First /\ info[t].offset \in Int /\ info[t] \in Tasks
  <2>1. Serving("Upload") \/ Serving("Download")
    BY DEF ReqUpload, ReqDownload
  <2>2. First \in Ids /\ info[First].offset \in Int /\ info[First] \in Tasks
    BY <2>1, ServingProperties
  <2>. QED
    BY <2>2
<1>2. reqs \in Seq(Requests) /\ reqs' \in Seq(Requests)
    BY <1>0 DEF TypeOK
<1>3. \A u \in Ids : info[u].offset \in Int
    BY <1>0 DEF Tasks
<1>4. CASE ReqUpload
  <2>1. info' = info
    BY <1>4 DEF ReqUpload
  <2>2. \E seg : reqs' = Append(reqs, [cmd |-> "Up", id |-> t, file |-> info[t].file,
                                       pos |-> info[t].offset, seg |-> seg])
    BY <1>1, <1>4 DEF ReqUpload
  <2>3. PICK r : reqs' = Append(reqs, r) /\ r.id = t /\ r.pos = info[t].offset
    BY <2>2
  <2>4. r \in Requests
    <3>1. Len(reqs') = Len(reqs) + 1 /\ reqs'[Len(reqs) + 1] = r /\ Len(reqs) \in Nat
      BY <1>2, <2>3
    <3>. QED
      BY <1>2, <3>1
  <2>5. info'[r.id].offset <= r.pos
    BY <1>1, <2>1, <2>3
  <2>6. \A u \in Ids : info[u].offset <= info'[u].offset
    BY <1>3, <2>1
  <2>. QED
    BY <1>0, <2>3, <2>4, <2>5, <2>6, OffsetSend
<1>5. CASE ReqDownload
  <2>0. PICK pos \in Int : pos = IF info[t].offset < 0 THEN 0 ELSE info[t].offset
    BY <1>1
  <2>1. info' = [info EXCEPT ![t].offset = pos]
    BY <1>1, <1>5, <2>0 DEF ReqDownload
  <2>2. \E seg, f : reqs' = Append(reqs, [cmd |-> "Down", id |-> t, file |-> f,
                                          pos |-> pos, seg |-> seg])
    BY <1>1, <1>5, <2>0 DEF ReqDownload
  <2>3. PICK r : reqs' = Append(reqs, r) /\ r.id = t /\ r.pos = pos
    BY <2>2
  <2>4. r \in Requests
    <3>1. Len(reqs') = Len(reqs) + 1 /\ reqs'[Len(reqs) + 1] = r /\ Len(reqs) \in Nat
      BY <1>2, <2>3
    <3>. QED
      BY <1>2, <3>1
  <2>5. info'[t].offset = pos /\ \A u \in Ids : u # t => info'[u] = info[u]
    <3>1. info'[t] = [info[t] EXCEPT !.offset = pos]
      BY <1>0, <2>1
    <3>2. info'[t].offset = pos
      BY <1>1, <3>1 DEF Tasks
    <3>. QED
      BY <1>0, <2>1, <3>2
  <2>6. info'[r.id].offset <= r.pos
    BY <2>0, <2>3, <2>5
  <2>7. \A u \in Ids : info[u].offset <= info'[u].offset
    BY <1>3, <2>0, <2>5
  <2>. QED
    BY <1>0, <2>3, <2>4, <2>6, <2>7, OffsetSend
<1>. QED
    BY <1>4, <1>5

\* The two handlers of the server.
LEMMA OffsetFms ==
    ASSUME TransferInv, TypeOK', GateInv, OffsetInv, FmsUp \/ FmsDown
    PROVE  OffsetInv' /\ OffsetKept
<1>0. TypeOK /\ reqs # <<>> /\ reqs' = Tail(reqs) /\ info' = info
    BY DEF TransferInv, FmsUp, FmsDown, taskVars
<1>1. PICK r \in Requests : r = Head(reqs) /\ RequestInv(r)
    BY <1>0, HeadRequest
<1>2. acks \in Seq(Answers) /\ acks' \in Seq(Answers) /\ reqs \in Seq(Requests)
    BY <1>0 DEF TypeOK
<1>3. info[r.id].offset <= r.pos /\ r.pos \in Int /\ info[r.id].offset \in Int
  <2>1. Known(reqs, r)
    BY <1>0, <1>1, <1>2, KnownTail
  <2>2. r.id \in Ids /\ info[r.id] \in Tasks
    BY <1>0 DEF Requests, TypeOK
  <2>. QED
    BY <2>1, <2>2, OffsetInvAll DEF Requests, Tasks
<1>4. PICK a : /\ acks' = Append(acks, a) /\ a.id = r.id
               /\ a.cmd = "Up" => r.pos <= a.pos /\ a.pos \in Int
  <2>1. CASE FmsUp
    <3>1. PICK out \in UpResults(r) :
             acks' = Append(acks, [cmd |-> "Up", id |-> r.id, pos |-> out.pos,
                                   result |-> out.result, seg |-> NoSeg])
      BY <1>1, <2>1 DEF FmsUp
    <3>2. r.pos <= out.pos /\ out.pos \in Int
      BY <1>0, <1>1, <2>1, UpResultsForward DEF FmsUp
    <3>. QED
      BY <3>1, <3>2
  <2>2. CASE FmsDown
    <3>1. PICK seg : acks' = Append(acks, [cmd |-> "Down", id |-> r.id, pos |-> r.pos,
                                           result |-> seg.result, seg |-> seg])
      BY <1>1, <2>2 DEF FmsDown
    <3>2. PICK a : /\ a = [cmd |-> "Down", id |-> r.id, pos |-> r.pos,
                           result |-> seg.result, seg |-> seg]
                   /\ acks' = Append(acks, a)
      BY <3>1
    <3>3. a.id = r.id /\ a.cmd # "Up"
      BY <3>2
    <3>. QED
      BY <3>2, <3>3
  <2>. QED
    BY <2>1, <2>2
<1>5. a \in Answers
  <2>1. Len(acks') = Len(acks) + 1 /\ acks'[Len(acks) + 1] = a /\ Len(acks) \in Nat
    BY <1>2, <1>4
  <2>. QED
    BY <1>2, <2>1
<1>6. a.cmd = "Up" => info[a.id].offset <= a.pos
    BY <1>3, <1>4
<1>. QED
    BY <1>0, <1>1, <1>4, <1>5, <1>6, OffsetServe

\* The two handlers of answers.
LEMMA OffsetAcks ==
    ASSUME TransferInv, TypeOK', GateInv, OffsetInv, AckUp \/ AckDown
    PROVE  OffsetInv' /\ OffsetKept
<1>0. TypeOK /\ info \in [Ids -> Tasks]
    BY DEF TransferInv, TypeOK
<1>1. \A u \in Ids : info[u] \in Tasks /\ info[u].offset \in Int
    BY <1>0 DEF Tasks
<1>2. CASE AckUp
  <2>1. TakeAck("Up")
    BY <1>2 DEF AckUp
  <2>2. PICK a \in Answers : a = Head(acks) /\ a.cmd = "Up" /\ AnswerInv(a)
    BY <2>1, TakeAckProperties
  <2>3. a.id \in Ids /\ a.pos \in Int
    BY DEF Answers
  <2>4. info[a.id].offset <= a.pos
    <3>1. Known(acks, a)
      BY <2>1, <2>2, KnownTail DEF TakeAck, TransferInv, TypeOK
    <3>. QED
      BY <2>2, <3>1, OffsetInvAll
  <2>5. PICK z : info' = [info EXCEPT ![a.id].offset = a.pos, ![a.id].result = z]
    BY <1>2, <2>2 DEF AckUp
  <2>6. info'[a.id] = [info[a.id] EXCEPT !.offset = a.pos, !.result = z]
    BY <1>0, <2>3, <2>5
  <2>7. info'[a.id].offset = a.pos
    BY <1>1, <2>3, <2>6 DEF Tasks
  <2>8. \A u \in Ids : u # a.id => info'[u] = info[u]
    BY <1>0, <2>5
  <2>9. OffsetKept
    BY <1>1, <2>4, <2>7, <2>8 DEF OffsetKept
  <2>. QED
    BY <2>1, <2>9, OffsetAck
<1>3. CASE AckDown
  <2>1. TakeAck("Down")
    BY <1>3 DEF AckDown
  <2>2. PICK a \in Answers : a = Head(acks)
    BY <2>1, TakeAckProperties
  <2>3. a.id \in Ids
    BY DEF Answers
  <2>4. \/ info' = [info EXCEPT ![a.id].result = "Failed"]
        \/ \E n \in Nat : info' = [info EXCEPT ![a.id].offset = @ + n]
    <3>1. \A x \in WriteOutcomes(info[a.id].file, a.seg) :
             a.result \in {"Ok", "ReachEnd"} => x.ret \in Int
      <4>1. AnswerInv(a) /\ a.cmd = "Down"
        BY <2>1, <2>2, TakeAckProperties
      <4>2. /\ info[a.id].file \in Files /\ a.seg \in Segs /\ Touched(info[a.id].file)
            /\ a.result \in {"Ok", "ReachEnd"} => IsSlice(a.seg, size[info[a.id].file])
        BY <2>3, <4>1 DEF AnswerInv, Answers, TransferInv, TaskInv
      <4>. QED
        BY <1>0, <4>2, WriteOutcomesProperties
    <3>3. \/ info' = [info EXCEPT ![a.id].result = "Failed"]
          \/ /\ a.result \in {"Ok", "ReachEnd"}
             /\ \E w \in WriteOutcomes(info[a.id].file, a.seg) :
                  info' = IF w.ret < 0
                          THEN [info EXCEPT ![a.id].result = "Failed"]
                          ELSE [info EXCEPT ![a.id].offset = @ + w.ret]
      BY <1>3, <2>2 DEF AckDown
    <3>4. CASE info' = [info EXCEPT ![a.id].result = "Failed"]
      BY <3>4
    <3>5. CASE info' # [info EXCEPT ![a.id].result = "Failed"]
      <4>1. a.result \in {"Ok", "ReachEnd"}
        BY <3>3, <3>5
      <4>2. PICK w \in WriteOutcomes(info[a.id].file, a.seg) :
               info' = IF w.ret < 0
                       THEN [info EXCEPT ![a.id].result = "Failed"]
                       ELSE [info EXCEPT ![a.id].offset = @ + w.ret]
        BY <3>3, <3>5
      <4>3. w.ret \in Int
        BY <3>1, <4>1
      <4>4. w.ret \in Nat /\ info' = [info EXCEPT ![a.id].offset = @ + w.ret]
        BY <3>5, <4>2, <4>3
      <4>. QED
        BY <4>4
    <3>. QED
      BY <3>4, <3>5
  <2>5. \A u \in Ids : info[u].offset <= info'[u].offset
    <3>1. CASE info' = [info EXCEPT ![a.id].result = "Failed"]
      <4>1. \A u \in Ids : info'[u].offset = info[u].offset
        BY <1>0, <3>1 DEF Tasks
      <4>. QED
        BY <1>1, <4>1
    <3>2. ASSUME NEW n \in Nat, info' = [info EXCEPT ![a.id].offset = @ + n]
          PROVE  \A u \in Ids : info[u].offset <= info'[u].offset
      <4>1. info'[a.id] = [info[a.id] EXCEPT !.offset = @ + n]
        BY <1>0, <2>3, <3>2
      <4>2. info'[a.id].offset = info[a.id].offset + n
        BY <1>1, <2>3, <4>1 DEF Tasks
      <4>3. \A u \in Ids : u # a.id => info'[u] = info[u]
        BY <1>0, <3>2
      <4>. QED
        BY <1>1, <2>3, <4>2, <4>3
    <3>. QED
      BY <2>4, <3>1, <3>2
  <2>6. OffsetKept
    BY <2>5 DEF OffsetKept
  <2>. QED
    BY <2>1, <2>6, OffsetAck
<1>. QED
    BY <1>2, <1>3

\* Every step keeps OffsetInv and moves no task back.
LEMMA OffsetNext ==
    TransferInv /\ TypeOK' /\ GateInv /\ OffsetInv /\ [Next]_vars
        => OffsetInv' /\ OffsetKept
<1>. SUFFICES ASSUME TransferInv, TypeOK', GateInv, OffsetInv, [Next]_vars
              PROVE  OffsetInv' /\ OffsetKept
    OBVIOUS
<1>0. TypeOK /\ info \in [Ids -> Tasks] /\ nextId \in Nat
    BY DEF TransferInv, TypeOK
<1>1. ASSUME NEW x, info' = [info EXCEPT ![nextId] = x]
      PROVE  \A t \in Ids : t < nextId => info'[t].offset = info[t].offset
  <2>1. \A t \in Ids : t < nextId => t # nextId
    BY <1>0 DEF Ids
  <2>. QED
    BY <1>0, <1>1, <2>1
<1>2. CASE \E f \in Files : UiTransfer(f)
  <2>1. (\E x : info' = [info EXCEPT ![nextId] = x]) /\ UNCHANGED <<reqs, acks>>
    BY <1>2 DEF UiTransfer, netVars
  <2>. QED
    BY <1>1, <2>1, OffsetQuiet
<1>3. CASE UiReconnect \/ UiConnect
  <2>1. /\ \E x : info' = [info EXCEPT ![nextId] = x]
        /\ reqs' = <<>> /\ acks' = <<>>
    BY <1>3 DEF UiReconnect, UiConnect, ResetClient
  <2>2. \A q : ~Known(reqs', q) /\ ~Known(acks', q)
    BY <2>1 DEF Known
  <2>. QED
    BY <1>1, <2>1, <2>2, OffsetQuiet
<1>4. CASE UiCleanAll \/ HandshakeOk \/ UserStart \/ Timer \/ UserLoopIdle \/ FmsLate
           \/ UNCHANGED vars \/ \E f \in Files : GrowSource(f)
  <2>1. UNCHANGED <<info, reqs, acks>>
    BY <1>4 DEF UiCleanAll, HandshakeOk, UserStart, Timer, UserLoopIdle, FmsLate,
                GrowSource, taskVars, netVars, vars
  <2>. QED
    BY <2>1, OffsetQuiet
<1>5. CASE HandshakeMismatch
  <2>1. PICK k : info' = [info EXCEPT ![k].result = "VisitCodeMismatch"]
    BY <1>5 DEF HandshakeMismatch
  <2>2. \A t \in Ids : info'[t].offset = info[t].offset
    BY <1>0, <2>1 DEF Tasks
  <2>. QED
    BY <1>5, <2>2, OffsetQuiet DEF HandshakeMismatch, netVars
<1>6. CASE Disconnect
  <2>1. info' = info /\ reqs' = <<>> /\ acks' = <<>>
    BY <1>6 DEF Disconnect, taskVars
  <2>2. \A q : ~Known(reqs', q) /\ ~Known(acks', q)
    BY <2>1 DEF Known
  <2>. QED
    BY <2>1, <2>2, OffsetQuiet
<1>7. CASE UserLoopConnect
    BY <1>7, OffsetQuiet DEF UserLoopConnect, Serving
<1>8. CASE ReqUpload \/ ReqDownload
    BY <1>8, OffsetReq
<1>9. CASE ReqDownloadNoSpace
  <2>1. info' = [info EXCEPT ![First].result = "NoSpace"] /\ UNCHANGED <<reqs, acks>>
    BY <1>9 DEF ReqDownloadNoSpace, Serving
  <2>2. \A t \in Ids : info'[t].offset = info[t].offset
    BY <1>0, <2>1 DEF Tasks
  <2>. QED
    BY <2>1, <2>2, OffsetQuiet
<1>10. CASE FmsUp \/ FmsDown
    BY <1>10, OffsetFms
<1>11. CASE AckGone
  <2>1. UNCHANGED <<info, reqs>> /\ acks # <<>> /\ acks' = Tail(acks)
    BY <1>11 DEF AckGone, TakeAck
  <2>2. \A a : Known(acks', a) => Known(acks, a)
    BY <1>0, <2>1, KnownTail DEF TypeOK
  <2>. QED
    BY <2>1, <2>2, OffsetQuiet
<1>12. CASE AckUp \/ AckDown
    BY <1>12, OffsetAcks
<1>. QED
    BY <1>2, <1>3, <1>4, <1>5, <1>6, <1>7, <1>8, <1>9, <1>10, <1>11, <1>12
       DEF Next, Ui, Conn, Client, Server

\* No answer, retry or reconnect ever moves a transfer back to an earlier
\* offset_ (FmcUpFile::ack takes the position the server reports as it is).
THEOREM NeverBack == Spec => OffsetNeverBack
<1>1. Init => OffsetInv
    BY DEF Init, OffsetInv
<1>2. /\ TransferInv /\ TypeOK' /\ GateInv /\ OffsetInv /\ [Next]_vars
         => OffsetInv'
      /\ TransferInv /\ TypeOK' /\ GateInv /\ OffsetInv /\ [Next]_vars
         => [\A t \in Ids : t < nextId => info[t].offset <= info'[t].offset]_vars
    BY OffsetNext DEF OffsetKept
<1>. QED
    BY <1>1, <1>2, GateInit, GateNext, TransferInvariant, TypeCorrect, PTL
       DEF Spec, OffsetNeverBack


-----------------------------------------------------------------------------
(* An answer finds its task                                                *)

\* getFirst returns the front of the list, a task that has not failed.
LEMMA FirstIsFront ==
    ASSUME TypeOK, First # NoTask
    PROVE  /\ First \in Ids /\ Known(tasks, First) /\ First \in OkTasks
           /\ \A u : Known(tasks, u) => u = First \/ Precedes(tasks, First, u)
<1>1. tasks \in Seq(Ids)
    BY DEF TypeOK
<1>2. GetFirst(tasks, OkTasks, Ids) # NoTask
    BY DEF First
<1>. HIDE DEF OkTasks
<1>. QED
    BY <1>1, <1>2, GetFirstIsFront, FirstType DEF First

\* Pending in terms of the messages that are in a queue.
LEMMA PendingAll ==
    /\ \A t : t \in Pending <=> \/ \E r : Known(reqs, r) /\ r.id = t
                                \/ \E a : Known(acks, a) /\ a.id = t
    /\ \A t : t \in Pending' <=> \/ \E r : Known(reqs', r) /\ r.id = t
                                 \/ \E a : Known(acks', a) /\ a.id = t
    BY DEF Pending, Known

\* Nothing is pending when both queues are empty.
LEMMA NothingPending ==
    /\ reqs = <<>> /\ acks = <<>> => Pending = {}
    /\ reqs' = <<>> /\ acks' = <<>> => Pending' = {}
<1>1. \A x : ~Known(<<>>, x)
    BY DEF Known
<1>2. reqs = <<>> /\ acks = <<>> => Pending = {}
    BY <1>1, PendingAll
<1>3. reqs' = <<>> /\ acks' = <<>> => Pending' = {}
    BY <1>1, PendingAll
<1>. QED
    BY <1>2, <1>3

\* Pending tasks are transfers that were given out.
LEMMA PendingTransfers ==
    ASSUME TransferInv
    PROVE  \A t \in Pending : t \in Ids /\ t \in Transfers /\ t < nextId
<1>1. \A t \in Pending : t \in Ids /\ t < nextId
    BY PendingAll, MessageIds
<1>2. \A r : Known(reqs, r) => RequestInv(r)
    BY DEF TransferInv, MessageInv, Known
<1>3. \A a : Known(acks, a) => AnswerInv(a)
    BY DEF TransferInv, MessageInv, Known
<1>4. \A t \in Pending : t \in Transfers
    BY <1>2, <1>3, PendingAll DEF RequestInv, AnswerInv
<1>. QED
    BY <1>1, <1>4

\* What a step does to the tasks on the wire: the request of the front task
\* goes out, or none is added.
LEMMA PendingMoves ==
    ASSUME TransferInv, TypeOK', GateInv, GateInv', [Next]_vars
    PROVE  \/ Pending' = {}
           \/ /\ ReqUpload \/ ReqDownload
              /\ Pending' = {First}
           \/ /\ UNCHANGED <<reqs, acks>> /\ Pending' = Pending
              /\ ~(canSend \/ starting \/ phase = "connecting")
           \/ (FmsUp \/ FmsDown) /\ Pending' \subseteq Pending
<1>0. /\ canSend \/ starting \/ phase = "connecting" => reqs = <<>> /\ acks = <<>>
      /\ canSend' => reqs' = <<>> /\ acks' = <<>>
    BY DEF GateInv, OneOutstanding
<1>1. CASE UNCHANGED <<reqs, acks>>
    BY <1>0, <1>1, NothingPending DEF Pending
<1>2. CASE UiReconnect \/ UiConnect \/ Disconnect
  <2>1. reqs' = <<>> /\ acks' = <<>>
    BY <1>2 DEF UiReconnect, UiConnect, ResetClient, Disconnect
  <2>. QED
    BY <2>1, NothingPending
<1>3. CASE AckUp \/ AckDown \/ AckGone
  <2>1. canSend'
    BY <1>3 DEF AckUp, AckDown, AckGone, TakeAck
  <2>. QED
    BY <1>0, <2>1, NothingPending
<1>4. CASE ReqUpload \/ ReqDownload
  <2>1. canSend /\ acks' = acks
    BY <1>4 DEF ReqUpload, ReqDownload, Serving
  <2>9. \E r : reqs' = Append(reqs, r) /\ r.id = First
    <3>1. CASE ReqUpload
      <4>1. PICK seg : reqs' = Append(reqs, [cmd |-> "Up", id |-> First,
                          file |-> info[First].file, pos |-> info[First].offset,
                          seg |-> seg])
        BY <3>1 DEF ReqUpload
      <4>. QED
        BY <4>1
    <3>2. CASE ReqDownload
      <4>1. PICK pos : reqs' = Append(reqs, [cmd |-> "Down", id |-> First,
                          file |-> info[First].file, pos |-> pos, seg |-> NoSeg])
        BY <3>2 DEF ReqDownload
      <4>. QED
        BY <4>1
    <3>. QED
      BY <1>4, <3>1, <3>2
  <2>2. PICK r : reqs' = Append(reqs, r) /\ r.id = First
    BY <2>9
  <2>3. reqs' = <<r>> /\ acks' = <<>>
    BY <1>0, <2>1, <2>2
  <2>4. Len(reqs') = 1 /\ reqs'[1] = r /\ Len(acks') = 0
    BY <2>3
  <2>5. Pending' = {First}
    BY <2>2, <2>4 DEF Pending
  <2>. QED
    BY <1>4, <2>5
<1>5. CASE FmsUp \/ FmsDown
  <2>1. reqs # <<>> /\ reqs' = Tail(reqs)
    BY <1>5 DEF FmsUp, FmsDown
  <2>9. \E a : acks' = Append(acks, a) /\ a.id = Head(reqs).id
    <3>1. CASE FmsUp
      <4>1. PICK out : acks' = Append(acks, [cmd |-> "Up", id |-> Head(reqs).id,
                          pos |-> out.pos, result |-> out.result, seg |-> NoSeg])
        BY <3>1 DEF FmsUp
      <4>. QED
        BY <4>1
    <3>2. CASE FmsDown
      <4>1. PICK seg : acks' = Append(acks, [cmd |-> "Down", id |-> Head(reqs).id,
                          pos |-> Head(reqs).pos, result |-> seg.result, seg |-> seg])
        BY <3>2 DEF FmsDown
      <4>. QED
        BY <4>1
    <3>. QED
      BY <1>5, <3>1, <3>2
  <2>2. PICK a : acks' = Append(acks, a) /\ a.id = Head(reqs).id
    BY <2>9
  <2>3. acks \in Seq(Answers) /\ acks' \in Seq(Answers) /\ reqs \in Seq(Requests)
    BY DEF TransferInv, TypeOK
  <2>4. Len(acks') = Len(acks) + 1 /\ acks'[Len(acks) + 1] = a /\ Len(acks) \in Nat
    BY <2>2, <2>3
  <2>5. a \in Answers
    BY <2>3, <2>4, ElementOfSeq
  <2>6. \A x : Known(acks', x) => Known(acks, x) \/ x = a
    BY <2>2, <2>3, <2>5, KnownAppend
  <2>7. Known(reqs, Head(reqs)) /\ \A x : Known(reqs', x) => Known(reqs, x)
    BY <2>1, <2>3, KnownTail
  <2>8. \A t : t \in Pending' => t \in Pending
    BY <2>2, <2>6, <2>7, PendingAll
  <2>. QED
    BY <1>5, <2>8
<1>6. UNCHANGED <<reqs, acks>> \/ UiReconnect \/ UiConnect \/ Disconnect \/ AckUp
      \/ AckDown \/ AckGone \/ ReqUpload \/ ReqDownload \/ FmsUp \/ FmsDown
    BY DEF Next, Ui, Conn, Client, Server, UiTransfer, UiCleanAll, HandshakeOk,
           HandshakeMismatch, UserStart, Timer, UserLoopIdle, UserLoopConnect, ReqDownloadNoSpace, Serving,
           FmsLate, GrowSource, vars, netVars
<1>. QED
    BY <1>1, <1>2, <1>3, <1>4, <1>5, <1>6

\* A step that keeps the listed tasks and the results.
LEMMA PendingQuiet ==
    ASSUME TransferInv, TypeOK', PendingInv, Pending' \subseteq Pending, tasks' = tasks,
           replacing' = replacing, \A t \in Ids : info'[t].result = info[t].result
    PROVE  PendingInv'
    BY PendingTransfers DEF PendingInv, OkTasks

\* While the client is being replaced the list is empty and no handler fills it,
\* and the new client has nothing on the wire.
LEMMA PendingReplacing ==
    ASSUME TypeOK, TypeOK', PendingInv, [Next]_vars, replacing \/ replacing'
    PROVE  PendingInv'
<1>1. CASE UiCleanAll
    BY <1>1 DEF UiCleanAll, PendingInv
<1>2. CASE UiReconnect \/ UiConnect
  <2>1. ~replacing' /\ reqs' = <<>> /\ acks' = <<>>
    BY <1>2 DEF UiReconnect, UiConnect, ResetClient
  <2>. QED
    BY <2>1, NothingPending DEF PendingInv
<1>3. CASE ~(UiCleanAll \/ UiReconnect \/ UiConnect)
  <2>1. replacing' = replacing
    <3>1. CASE \E f \in Files : UiTransfer(f)
      BY <3>1 DEF UiTransfer, connVars
    <3>2. CASE Conn \/ UserStart \/ Timer \/ UserLoopIdle
      BY <3>2 DEF Conn, HandshakeOk, HandshakeMismatch, Disconnect, UserStart, Timer,
             UserLoopIdle, connVars
    <3>4. CASE UserLoopConnect \/ ReqUpload \/ ReqDownload \/ ReqDownloadNoSpace
      <4>1. \E ty \in {"Connect", "Upload", "Download"} : Serving(ty)
        BY <3>4 DEF UserLoopConnect, ReqUpload, ReqDownload, ReqDownloadNoSpace
      <4>. QED
        BY <4>1 DEF Serving, connVars
    <3>5. CASE AckUp \/ AckDown \/ AckGone
      <4>1. \E cmd \in {"Up", "Down"} : TakeAck(cmd)
        BY <3>5 DEF AckUp, AckDown, AckGone
      <4>. QED
        BY <4>1 DEF TakeAck
    <3>3. CASE Server \/ (\E f \in Files : GrowSource(f)) \/ UNCHANGED vars
      BY <3>3 DEF Server, FmsUp, FmsDown, FmsLate, GrowSource, vars, connVars
    <3>. QED
      BY <1>3, <3>1, <3>2, <3>3, <3>4, <3>5 DEF Next, Ui, Client
  <2>2. replacing /\ replacing' /\ tasks = <<>>
    BY <2>1 DEF PendingInv
  <2>3. \A t : ~Known(tasks, t)
    BY <2>2 DEF Known
  <2>4. ~(\E f \in Files : UiTransfer(f)) /\ ~AckUp /\ ~AckDown
    BY <2>2, <2>3 DEF UiTransfer, AckUp, AckDown
  <2>5. CASE HandshakeOk
    <3>1. tasks' = tasks \/ \E W : tasks' = EraseFirst(tasks, W)
      BY <2>5 DEF HandshakeOk, RemoveTask
    <3>2. \A t \in Ids : ~Known(tasks', t)
      BY <2>3, <3>1, KnownErase DEF TypeOK
    <3>3. tasks' = <<>>
      <4>1. tasks' \in Seq(Ids) /\ Len(tasks') \in Nat
        BY DEF TypeOK
      <4>2. Len(tasks') # 0 => tasks'[1] \in Ids /\ Known(tasks', tasks'[1])
        BY <4>1, ElementOfSeq DEF Known
      <4>. QED
        BY <3>2, <4>1, <4>2, EmptySeq
    <3>. QED
      BY <2>2, <3>3 DEF PendingInv
  <2>6. CASE ~HandshakeOk
    <3>1. tasks' = tasks
      BY <1>3, <2>4, <2>6
         DEF Next, Ui, Conn, Client, Server, HandshakeMismatch, Disconnect, UserStart,
           Timer, UserLoopIdle, UserLoopConnect, ReqUpload, ReqDownload,
           ReqDownloadNoSpace, Serving, FmsUp, FmsDown, FmsLate, AckGone, GrowSource,
           vars, taskVars
    <3>. QED
      BY <2>2, <3>1 DEF PendingInv
  <2>. QED
    BY <2>5, <2>6
<1>. QED
    BY <1>1, <1>2, <1>3

\* cleanError and add() of FileManSubDlg::transfer keep every pending task.
LEMMA PendingUiTransfer ==
    ASSUME TransferInv, ListInv, PendingInv, NEW f \in Files, UiTransfer(f)
    PROVE  PendingInv'
<1>0. ~replacing /\ ~replacing'
    BY DEF UiTransfer, connVars
<1>. DEFINE kept == CleanError(tasks, Ids \ OkTasks, OfType("Connect"))
<1>1. /\ tasks \in Seq(Ids) /\ info \in [Ids -> Tasks] /\ nextId \in Ids
      /\ nextId \in Nat
    BY ConstAssumption DEF TransferInv, TypeOK, Ids, UiTransfer
<1>2. /\ \E x : info' = [info EXCEPT ![nextId] = x]
      /\ tasks' = Add(kept, Prios(info'), nextId)
      /\ UNCHANGED <<reqs, acks>>
    BY DEF UiTransfer, netVars
<1>3. kept \in Seq(Ids)
    BY <1>1, EraseFirstType DEF CleanError
<1>4. Pending' = Pending
    BY <1>2 DEF Pending
<1>5. ASSUME NEW t \in Pending PROVE Known(kept, t)
  <2>1. Known(tasks, t) /\ t \notin (Ids \ OkTasks) \ OfType("Connect")
    BY <1>0 DEF PendingInv
  <2>. QED
    BY <1>1, <2>1, EraseKeeps DEF CleanError
<1>. HIDE DEF kept
<1>6. \A t \in Pending : Known(tasks', t)
    BY <1>1, <1>2, <1>3, <1>5, AddKeeps, PriosType
<1>7. \A t \in Pending : t \in Ids /\ info'[t] = info[t]
    BY <1>1, <1>2, PendingTransfers DEF Ids
<1>. QED
    BY <1>0, <1>4, <1>6, <1>7 DEF PendingInv, OkTasks

\* Every step keeps the pending tasks listed and free of errors.
LEMMA PendingNext ==
    TransferInv /\ TypeOK' /\ GateInv /\ GateInv' /\ ListInv /\ PendingInv /\ [Next]_vars
       => PendingInv'
<1>. SUFFICES ASSUME TransferInv, TypeOK', GateInv, GateInv', ListInv, PendingInv,
                     [Next]_vars
              PROVE  PendingInv'
    OBVIOUS
<1>0. info \in [Ids -> Tasks] /\ TypeOK
    BY DEF TransferInv, TypeOK
<1>a. CASE replacing \/ replacing'
    BY <1>0, <1>a, PendingReplacing
<1>b. SUFFICES ASSUME ~replacing, ~replacing' PROVE PendingInv'
    BY <1>a
<1>c. replacing' = replacing
    BY <1>b DEF TransferInv, TypeOK
<1>1. CASE Pending' = {}
    BY <1>1, <1>b DEF PendingInv
<1>2. CASE (ReqUpload \/ ReqDownload) /\ Pending' = {First}
  <2>1. First # NoTask /\ tasks' = tasks
    BY <1>2 DEF ReqUpload, ReqDownload, Serving
  <2>2. First \in Ids /\ Known(tasks, First) /\ First \in OkTasks
    BY <1>0, <2>1, FirstIsFront
  <2>3. info'[First].result = info[First].result
    <3>1. CASE ReqUpload
      BY <3>1 DEF ReqUpload
    <3>2. CASE ReqDownload
      <4>1. \E x : info' = [info EXCEPT ![First].offset = x]
        BY <3>2 DEF ReqDownload
      <4>2. info[First] \in Tasks
        BY <1>0, <2>2
      <4>. QED
        BY <1>0, <2>2, <4>1, <4>2 DEF Tasks
    <3>. QED
      BY <1>2, <3>1, <3>2
  <2>4. Known(tasks', First) /\ First \in OkTasks'
    BY <2>1, <2>2, <2>3 DEF OkTasks
  <2>5. ASSUME NEW t \in Pending' PROVE t = First
    BY <1>2
  <2>. QED
    BY <1>b, <2>4, <2>5 DEF PendingInv
<1>3. CASE (FmsUp \/ FmsDown) /\ Pending' \subseteq Pending
    BY <1>3, <1>c, PendingQuiet DEF FmsUp, FmsDown, taskVars
<1>4. CASE /\ UNCHANGED <<reqs, acks>> /\ Pending' = Pending
           /\ ~(canSend \/ starting \/ phase = "connecting")
  <2>1. CASE \E f \in Files : UiTransfer(f)
    BY <2>1, PendingUiTransfer
  <2>2. CASE UNCHANGED <<tasks, info>>
    BY <1>4, <1>c, <2>2, PendingQuiet
  <2>3. CASE (UiReconnect \/ UiConnect \/ Disconnect) /\ Pending' # {}
    BY <2>3, NothingPending DEF UiReconnect, UiConnect, ResetClient, Disconnect
  <2>4. CASE (AckUp \/ AckDown \/ AckGone) /\ Pending' # {}
    BY <2>4, NothingPending DEF AckUp, AckDown, AckGone, TakeAck, GateInv, OneOutstanding
  <2>5. ~UiCleanAll
    BY <1>b DEF UiCleanAll
  <2>. QED
    BY <1>1, <1>4, <2>1, <2>2, <2>3, <2>4, <2>5
       DEF Next, Ui, Conn, Client, Server, HandshakeOk, HandshakeMismatch, UserStart,
           Timer, UserLoopIdle, UserLoopConnect, ReqUpload, ReqDownload,
           ReqDownloadNoSpace, Serving, FmsUp, FmsDown, FmsLate, GrowSource, vars,
           taskVars
<1>. QED
    BY <1>1, <1>2, <1>3, <1>4, PendingMoves

\* FmcUpFile::ack and FmcDownFile::ack take their NULL branch only in a client that
\* dataToEngine is replacing: cleanError, the handshake, a reconnect and the other
\* answers never remove a task whose request or answer is on the wire.
THEOREM AnswersFindTheirTask == Spec => []AnswerHasTask
<1>1. Init => PendingInv
    BY NothingPending DEF Init, PendingInv
<1>2. PendingInv => AnswerHasTask
    BY DEF PendingInv, AnswerHasTask, Pending
<1>3. TransferInv => TypeOK
    BY DEF TransferInv
<1>. QED
    BY <1>1, <1>2, <1>3, TransferInvariant, GateInit, GateNext, ListInit, ListNext,
       PendingNext, PTL DEF Spec

-----------------------------------------------------------------------------
(* The engine is woken                                                     *)

\* A connected client with an open gate and a task to serve has a USER_LOOP
\* queued: no order of ack, onUserStart, onUserLoop and the UI's notifyEngine
\* loses the wakeup.
THEOREM EngineIsWoken == Spec => []NoLostWakeup
<1>1. Init => NoLostWakeup
    BY DEF Init, NoLostWakeup
<1>2. TypeOK /\ TypeOK' /\ GateInv /\ NoLostWakeup /\ [Next]_vars => NoLostWakeup'
  <2>. SUFFICES ASSUME TypeOK, TypeOK', GateInv, NoLostWakeup, [Next]_vars
                PROVE  NoLostWakeup'
    OBVIOUS
  <2>0. loops \in Nat /\ loops' \in Nat
    BY DEF TypeOK
  <2>1. CASE phase' # "up" \/ ~canSend'
    BY <2>1 DEF NoLostWakeup
  <2>2. CASE loops' = loops + 1
    BY <2>0, <2>2 DEF NoLostWakeup
  <2>3. CASE UNCHANGED <<tasks, info, phase, canSend, loops>>
    BY <2>3 DEF NoLostWakeup, First, OkTasks
  <2>4. CASE UserLoopIdle
    <3>1. UNCHANGED <<tasks, info, phase, canSend>>
          /\ (phase # "up" \/ ~canSend \/ First = NoTask)
      BY <2>4 DEF UserLoopIdle, taskVars, connVars
    <3>2. First' = First
      BY <3>1 DEF First, OkTasks
    <3>. QED
      BY <3>1, <3>2 DEF NoLostWakeup
  <2>5. CASE HandshakeOk
    <3>1. ~canSend'
      BY <2>5 DEF HandshakeOk, GateInv
    <3>. QED
      BY <3>1 DEF NoLostWakeup
  <2>6. CASE UserStart
    <3>1. CASE phase = "up"
      BY <2>2, <2>6, <3>1 DEF UserStart
    <3>2. CASE phase # "up"
      BY <2>1, <2>6, <3>2 DEF UserStart
    <3>. QED
      BY <3>1, <3>2
  <2>7. CASE Client /\ ~(UserStart \/ UserLoopIdle)
    <3>1. CASE Timer
      BY <2>3, <3>1 DEF Timer, taskVars, connVars
    <3>2. CASE AckUp \/ AckDown \/ AckGone
      BY <2>2, <3>2 DEF AckUp, AckDown, AckGone, TakeAck
    <3>3. CASE UserLoopConnect \/ ReqUpload \/ ReqDownload \/ ReqDownloadNoSpace
      BY <2>1, <3>3
         DEF UserLoopConnect, ReqUpload, ReqDownload, ReqDownloadNoSpace, Serving
    <3>. QED
      BY <2>7, <3>1, <3>2, <3>3 DEF Client
  <2>8. CASE (Ui /\ ~UiCleanAll) \/ HandshakeMismatch \/ Disconnect
    BY <2>1, <2>2, <2>8 DEF Ui, UiTransfer, UiReconnect, UiConnect, ResetClient,
                            HandshakeMismatch, Disconnect
  <2>10. CASE UiCleanAll
    BY <2>10 DEF UiCleanAll, NoLostWakeup, First, GetFirst
  <2>9. CASE Server \/ (\E f \in Files : GrowSource(f)) \/ UNCHANGED vars
    BY <2>3, <2>9 DEF Server, FmsUp, FmsDown, FmsLate, GrowSource, vars, taskVars, connVars
  <2>. QED
    BY <2>4, <2>5, <2>6, <2>7, <2>8, <2>9, <2>10 DEF Next, Conn, Ui
<1>. QED
    BY <1>1, <1>2, TypeCorrect, GateInit, GateNext, PTL DEF Spec

-----------------------------------------------------------------------------
(* The gate reopens                                                        *)

\* Once the disk has room, the gate stays closed with nothing in flight only
\* behind a Connect task that a second resetFileManClient left in the list, or in a
\* client that dataToEngine is replacing.
THEOREM GateReopensWithSpace == Spec => []("nospace" \in Faults \/ GateReopens)
<1>1. Init => GateReopens
    BY DEF Init, GateReopens, Idle
<1>2. TransferInv /\ TypeOK' /\ ListInv /\ [Next]_vars
         /\ ("nospace" \in Faults \/ GateReopens)
         => ("nospace" \in Faults \/ GateReopens)'
  <2>. SUFFICES ASSUME TransferInv, TypeOK', ListInv, [Next]_vars,
                       "nospace" \notin Faults, GateReopens, Idle', ~replacing'
                PROVE  \E t \in OfType("Connect")' : Known(tasks', t)
    BY DEF GateReopens
  <2>0. /\ TypeOK /\ tasks \in Seq(Ids) /\ info \in [Ids -> Tasks]
        /\ phase' = "up" /\ ~canSend' /\ ~starting' /\ reqs' = <<>> /\ acks' = <<>>
    BY DEF TransferInv, TypeOK, Idle
  <2>1. CASE UserLoopConnect
    <3>1. First # NoTask /\ info[First].type = "Connect" /\ UNCHANGED <<tasks, info>>
      BY <2>1 DEF UserLoopConnect, Serving
    <3>2. First \in Ids /\ Known(tasks, First)
      BY <2>0, <3>1, FirstIsFront
    <3>3. First \in OfType("Connect")'
      BY <3>1, <3>2 DEF OfType
    <3>. QED
      BY <3>1, <3>2, <3>3
  <2>2. CASE \E f \in Files : UiTransfer(f)
    <3>1. PICK f \in Files : UiTransfer(f)
      BY <2>2
    <3>. DEFINE kept == CleanError(tasks, Ids \ OkTasks, OfType("Connect"))
    <3>9. /\ nextId <= MaxTasks
          /\ \E x : info' = [info EXCEPT ![nextId] = x]
          /\ tasks' = Add(kept, Prios(info'), nextId)
          /\ UNCHANGED <<reqs, acks, phase, canSend, starting>>
          /\ ~replacing
      BY <3>1 DEF UiTransfer, netVars, connVars
    <3>10. nextId \in Nat \ {0}
      BY <2>0 DEF TypeOK
    <3>11. nextId \in Ids
      BY <3>9, <3>10, ConstAssumption DEF Ids
    <3>2. /\ nextId \in Ids /\ nextId \in Nat
          /\ \E x : info' = [info EXCEPT ![nextId] = x]
          /\ tasks' = Add(kept, Prios(info'), nextId)
          /\ UNCHANGED <<reqs, acks, phase, canSend, starting>>
      BY <3>9, <3>10, <3>11
    <3>3. Idle /\ ~replacing
      BY <2>0, <3>2, <3>9 DEF Idle
    <3>4. PICK t \in OfType("Connect") : Known(tasks, t)
      BY <3>3 DEF GateReopens
    <3>5. kept \in Seq(Ids) /\ Known(kept, t)
      BY <2>0, <3>4, EraseKeeps, EraseFirstType DEF CleanError
    <3>. HIDE DEF kept
    <3>6. Known(tasks', t)
      BY <3>2, <3>5, AddKeeps, PriosType
    <3>7. t \in Ids /\ t < nextId
      BY <3>4 DEF OfType, ListInv
    <3>8. t \in OfType("Connect")'
      BY <2>0, <3>2, <3>4, <3>7 DEF OfType, Ids
    <3>. QED
      BY <3>6, <3>8
  <2>3. CASE UNCHANGED <<tasks, info, phase, canSend, starting, replacing, reqs, acks>>
    BY <2>0, <2>3 DEF GateReopens, Idle, OfType
  <2>4. CASE FmsUp \/ FmsDown
    <3>1. acks \in Seq(Answers) /\ \E a : acks' = Append(acks, a)
      BY <2>0, <2>4 DEF FmsUp, FmsDown, TypeOK
    <3>2. Len(acks') = Len(acks) + 1 /\ Len(acks) \in Nat
      BY <3>1
    <3>. QED
      BY <2>0, <3>2
  <2>5. CASE ReqUpload \/ ReqDownload
    <3>1. \E r : reqs' = Append(reqs, r)
      BY <2>5 DEF ReqUpload, ReqDownload
    <3>3. reqs \in Seq(Requests)
      BY <2>0 DEF TypeOK
    <3>2. Len(reqs') = Len(reqs) + 1 /\ Len(reqs) \in Nat
      BY <3>1, <3>3
    <3>. QED
      BY <2>0, <3>2
  <2>6. CASE UiReconnect \/ UiConnect \/ UiCleanAll \/ Disconnect \/ HandshakeOk
             \/ HandshakeMismatch
    BY <2>0, <2>6 DEF UiReconnect, UiConnect, ResetClient, UiCleanAll, Disconnect,
                      HandshakeOk, HandshakeMismatch
  <2>9. CASE AckUp \/ AckDown \/ AckGone
    <3>1. canSend'
      BY <2>9 DEF AckUp, AckDown, AckGone, TakeAck
    <3>. QED
      BY <2>0, <3>1
  <2>10. ~ReqDownloadNoSpace
    BY DEF ReqDownloadNoSpace
  <2>7. CASE UserStart
    <3>1. phase = "up" => canSend'
      BY <2>7 DEF UserStart
    <3>2. phase' = phase
      BY <2>7 DEF UserStart
    <3>. QED
      BY <2>0, <3>1, <3>2
  <2>8. CASE Timer \/ UserLoopIdle \/ FmsLate \/ (\E f \in Files : GrowSource(f))
             \/ UNCHANGED vars
    BY <2>3, <2>8 DEF Timer, UserLoopIdle, FmsLate, GrowSource, vars, taskVars, connVars,
                      netVars
  <2>. QED
    BY <2>1, <2>2, <2>4, <2>5, <2>6, <2>7, <2>8, <2>9, <2>10
       DEF Next, Ui, Conn, Client, Server
<1>3. TransferInv => TypeOK
    BY DEF TransferInv
<1>. QED
    BY <1>1, <1>2, <1>3, TransferInvariant, GateInit, GateNext, ListInit, ListNext,
       PTL DEF Spec
-----------------------------------------------------------------------------
(* Transfers of one file are served in the order they were asked for       *)

\* Tasks that follow each other are both listed.
LEMMA PrecedesKnown ==
    ASSUME NEW s, NEW a, NEW b, Precedes(s, a, b)
    PROVE  Known(s, a) /\ Known(s, b)
    BY DEF Precedes, Known

\* The front task is the oldest listed transfer of its file.
LEMMA FirstIsOldest ==
    ASSUME TypeOK, FifoInv, First # NoTask, First \in Transfers
    PROVE  Oldest(First)
<1>1. First \in Ids /\ Known(tasks, First)
      /\ \A u : Known(tasks, u) => u = First \/ Precedes(tasks, First, u)
    BY FirstIsFront
<1>2. \A u \in Transfers : u \in Int
    BY DEF Transfers, Ids
<1>. HIDE DEF First
<1>3. \A u \in Transfers : Precedes(tasks, First, u) /\ info[u].file = info[First].file
                              => First < u
    BY <1>1 DEF FifoInv
<1>. QED
    BY <1>1, <1>2, <1>3 DEF Oldest

\* A step that gives out no id, lets sources grow, keeps or erases list entries,
\* and serves or advances only the oldest transfer of a file.
LEMMA FifoQuiet ==
    ASSUME TransferInv, TypeOK', FifoInv,
           \A t \in Ids : /\ info'[t].type = info[t].type
                          /\ info'[t].file = info[t].file
                          /\ info'[t].total = info[t].total,
           \A f \in Files : size[f] <= size'[f],
           tasks' \in {tasks, <<>>} \/ \E W : tasks' = EraseFirst(tasks, W),
           \A t \in Pending' : t \in Ids /\ (t \in Pending \/ Oldest(t)),
           \A t \in Transfers : info'[t].offset >= 0 => info[t].offset >= 0 \/ Oldest(t)
    PROVE  FifoInv'
<1>1. /\ tasks \in Seq(Ids) /\ info \in [Ids -> Tasks] /\ info' \in [Ids -> Tasks]
      /\ size \in [Files -> Nat] /\ size' \in [Files -> Nat]
    BY DEF TransferInv, TypeOK
<1>2. Transfers' = Transfers
    BY DEF Transfers
<1>3. /\ \A t : Known(tasks', t) => Known(tasks, t)
      /\ \A t, u : Precedes(tasks', t, u) => Precedes(tasks, t, u)
  <2>1. CASE tasks' = <<>>
    BY <2>1 DEF Known, Precedes
  <2>2. CASE tasks' # <<>>
    BY <1>1, <2>2, KnownErase, PrecedesErase
  <2>. QED
    BY <2>1, <2>2
<1>4. \A t \in Transfers : t \in Ids
    BY DEF Transfers
<1>5. \A t \in Ids : Oldest(t) => Oldest(t)'
    BY <1>2, <1>3, <1>4 DEF Oldest
<1>6. \A t \in Transfers : info[t].file \in Files
    BY <1>4 DEF TransferInv, TaskInv
<1>7. \A t \in Transfers' : info'[t].total <= size'[info'[t].file]
  <2>. SUFFICES ASSUME NEW t \in Transfers
                PROVE  info[t].total <= size'[info[t].file]
    BY <1>2, <1>4
  <2>1. info[t].total \in Nat
    BY <1>1, <1>4 DEF Tasks
  <2>2. info[t].total <= size[info[t].file]
    BY DEF FifoInv
  <2>3. size[info[t].file] <= size'[info[t].file]
    BY <1>6
  <2>4. size[info[t].file] \in Nat /\ size'[info[t].file] \in Nat
    BY <1>1, <1>6
  <2>. QED
    BY <2>1, <2>2, <2>3, <2>4
<1>8. \A t, u \in Transfers' :
         Precedes(tasks', t, u) /\ info'[t].file = info'[u].file => t < u
    BY <1>2, <1>3, <1>4 DEF FifoInv
<1>9. \A t \in Pending' : Oldest(t)'
    BY <1>5 DEF FifoInv
<1>10. \A t \in Transfers' : Known(tasks', t) /\ info'[t].offset >= 0 => Oldest(t)'
    BY <1>2, <1>3, <1>4, <1>5 DEF FifoInv
<1>. QED
    BY <1>7, <1>8, <1>9, <1>10 DEF FifoInv

\* A transfer of a source that did not shrink never gets a smaller priority.
LEMMA PrioGrows ==
    ASSUME NEW x \in Tasks, NEW y \in Tasks, x.type # "Connect", y.type # "Connect",
           x.total <= y.total
    PROVE  Prio(x) <= Prio(y) /\ Prio(x) \in Int /\ Prio(y) \in Int
<1>1. x.total \in Nat /\ y.total \in Nat /\ SegLen \in Nat
    BY ConstAssumption DEF Tasks
<1>. QED
    BY <1>1 DEF Prio

\* add() of a transfer or of a Connect task with a new id.
LEMMA FifoAdd ==
    ASSUME TransferInv, TypeOK', ListInv, FifoInv, nextId \in Ids,
           NEW ty \in {"Connect", "Upload", "Download"}, NEW f, NEW n,
           ty # "Connect" => f \in Files /\ n = size[f],
           NEW kept \in Seq(Ids),
           \A t : Known(kept, t) => Known(tasks, t),
           \A t, u : Precedes(kept, t, u) => Precedes(tasks, t, u),
           info' = [info EXCEPT ![nextId] = Task(ty, f, n)],
           tasks' = Add(kept, Prios(info'), nextId),
           Pending' \subseteq Pending, size' = size
    PROVE  FifoInv'
<1>1. /\ info \in [Ids -> Tasks] /\ info' \in [Ids -> Tasks]
      /\ size \in [Files -> Nat] /\ nextId \in Nat
    BY DEF TransferInv, TypeOK
<1>2. info'[nextId] = Task(ty, f, n) /\ \A t \in Ids : t # nextId => info'[t] = info[t]
    BY <1>1
<1>3. \A t \in Ids : t \in Int
    BY DEF Ids
<1>4. \A t : Known(kept, t) => t \in Ids
  <2>1. \A i \in 1 .. Len(kept) : kept[i] \in Ids
    OBVIOUS
  <2>. QED
    BY <2>1 DEF Known
<1>5. \A t : Known(kept, t) => t \in Ids /\ t < nextId /\ t # nextId
    BY <1>1, <1>3, <1>4 DEF ListInv
<1>6. \A t : t \in Transfers => t \in Ids /\ t < nextId /\ t # nextId
  <2>1. \A t \in Transfers : t \in Ids /\ info[t].type # "None"
    BY DEF Transfers
  <2>2. \A t \in Ids : t >= nextId => info[t].type = "None"
    BY DEF TransferInv, TaskInv
  <2>3. \A t \in Ids : ~(t >= nextId) => t < nextId /\ t # nextId
    BY <1>1, <1>3
  <2>. QED
    BY <2>1, <2>2, <2>3
<1>7. \A t : t \in Transfers' <=> t \in Transfers \/ (t = nextId /\ ty # "Connect")
  <2>1. ASSUME NEW t \in Ids, t # nextId PROVE t \in Transfers' <=> t \in Transfers
    BY <1>2, <2>1 DEF Transfers
  <2>2. nextId \in Transfers' <=> ty # "Connect"
    BY <1>2 DEF Transfers, Task
  <2>3. \A t \in Transfers' : t \in Ids
    BY DEF Transfers
  <2>. QED
    BY <1>6, <2>1, <2>2, <2>3
<1>8. \A t : Known(tasks', t) => Known(kept, t) \/ t = nextId
    BY KnownAdd, PriosType
<1>9. ASSUME NEW t \in Transfers, Oldest(t) PROVE Oldest(t)'
  <2>. SUFFICES ASSUME NEW u \in Transfers', Known(tasks', u), info'[u].file = info'[t].file
                PROVE  t <= u
    BY DEF Oldest
  <2>1. t \in Ids /\ t < nextId /\ info'[t] = info[t]
    BY <1>2, <1>6
  <2>2. CASE u = nextId
    BY <1>1, <1>3, <2>1, <2>2
  <2>3. CASE u # nextId
    <3>1. u \in Transfers /\ Known(tasks, u) /\ u \in Ids
      BY <1>6, <1>7, <1>8, <2>3
    <3>2. info'[u] = info[u]
      BY <1>2, <2>3, <3>1
    <3>. QED
      BY <1>9, <2>1, <3>1, <3>2 DEF Oldest
  <2>. QED
    BY <2>2, <2>3
<1>10. \A t \in Transfers' : info'[t].total <= size'[info'[t].file]
  <2>. SUFFICES ASSUME NEW t \in Transfers' PROVE info'[t].total <= size[info'[t].file]
    OBVIOUS
  <2>1. CASE t = nextId
    <3>1. info'[t].total = size[f] /\ info'[t].file = f /\ f \in Files
      BY <1>2, <1>6, <1>7, <2>1 DEF Task
    <3>2. size[f] \in Nat
      BY <1>1, <3>1
    <3>. QED
      BY <3>1, <3>2
  <2>2. CASE t # nextId
    BY <1>2, <1>6, <1>7, <2>2 DEF FifoInv
  <2>. QED
    BY <2>1, <2>2
<1>11. ASSUME NEW t \in Transfers', NEW u \in Transfers',
              Precedes(tasks', t, u), info'[t].file = info'[u].file
       PROVE  t < u
  <2>0. /\ Prios(info') \in [Ids -> Int]
        /\ \A v \in Ids : Prios(info')[v] = Prio(info'[v])
    BY PriosType DEF Prios
  <2>1. CASE Precedes(kept, t, u)
    <3>1. Known(kept, t) /\ Known(kept, u)
      BY <2>1, PrecedesKnown
    <3>2. /\ t \in Ids /\ t # nextId /\ t \in Transfers
          /\ u \in Ids /\ u # nextId /\ u \in Transfers
      BY <1>5, <1>7, <3>1
    <3>3. info'[t] = info[t] /\ info'[u] = info[u]
      BY <1>2, <3>2
    <3>. QED
      BY <1>11, <2>1, <3>2, <3>3 DEF FifoInv
  <2>2. CASE Known(kept, t) /\ u = nextId
    BY <1>5, <2>2
  <2>3. CASE t = nextId /\ Known(kept, u) /\ Prios(info')[nextId] < Prios(info')[u]
    <3>1. u \in Ids /\ u # nextId /\ u \in Transfers /\ info'[u] = info[u]
      BY <1>2, <1>5, <1>7, <2>3
    <3>2. ty # "Connect" /\ f \in Files /\ info'[nextId].file = f
          /\ info'[nextId].total = size[f] /\ info'[nextId].type # "Connect"
      BY <1>2, <1>6, <1>7, <2>3 DEF Task
    <3>3. info[u].file = f /\ info[u].type # "Connect"
      BY <1>11, <2>3, <3>1, <3>2 DEF Transfers
    <3>4. info[u].total <= info'[nextId].total
      BY <3>1, <3>2, <3>3 DEF FifoInv
    <3>5. Prio(info[u]) <= Prio(info'[nextId]) /\ Prio(info[u]) \in Int
          /\ Prio(info'[nextId]) \in Int
      BY <1>1, <3>1, <3>2, <3>3, <3>4, PrioGrows
    <3>6. Prios(info')[nextId] = Prio(info'[nextId]) /\ Prios(info')[u] = Prio(info[u])
      BY <2>0, <3>1
    <3>. QED
      BY <2>3, <3>5, <3>6
  <2>. QED
    BY <1>11, <2>0, <2>1, <2>2, <2>3, PrecedesAdd
<1>12. \A t \in Pending' : Oldest(t)'
    BY <1>9, PendingTransfers DEF FifoInv
<1>13. \A t \in Transfers' : Known(tasks', t) /\ info'[t].offset >= 0 => Oldest(t)'
  <2>. SUFFICES ASSUME NEW t \in Transfers', Known(tasks', t), info'[t].offset >= 0
                PROVE  Oldest(t)'
    OBVIOUS
  <2>1. t # nextId
    BY <1>2 DEF Task
  <2>2. t \in Transfers /\ Known(tasks, t) /\ info'[t] = info[t]
    BY <1>2, <1>6, <1>7, <1>8, <2>1
  <2>. QED
    BY <1>9, <2>2 DEF FifoInv
<1>. QED
    BY <1>10, <1>11, <1>12, <1>13 DEF FifoInv
\* The answer at the head of the queue is about a pending transfer.
LEMMA HeadIsPending ==
    ASSUME TransferInv, acks # <<>>
    PROVE  Head(acks) \in Answers /\ Head(acks).id \in Pending /\ Head(acks).id \in Ids
<1>1. acks \in Seq(Answers)
    BY DEF TransferInv, TypeOK
<1>2. Known(acks, Head(acks))
    BY <1>1, KnownTail
<1>3. Head(acks).id \in Pending
    BY <1>2, PendingAll
<1>. QED
    BY <1>2, <1>3, MessageIds

\* What AckUp and AckDown do to the task objects.
LEMMA AckInfo ==
    ASSUME TransferInv, TypeOK', AckUp \/ AckDown
    PROVE  /\ Head(acks).id \in Pending /\ Head(acks).id \in Ids
           /\ \A t \in Ids : /\ info'[t].type = info[t].type
                             /\ info'[t].file = info[t].file
                             /\ info'[t].total = info[t].total
           /\ \A t \in Ids : t # Head(acks).id => info'[t] = info[t]
           /\ \/ tasks' = tasks /\ done' = done
              \/ tasks' = RemoveTask(tasks, Head(acks).id) /\ done' = done \cup {Head(acks).id}
<1>. DEFINE k == Head(acks).id
<1>1. acks # <<>> /\ TypeOK
    BY DEF AckUp, AckDown, TakeAck, TransferInv
<1>2. k \in Pending /\ k \in Ids /\ Head(acks) \in Answers
    BY <1>1, HeadIsPending
<1>3. /\ \/ tasks' = tasks /\ done' = done
         \/ tasks' = RemoveTask(tasks, k) /\ done' = done \cup {k}
    BY DEF AckUp, AckDown, Finish, GoOn
<1>4. info \in [Ids -> Tasks] /\ info' \in [Ids -> Tasks]
    BY DEF TransferInv, TypeOK
<1>. HIDE DEF k
<1>5. \A t \in Ids : t # k => info'[t] = info[t]
    BY <1>2, <1>4 DEF AckUp, AckDown, k
<1>6. /\ info'[k].type = info[k].type
      /\ info'[k].file = info[k].file
      /\ info'[k].total = info[k].total
  <2>1. info[k] \in Tasks
    BY <1>2, <1>4
  <2>2. CASE AckUp
    <3>1. info' = [info EXCEPT ![k].offset = Head(acks).pos,
                               ![k].result = CASE Head(acks).result \in {"Ok", "ReachEnd"} -> @
                                               [] Head(acks).result = "NoSpace" -> "NoSpace"
                                               [] OTHER -> "Failed"]
      BY <2>2 DEF AckUp, k
    <3>2. /\ info'[k].type = info[k].type
          /\ info'[k].file = info[k].file
          /\ info'[k].total = info[k].total
      BY <1>2, <1>4, <2>1, <3>1 DEF Tasks
    <3>. QED
      BY <3>2
  <2>3. CASE AckDown
    <3>1. PICK x : \/ info' = [info EXCEPT ![k].offset = x]
                   \/ info' = [info EXCEPT ![k].result = x]
      BY <2>3 DEF AckDown, k
    <3>2. \/ info'[k] = [info[k] EXCEPT !.offset = x]
          \/ info'[k] = [info[k] EXCEPT !.result = x]
      BY <1>2, <1>4, <3>1
    <3>. QED
      BY <2>1, <3>2 DEF Tasks
  <2>. QED
    BY <2>2, <2>3
<1>7. \A t \in Ids : /\ info'[t].type = info[t].type
                     /\ info'[t].file = info[t].file
                     /\ info'[t].total = info[t].total
    BY <1>5, <1>6
<1>. QED
    BY <1>2, <1>3, <1>5, <1>7 DEF k

\* Every step keeps the transfers of one file in order.
LEMMA FifoNext ==
    TransferInv /\ TypeOK' /\ GateInv /\ GateInv' /\ ListInv /\ FifoInv /\ [Next]_vars
       => FifoInv'
<1>. SUFFICES ASSUME TransferInv, TypeOK', GateInv, GateInv', ListInv, FifoInv, [Next]_vars
              PROVE  FifoInv'
    OBVIOUS
<1>0. /\ TypeOK /\ tasks \in Seq(Ids) /\ info \in [Ids -> Tasks] /\ nextId \in Nat \ {0}
      /\ size \in [Files -> Nat]
    BY DEF TransferInv, TypeOK
<1>1. nextId <= MaxTasks => nextId \in Ids
    BY <1>0, ConstAssumption DEF Ids
<1>2. ASSUME ReqUpload \/ ReqDownload
      PROVE  First \in Ids /\ First \in Transfers /\ Oldest(First)
  <2>1. First # NoTask
    BY <1>2 DEF ReqUpload, ReqDownload, Serving
  <2>2. First \in Ids /\ First \in Transfers
    BY <1>2, ServingProperties DEF ReqUpload, ReqDownload
  <2>. QED
    BY <1>0, <2>1, <2>2, FirstIsOldest
<1>3. \A t \in Pending' : t \in Ids /\ (t \in Pending \/ Oldest(t))
    BY <1>2, PendingMoves, PendingTransfers
<1>4. \A t \in Transfers : t \in Ids
    BY DEF Transfers
<1>5. CASE /\ UNCHANGED <<info, size>>
           /\ tasks' \in {tasks, <<>>} \/ \E W : tasks' = EraseFirst(tasks, W)
  <2>1. \A f \in Files : size[f] <= size'[f]
    BY <1>0, <1>5
  <2>. QED
    BY <1>3, <1>5, <2>1, FifoQuiet
<1>6. ASSUME NEW f \in Files, UiTransfer(f) PROVE FifoInv'
  <2>. DEFINE kept == CleanError(tasks, Ids \ OkTasks, OfType("Connect"))
              ty   == IF f \in UpFiles THEN "Upload" ELSE "Download"
              n    == size[f]
  <2>1. /\ kept \in Seq(Ids)
        /\ \A t : Known(kept, t) => Known(tasks, t)
        /\ \A t, u : Precedes(kept, t, u) => Precedes(tasks, t, u)
    BY <1>0, EraseFirstType, KnownErase, PrecedesErase DEF CleanError
  <2>2. /\ nextId <= MaxTasks
        /\ info' = [info EXCEPT ![nextId] = Task(ty, f, n)]
        /\ tasks' = Add(kept, Prios(info'), nextId)
        /\ UNCHANGED <<size, reqs, acks>>
    BY <1>6 DEF UiTransfer, netVars
  <2>3. Pending' \subseteq Pending
    BY <2>2 DEF Pending
  <2>4. ty \in {"Connect", "Upload", "Download"}
    OBVIOUS
  <2>5. ty # "Connect" => f \in Files /\ n = size[f]
    OBVIOUS
  <2>. HIDE DEF kept, ty, n
  <2>. QED
    BY <1>1, <2>1, <2>2, <2>3, <2>4, <2>5, FifoAdd
<1>7. ASSUME NEW kept \in Seq(Ids), NEW posts, ResetClient(kept, posts), size' = size,
             \A t : Known(kept, t) => Known(tasks, t),
             \A t, u : Precedes(kept, t, u) => Precedes(tasks, t, u)
      PROVE  FifoInv'
  <2>. DEFINE ty == "Connect"
              f  == NoFile
              n  == 0
  <2>1. /\ nextId <= MaxTasks
        /\ info' = [info EXCEPT ![nextId] = Task(ty, f, n)]
        /\ tasks' = Add(kept, Prios(info'), nextId)
        /\ reqs' = <<>> /\ acks' = <<>>
    BY <1>7 DEF ResetClient
  <2>2. Pending' \subseteq Pending
    BY <2>1, NothingPending
  <2>3. ty \in {"Connect", "Upload", "Download"} /\ (ty # "Connect" => f \in Files /\ n = size[f])
    OBVIOUS
  <2>. HIDE DEF ty, f, n
  <2>. QED
    BY <1>1, <1>7, <2>1, <2>2, <2>3, FifoAdd
<1>8. CASE UiReconnect
    BY <1>0, <1>7, <1>8 DEF UiReconnect
<1>9. CASE UiConnect
    BY <1>0, <1>7, <1>9 DEF UiConnect
<1>10. CASE HandshakeMismatch
  <2>1. \E k, y : info' = [info EXCEPT ![k].result = y]
    BY <1>10 DEF HandshakeMismatch
  <2>2. \A t \in Ids : /\ info'[t].type = info[t].type
                       /\ info'[t].file = info[t].file
                       /\ info'[t].total = info[t].total
                       /\ info'[t].offset = info[t].offset
    BY <1>0, <2>1 DEF Tasks
  <2>3. UNCHANGED <<size, tasks>>
    BY <1>10 DEF HandshakeMismatch
  <2>4. \A f \in Files : size[f] <= size'[f]
    BY <1>0, <2>3
  <2>. QED
    BY <1>3, <1>4, <2>2, <2>3, <2>4, FifoQuiet
<1>11. CASE ReqDownload \/ ReqDownloadNoSpace
  <2>0. First # NoTask /\ UNCHANGED <<size, tasks>>
    BY <1>11 DEF ReqDownload, ReqDownloadNoSpace, Serving
  <2>1. First \in Ids /\ First \in Transfers /\ Oldest(First) /\ info[First] \in Tasks
    <3>1. First \in Ids /\ First \in Transfers /\ info[First] \in Tasks
      BY <1>11, ServingProperties DEF ReqDownload, ReqDownloadNoSpace
    <3>. QED
      BY <1>0, <2>0, <3>1, FirstIsOldest
  <2>5. \E x : \/ info' = [info EXCEPT ![First].offset = x]
               \/ info' = [info EXCEPT ![First].result = x]
    BY <1>11 DEF ReqDownload, ReqDownloadNoSpace
  <2>6. \A t \in Ids : t # First => info'[t] = info[t]
    BY <1>0, <2>1, <2>5
  <2>7. /\ info'[First].type = info[First].type
        /\ info'[First].file = info[First].file
        /\ info'[First].total = info[First].total
    BY <1>0, <2>1, <2>5 DEF Tasks
  <2>2. \A t \in Ids : /\ info'[t].type = info[t].type
                       /\ info'[t].file = info[t].file
                       /\ info'[t].total = info[t].total
    BY <2>6, <2>7
  <2>3. \A t \in Transfers : info'[t].offset >= 0 => info[t].offset >= 0 \/ Oldest(t)
    BY <1>4, <2>1, <2>6
  <2>4. \A f \in Files : size[f] <= size'[f]
    BY <1>0, <2>0
  <2>. QED
    BY <1>3, <2>0, <2>2, <2>3, <2>4, FifoQuiet
<1>12. CASE AckUp \/ AckDown
  <2>. DEFINE k == Head(acks).id
  <2>1. /\ k \in Pending
        /\ \A t \in Ids : /\ info'[t].type = info[t].type
                          /\ info'[t].file = info[t].file
                          /\ info'[t].total = info[t].total
        /\ \A t \in Ids : t # k => info'[t] = info[t]
        /\ tasks' = tasks \/ tasks' = EraseFirst(tasks, {k})
    BY <1>12, AckInfo DEF RemoveTask
  <2>. HIDE DEF k
  <2>2. \A t \in Transfers : info'[t].offset >= 0 => info[t].offset >= 0 \/ Oldest(t)
    BY <1>4, <2>1 DEF FifoInv
  <2>3. size' = size
    BY <1>12 DEF AckUp, AckDown, TakeAck
  <2>4. \A f \in Files : size[f] <= size'[f]
    BY <1>0, <2>3
  <2>. QED
    BY <1>3, <2>1, <2>2, <2>4, FifoQuiet
<1>13. CASE \E f \in Files : GrowSource(f)
  <2>1. PICK g \in Files : GrowSource(g)
    BY <1>13
  <2>2. size' = [size EXCEPT ![g] = @ + 1] /\ UNCHANGED <<tasks, info>>
    BY <2>1 DEF GrowSource, taskVars
  <2>3. \A f \in Files : size[f] <= size'[f]
    BY <1>0, <2>2
  <2>. QED
    BY <1>3, <2>2, <2>3, FifoQuiet
<1>14. CASE HandshakeOk
    BY <1>5, <1>14 DEF HandshakeOk, RemoveTask
<1>15. CASE Disconnect \/ UserStart \/ Timer \/ UserLoopIdle \/ UserLoopConnect \/ ReqUpload
            \/ FmsUp \/ FmsDown \/ FmsLate \/ AckGone \/ UiCleanAll \/ UNCHANGED vars
    BY <1>5, <1>15 DEF AckGone, TakeAck, UiCleanAll, Disconnect, UserStart, Timer, UserLoopIdle, UserLoopConnect,
                       ReqUpload, Serving, FmsUp, FmsDown, FmsLate, vars, taskVars
<1>. QED
    BY <1>6, <1>8, <1>9, <1>10, <1>11, <1>12, <1>13, <1>14, <1>15
       DEF Next, Ui, Conn, Client, Server

\* The initial list holds one Connect task.
LEMMA FifoInit == Init => FifoInv
<1>. SUFFICES ASSUME Init PROVE FifoInv
    OBVIOUS
<1>1. Pending = {}
    BY NothingPending DEF Init
<1>2. Transfers = {}
    BY DEF Init, InitTask, Transfers, Task
<1>. QED
    BY <1>1, <1>2 DEF FifoInv

\* The invariants that every step keeps, whatever fails.
EngineInv == TransferInv /\ GateInv /\ ListInv /\ PendingInv /\ FifoInv

\* They hold initially.
LEMMA EngineInit == Init => EngineInv
<1>1. Init => PendingInv
    BY NothingPending DEF Init, PendingInv
<1>. QED
    BY <1>1, InitInv, GateInit, ListInit, FifoInit DEF EngineInv

\* Every step keeps them.
LEMMA EngineNext == EngineInv /\ [Next]_vars => EngineInv'
<1>. SUFFICES ASSUME EngineInv, [Next]_vars PROVE EngineInv'
    OBVIOUS
<1>1. TypeOK /\ TransferInv' /\ TypeOK'
    BY NextInv DEF EngineInv, TransferInv
<1>2. GateInv' /\ ListInv'
    BY <1>1, GateNext, ListNext DEF EngineInv
<1>3. PendingInv' /\ FifoInv'
    BY <1>1, <1>2, PendingNext, FifoNext DEF EngineInv
<1>. QED
    BY <1>1, <1>2, <1>3 DEF EngineInv

-----------------------------------------------------------------------------
(* A completed transfer is whole                                           *)

\* DoneInv in terms of the messages that are in a queue.
LEMMA DoneInvAll ==
    /\ DoneInv <=> /\ late = {} /\ DoneOlder /\ DoneWhole
                   /\ \A r : Known(reqs, r) => RequestLast(r)
                   /\ \A a : Known(acks, a) => AnswerLast(a)
    /\ DoneInv' <=> /\ late' = {} /\ DoneOlder' /\ DoneWhole'
                    /\ \A r : Known(reqs', r) => RequestLast(r)'
                    /\ \A a : Known(acks', a) => AnswerLast(a)'
<1>1. DoneInv <=> /\ late = {} /\ DoneOlder /\ DoneWhole
                  /\ \A r : Known(reqs, r) => RequestLast(r)
                  /\ \A a : Known(acks, a) => AnswerLast(a)
    BY DEF DoneInv, Known
<1>2. DoneInv' <=> /\ late' = {} /\ DoneOlder' /\ DoneWhole'
                   /\ \A r : Known(reqs', r) => RequestLast(r)'
                   /\ \A a : Known(acks', a) => AnswerLast(a)'
    BY DEF DoneInv, Known
<1>. QED
    BY <1>1, <1>2

\* A prefix of a source is one of the source that has grown.
LEMMA PrefixGrows ==
    ASSUME NEW file \in Seq(Nat), NEW m \in Nat, NEW n \in Nat, m <= n, IsSourceUpTo(file, m)
    PROVE  IsSourceUpTo(file, n)
<1>1. Len(file) \in Nat
    OBVIOUS
<1>. QED
    BY <1>1 DEF IsSourceUpTo

\* A whole destination that nobody touches stays whole.
LEMMA WholeStable ==
    ASSUME TransferInv, TypeOK', NEW t \in Transfers, Whole(t),
           info'[t].file = info[t].file, info'[t].total = info[t].total,
           dst'[info[t].file] = dst[info[t].file], has'[info[t].file] = has[info[t].file],
           size[info[t].file] <= size'[info[t].file]
    PROVE  Whole(t)'
<1>. DEFINE f == info[t].file
<1>1. t \in Ids /\ f \in Files
    BY DEF TransferInv, TaskInv, Transfers
<1>2. dst[f] \in Seq(Nat) /\ size[f] \in Nat /\ size'[f] \in Nat
    BY <1>1 DEF TransferInv, TypeOK
<1>3. IsSourceUpTo(dst[f], size'[f])
    BY <1>2, PrefixGrows DEF Whole
<1>. QED
    BY <1>3 DEF Whole

\* A step that completes no transfer, adds no task and writes only to the
\* destinations of transfers that are listed or on the wire.
LEMMA DoneStep ==
    ASSUME TransferInv, TypeOK', DoneInv, late' = {}, done' = done,
           \A t \in Ids : /\ info'[t].type = info[t].type
                          /\ info'[t].file = info[t].file
                          /\ info'[t].total = info[t].total,
           \A f \in Files : size[f] <= size'[f],
           \A t : Known(tasks', t) => Known(tasks, t),
           \A t \in Pending' : t \in Pending \/ Known(tasks, t),
           \A f \in Files :
              \/ dst'[f] = dst[f] /\ has'[f] = has[f]
              \/ \E u \in Transfers :
                    (Known(tasks, u) \/ u \in Pending) /\ info[u].file = f,
           \A r : Known(reqs', r) => Known(reqs, r) \/ RequestLast(r)',
           \A a : Known(acks', a) => \/ Known(acks, a) /\ UNCHANGED <<dst, has>>
                                     \/ AnswerLast(a)'
    PROVE  DoneInv'
<1>1. Transfers' = Transfers
    BY DEF Transfers
<1>2. \A t \in Transfers : t \in Ids /\ t \in Int /\ info[t].file \in Files
    BY DEF TransferInv, TaskInv, Transfers, Ids
<1>3. DoneOlder'
    BY <1>1, <1>2, DoneInvAll DEF DoneOlder
<1>4. DoneWhole'
  <2>. SUFFICES ASSUME NEW t \in done,
                       \A u \in Transfers : info[u].file = info[t].file => u <= t
                PROVE  Whole(t)'
    <3>1. \A t \in done : t \in Ids
      BY <1>2, DoneInvAll DEF DoneOlder
    <3>. QED
      BY <1>1, <1>2, <3>1 DEF DoneWhole
  <2>1. t \in Transfers /\ Whole(t)
    BY DoneInvAll DEF DoneOlder, DoneWhole
  <2>2. info[t].file \in Files /\ t \in Ids /\ t \in Int
    BY <1>2, <2>1
  <2>3. ~\E u \in Transfers :
            (Known(tasks, u) \/ u \in Pending) /\ info[u].file = info[t].file
    <3>. SUFFICES ASSUME NEW u \in Transfers, Known(tasks, u) \/ u \in Pending,
                         info[u].file = info[t].file
                  PROVE  FALSE
      OBVIOUS
    <3>1. u <= t /\ t < u
      BY DoneInvAll DEF DoneOlder
    <3>. QED
      BY <1>2, <2>2, <3>1
  <2>. QED
    BY <2>1, <2>2, <2>3, WholeStable
<1>5. ASSUME NEW r, Known(reqs', r) PROVE RequestLast(r)'
  <2>1. CASE Known(reqs, r)
    <3>1. r.id \in Ids /\ RequestLast(r)
      BY <2>1, MessageIds, DoneInvAll
    <3>. QED
      BY <3>1 DEF RequestLast
  <2>. QED
    BY <1>5, <2>1
<1>6. ASSUME NEW a, Known(acks', a) PROVE AnswerLast(a)'
  <2>1. CASE Known(acks, a) /\ UNCHANGED <<dst, has>>
    <3>1. a.id \in Pending
      BY <2>1, PendingAll
    <3>2. a.id \in Ids /\ a.id \in Transfers /\ AnswerLast(a)
      BY <2>1, <3>1, PendingTransfers, DoneInvAll
    <3>3. Whole(a.id) => Whole(a.id)'
      BY <1>2, <2>1, <3>2, WholeStable
    <3>. QED
      BY <3>2, <3>3 DEF AnswerLast
  <2>. QED
    BY <1>6, <2>1
<1>. QED
    BY <1>3, <1>4, <1>5, <1>6, DoneInvAll

\* A step that adds a task with a new id.
LEMMA DoneAdd ==
    ASSUME TransferInv, TypeOK', DoneInv, late' = {}, done' = done, nextId \in Ids,
           NEW x, info' = [info EXCEPT ![nextId] = x],
           UNCHANGED <<size, dst, has>>,
           \A t : Known(tasks', t) => Known(tasks, t) \/ t = nextId,
           \A r : Known(reqs', r) => Known(reqs, r),
           \A a : Known(acks', a) => Known(acks, a)
    PROVE  DoneInv'
<1>0. info \in [Ids -> Tasks] /\ nextId \in Nat /\ size \in [Files -> Nat]
    BY DEF TransferInv, TypeOK
<1>1. \A t \in Transfers : t \in Ids /\ t \in Int /\ info[t].file \in Files
    BY DEF TransferInv, TaskInv, Transfers, Ids
<1>2. \A t \in Transfers : t < nextId /\ t # nextId
  <2>1. \A t \in Transfers : info[t].type # "None"
    BY DEF Transfers
  <2>2. \A t \in Transfers : ~(t >= nextId)
    BY <1>1, <2>1 DEF TransferInv, TaskInv
  <2>. QED
    BY <1>0, <1>1, <2>2
<1>3. \A t \in Transfers : t \in Transfers' /\ info'[t] = info[t]
    BY <1>0, <1>1, <1>2 DEF Transfers
<1>4. \A t \in Transfers' : t = nextId \/ (t \in Transfers /\ info'[t] = info[t])
    BY <1>0 DEF Transfers
<1>5. DoneOlder'
  <2>1. done' \subseteq Transfers'
    BY <1>3, DoneInvAll DEF DoneOlder
  <2>3. \A u \in Pending' : u \in Pending
    BY PendingAll
  <2>2. ASSUME NEW t \in done, NEW u \in Transfers', Known(tasks', u) \/ u \in Pending',
               info'[u].file = info'[t].file
        PROVE  t < u
    <3>1. t \in Transfers /\ t < nextId /\ info'[t] = info[t]
      BY <1>2, <1>3, DoneInvAll DEF DoneOlder
    <3>2. CASE u = nextId
      BY <3>1, <3>2
    <3>3. CASE u # nextId
      BY <1>4, <2>2, <2>3, <3>1, <3>3, DoneInvAll DEF DoneOlder
    <3>. QED
      BY <3>2, <3>3
  <2>. QED
    BY <2>1, <2>2 DEF DoneOlder
<1>6. ASSUME NEW t \in Transfers, Whole(t) PROVE Whole(t)'
  <2>1. size[info[t].file] <= size'[info[t].file]
    BY <1>0, <1>1
  <2>. QED
    BY <1>3, <1>6, <2>1, WholeStable
<1>7. DoneWhole'
  <2>. SUFFICES ASSUME NEW t \in done,
                       \A u \in Transfers' : info'[u].file = info'[t].file => u <= t
                PROVE  Whole(t)'
    BY DEF DoneWhole
  <2>1. t \in Transfers /\ info'[t] = info[t]
    BY <1>3, DoneInvAll DEF DoneOlder
  <2>2. \A u \in Transfers : info[u].file = info[t].file => u <= t
    BY <1>3, <2>1
  <2>3. Whole(t)
    BY <2>2, DoneInvAll DEF DoneWhole
  <2>. QED
    BY <1>6, <2>1, <2>3
<1>8. ASSUME NEW r, Known(reqs', r) PROVE RequestLast(r)'
  <2>1. Known(reqs, r) /\ RequestLast(r)
    BY <1>8, DoneInvAll
  <2>2. r.id \in Transfers
    BY <2>1, PendingAll, PendingTransfers
  <2>. QED
    BY <1>3, <2>1, <2>2 DEF RequestLast
<1>9. ASSUME NEW a, Known(acks', a) PROVE AnswerLast(a)'
  <2>1. Known(acks, a) /\ AnswerLast(a)
    BY <1>9, DoneInvAll
  <2>2. a.id \in Transfers
    BY <2>1, PendingAll, PendingTransfers
  <2>. QED
    BY <1>3, <1>6, <2>1, <2>2 DEF AnswerLast
<1>. QED
    BY <1>5, <1>7, <1>8, <1>9, DoneInvAll

\* The answer that completes transfer k.
LEMMA DoneFinish ==
    ASSUME TransferInv, TypeOK', FifoInv, DoneInv, late' = {},
           NEW k \in Ids, k \in Transfers, Known(tasks, k), Oldest(k),
           done' = done \cup {k}, tasks' = RemoveTask(tasks, k),
           \A t \in Ids : /\ info'[t].type = info[t].type
                          /\ info'[t].file = info[t].file
                          /\ info'[t].total = info[t].total,
           size' = size,
           \A f \in Files : f # info[k].file => dst'[f] = dst[f] /\ has'[f] = has[f],
           Whole(k)', reqs' = <<>>, acks' = <<>>
    PROVE  DoneInv'
<1>0. tasks \in Seq(Ids) /\ size \in [Files -> Nat]
    BY DEF TransferInv, TypeOK
<1>1. Transfers' = Transfers
    BY DEF Transfers
<1>2. \A t \in Transfers : t \in Ids /\ t \in Int /\ info[t].file \in Files
    BY DEF TransferInv, TaskInv, Transfers, Ids
<1>3. \A t : Known(tasks', t) => Known(tasks, t)
    BY <1>0, KnownErase DEF RemoveTask
<1>4. ~Known(tasks', k)
  <2>. SUFFICES ASSUME Known(tasks', k) PROVE FALSE
    OBVIOUS
  <2>1. Precedes(tasks, k, k)
    BY <1>0, StillListed
  <2>2. k < k
    BY <2>1 DEF FifoInv
  <2>. QED
    BY <1>2, <2>2
<1>5. DoneOlder'
  <2>1. done' \subseteq Transfers'
    BY <1>1, DoneInvAll DEF DoneOlder
  <2>4. Pending' = {}
    BY NothingPending
  <2>2. ASSUME NEW t \in done', NEW u \in Transfers, Known(tasks', u),
               info[u].file = info[t].file
        PROVE  t < u
    <3>1. CASE t \in done
      BY <1>3, <2>2, <3>1, DoneInvAll DEF DoneOlder
    <3>2. CASE t = k
      <4>1. k <= u /\ u # k
        BY <1>3, <1>4, <2>2, <3>2 DEF Oldest
      <4>. QED
        BY <1>2, <3>2, <4>1
    <3>. QED
      BY <3>1, <3>2
  <2>3. \A t \in Transfers : info'[t].file = info[t].file
    BY <1>2
  <2>. QED
    BY <1>1, <2>1, <2>2, <2>3, <2>4 DEF DoneOlder
<1>6. DoneWhole'
  <2>. SUFFICES ASSUME NEW t \in done', t # k,
                       \A u \in Transfers : info[u].file = info[t].file => u <= t
                PROVE  Whole(t)'
    <3>1. \A t \in done' : t \in Transfers
      BY <1>1, <1>5 DEF DoneOlder
    <3>. QED
      BY <1>1, <1>2, <3>1 DEF DoneWhole
  <2>1. t \in done /\ t \in Transfers /\ Whole(t)
    BY DoneInvAll DEF DoneOlder, DoneWhole
  <2>2. info[t].file # info[k].file
    <3>. SUFFICES ASSUME info[t].file = info[k].file PROVE FALSE
      OBVIOUS
    <3>1. k <= t /\ t < k
      BY <2>1, DoneInvAll DEF DoneOlder
    <3>. QED
      BY <1>2, <2>1, <3>1
  <2>3. size[info[t].file] <= size'[info[t].file]
    BY <1>0, <1>2, <2>1
  <2>. QED
    BY <1>2, <2>1, <2>2, <2>3, WholeStable
<1>7. \A x : ~Known(<<>>, x)
    BY DEF Known
<1>. QED
    BY <1>5, <1>6, <1>7, DoneInvAll

\* A segment marked "ReachEnd" ends where the source ends.
LEMMA ReadReachesEnd ==
    ASSUME TypeOK, NEW f \in Files, NEW pos \in Nat, NEW seg \in ReadOutcomes(f, pos),
           seg.result = "ReachEnd"
    PROVE  seg.pos + Len(seg.buf) = size[f]
<1>1. size[f] \in Nat /\ SegLen \in Nat
    BY ConstAssumption DEF TypeOK
<1>2. seg = fmReadFile(size[f], pos, SegLen)
    BY DEF ReadOutcomes, fmReadFileNoOpen
<1>3. /\ pos <= size[f]
      /\ seg = [result |-> "ReachEnd", pos |-> pos, buf |-> Slice(pos, size[f] - pos)]
    BY <1>1, <1>2 DEF fmReadFile
<1>4. size[f] - pos \in Nat
    BY <1>1, <1>3
<1>5. Len(Slice(pos, size[f] - pos)) = size[f] - pos
    BY <1>4 DEF Slice
<1>. QED
    BY <1>1, <1>3, <1>5

\* A segment that fmWriteFile accepts, and fwrite stores, ends the file.
LEMMA WriteReaches ==
    ASSUME TypeOK, "short" \notin Faults, NEW f \in Files, NEW seg \in Segs,
           NEW w \in WriteOutcomes(f, seg), w.ret >= 0
    PROVE  w.has /\ Len(w.file) = seg.pos + Len(seg.buf)
<1>. DEFINE file == dst[f]
            b    == SubSeq(seg.buf, 1, Len(seg.buf))
<1>1. file \in Seq(Nat) /\ seg.buf \in Seq(Nat) /\ seg.pos \in Nat
    BY DEF TypeOK, Segs
<1>2. w = [ret  |-> fmWriteFile(file, seg, Len(seg.buf)).ret,
           file |-> fmWriteFile(file, seg, Len(seg.buf)).file, has |-> TRUE]
    BY DEF WriteOutcomes, Wrote
<1>3. b = seg.buf
    BY <1>1
<1>. HIDE DEF b
<1>4. Len(file \o b) = Len(file) + Len(seg.buf)
    BY <1>1, <1>3
<1>5. w.has /\ w.ret = fmWriteFile(file, seg, Len(seg.buf)).ret
      /\ w.file = fmWriteFile(file, seg, Len(seg.buf)).file
    BY <1>2
<1>. HIDE DEF file
<1>6. CASE seg.pos = Len(file)
  <2>1. w.file = file \o b
    BY <1>5, <1>6 DEF fmWriteFile, b
  <2>. QED
    BY <1>4, <1>5, <1>6, <2>1
<1>7. CASE seg.pos # Len(file)
  <2>1. seg.pos + Len(seg.buf) = Len(file) /\ w.file = file
    BY <1>5, <1>7 DEF fmWriteFile
  <2>. QED
    BY <1>5, <2>1
<1>. QED
    BY <1>6, <1>7
\* Without "late" no request of a dead connection is kept.
LEMMA NothingLate ==
    ASSUME "late" \notin Faults, late = {}, [Next]_vars
    PROVE  late' = {}
<1>1. CASE UiReconnect \/ UiConnect \/ Disconnect
    BY <1>1 DEF UiReconnect, UiConnect, ResetClient, Disconnect, Abandon
<1>2. CASE FmsLate
    BY <1>2 DEF FmsLate
<1>3. CASE (\E f \in Files : UiTransfer(f)) \/ UiCleanAll \/ HandshakeOk
           \/ HandshakeMismatch \/ UserStart \/ Timer \/ UserLoopIdle
    BY <1>3 DEF UiTransfer, UiCleanAll, HandshakeOk, HandshakeMismatch, UserStart, Timer,
           UserLoopIdle, netVars
<1>4. CASE UserLoopConnect \/ ReqUpload \/ ReqDownload \/ ReqDownloadNoSpace
  <2>1. \E ty \in {"Connect", "Upload", "Download"} : Serving(ty)
    BY <1>4 DEF UserLoopConnect, ReqUpload, ReqDownload, ReqDownloadNoSpace
  <2>. QED
    BY <2>1 DEF Serving
<1>5. CASE AckUp \/ AckDown \/ AckGone
  <2>1. \E cmd \in {"Up", "Down"} : TakeAck(cmd)
    BY <1>5 DEF AckUp, AckDown, AckGone
  <2>. QED
    BY <2>1 DEF TakeAck
<1>6. CASE FmsUp \/ FmsDown \/ (\E f \in Files : GrowSource(f)) \/ UNCHANGED vars
    BY <1>6 DEF FmsUp, FmsDown, GrowSource, vars, netVars
<1>. QED
    BY <1>1, <1>2, <1>3, <1>4, <1>5, <1>6 DEF Next, Ui, Conn, Client, Server

\* FmcUpFile::req and FmcDownFile::req.
LEMMA DoneReq ==
    ASSUME TransferInv, TypeOK', GateInv, FifoInv, DoneInv, late' = {},
           ReqUpload \/ ReqDownload \/ ReqDownloadNoSpace
    PROVE  DoneInv'
<1>. DEFINE t == First
            f == info[First].file
<1>0. /\ TypeOK /\ info \in [Ids -> Tasks] /\ size \in [Files -> Nat]
      /\ dst \in [Files -> Seq(Nat)] /\ has \in [Files -> BOOLEAN]
      /\ reqs \in Seq(Requests) /\ reqs' \in Seq(Requests)
    BY DEF TransferInv, TypeOK
<1>1. /\ t \in Ids /\ t \in Transfers /\ info[t] \in Tasks /\ f \in Files
      /\ UNCHANGED <<size, tasks, acks, done>>
    BY ServingProperties DEF ReqUpload, ReqDownload, ReqDownloadNoSpace
<1>2. t # NoTask
    BY DEF ReqUpload, ReqDownload, ReqDownloadNoSpace, Serving
<1>3. Known(tasks, t)
    BY <1>0, <1>2, FirstIsFront
<1>4. \/ info' = info
      \/ \E x : info' = [info EXCEPT ![t].offset = x]
      \/ \E x : info' = [info EXCEPT ![t].result = x]
    BY DEF ReqUpload, ReqDownload, ReqDownloadNoSpace
<1>5. \A g \in Files : g # f => dst'[g] = dst[g] /\ has'[g] = has[g]
    BY <1>0, <1>1 DEF ReqUpload, ReqDownload, ReqDownloadNoSpace, Unlink, fileVars
<1>6. \A r : Known(reqs', r) => Known(reqs, r) \/ (RequestLast(r)' /\ r.id = t)
  <2>1. CASE ReqUpload
    <3>1. PICK seg \in IF info[t].offset < 0 THEN {NoSeg} ELSE ReadOutcomes(f, info[t].offset) :
             reqs' = Append(reqs, [cmd |-> "Up", id |-> t, file |-> f,
                                   pos |-> info[t].offset, seg |-> seg])
      BY <2>1 DEF ReqUpload
    <3>0. PICK m : m = [cmd |-> "Up", id |-> t, file |-> f, pos |-> info[t].offset,
                        seg |-> seg]
      OBVIOUS
    <3>2. info' = info
      BY <2>1 DEF ReqUpload
    <3>3. info[t].offset \in Int /\ info[t].total \in Nat
      BY <1>1 DEF Tasks
    <3>4. seg.result = "ReachEnd" =>
             info[t].offset >= 0 /\ info[t].total <= seg.pos + Len(seg.buf)
      <4>. SUFFICES ASSUME seg.result = "ReachEnd"
                    PROVE  info[t].offset >= 0 /\ info[t].total <= seg.pos + Len(seg.buf)
        OBVIOUS
      <4>1. info[t].offset >= 0 /\ seg \in ReadOutcomes(f, info[t].offset)
        BY <3>1, <3>3 DEF NoSeg
      <4>2. seg.pos + Len(seg.buf) = size[f]
        BY <1>0, <1>1, <3>3, <4>1, ReadReachesEnd
      <4>3. info[t].total <= size[f]
        BY <1>1 DEF FifoInv
      <4>. QED
        BY <4>1, <4>2, <4>3
    <3>5. RequestLast(m)'
      <4>1. m.cmd = "Up" /\ m.id = t /\ m.pos = info[t].offset /\ m.seg = seg
        BY <3>0
      <4>. HIDE DEF t, f
      <4>. QED
        BY <3>2, <3>4, <4>1 DEF RequestLast
    <3>6. m \in Requests
      <4>1. Len(reqs') = Len(reqs) + 1 /\ reqs'[Len(reqs) + 1] = m /\ Len(reqs) \in Nat
        BY <1>0, <3>0, <3>1
      <4>. QED
        BY <1>0, <4>1, ElementOfSeq
    <3>7. \A r : Known(reqs', r) => Known(reqs, r) \/ r = m
      BY <1>0, <3>0, <3>1, <3>6, KnownAppend
    <3>. QED
      BY <3>0, <3>5, <3>7
  <2>2. CASE ReqDownload
    <3>1. PICK pos : reqs' = Append(reqs, [cmd |-> "Down", id |-> t, file |-> f,
                                           pos |-> pos, seg |-> NoSeg])
      BY <2>2 DEF ReqDownload
    <3>0. PICK m : m = [cmd |-> "Down", id |-> t, file |-> f, pos |-> pos, seg |-> NoSeg]
      OBVIOUS
    <3>5. RequestLast(m)'
      BY <3>0 DEF RequestLast
    <3>6. m \in Requests
      <4>1. Len(reqs') = Len(reqs) + 1 /\ reqs'[Len(reqs) + 1] = m /\ Len(reqs) \in Nat
        BY <1>0, <3>0, <3>1
      <4>. QED
        BY <1>0, <4>1, ElementOfSeq
    <3>7. \A r : Known(reqs', r) => Known(reqs, r) \/ r = m
      BY <1>0, <3>0, <3>1, <3>6, KnownAppend
    <3>. QED
      BY <3>0, <3>5, <3>7
  <2>3. CASE ReqDownloadNoSpace
    BY <2>3 DEF ReqDownloadNoSpace
  <2>. QED
    BY <2>1, <2>2, <2>3
<1>7. \A a : ~Known(acks', a)
  <2>1. canSend
    BY DEF ReqUpload, ReqDownload, ReqDownloadNoSpace, Serving
  <2>2. acks' = <<>>
    BY <1>1, <2>1 DEF GateInv, OneOutstanding
  <2>. QED
    BY <2>2 DEF Known
<1>. HIDE DEF t, f
<1>8. \A u \in Ids : /\ info'[u].type = info[u].type
                     /\ info'[u].file = info[u].file
                     /\ info'[u].total = info[u].total
  <2>1. \A u \in Ids : u # t => info'[u] = info[u]
    BY <1>0, <1>1, <1>4
  <2>2. /\ info'[t].type = info[t].type
        /\ info'[t].file = info[t].file
        /\ info'[t].total = info[t].total
    BY <1>0, <1>1, <1>4 DEF Tasks
  <2>. QED
    BY <2>1, <2>2
<1>9. \A g \in Files : \/ dst'[g] = dst[g] /\ has'[g] = has[g]
                       \/ \E u \in Transfers : Known(tasks, u) /\ info[u].file = g
  <2>1. info[t].file = f
    BY DEF t, f
  <2>. QED
    BY <1>1, <1>3, <1>5, <2>1
<1>10. (\A g \in Files : size[g] <= size'[g]) /\ \A u : Known(tasks', u) => Known(tasks, u)
    BY <1>0, <1>1
<1>11. done' = done
    BY <1>1
<1>12. \A u \in Pending' : u \in Pending \/ Known(tasks, u)
    BY <1>3, <1>6, <1>7, PendingAll
<1>. QED
    BY <1>6, <1>7, <1>8, <1>9, <1>10, <1>11, <1>12, DoneStep

\* FmsUpFile::echo reports the end only when the file is complete.
LEMMA UpReaches ==
    ASSUME TypeOK, "short" \notin Faults, NEW r \in Requests, r.cmd = "Up",
           RequestInv(r), RequestLast(r), NEW out \in UpResults(r), out.result = "ReachEnd"
    PROVE  /\ out.has /\ info[r.id].total <= Len(out.file)
           /\ IsSourceUpTo(out.file, size[r.file])
<1>1. r.file \in Files /\ r.pos \in Int /\ r.seg \in Segs
    BY DEF Requests
<1>2. ~(r.pos < 0)
    BY DEF UpResults
<1>3. r.seg.result \in {"Ok", "ReachEnd"}
    BY <1>2 DEF UpResults
<1>4. PICK w \in WriteOutcomes(r.file, r.seg) :
         out = [pos    |-> IF w.ret < 0 THEN r.pos ELSE r.pos + w.ret,
                result |-> IF w.ret < 0 THEN "Failed" ELSE r.seg.result,
                file   |-> w.file, has |-> w.has]
    BY <1>2, <1>3 DEF UpResults
<1>5. w.ret \in Int
  <2>1. Touched(r.file) /\ IsSlice(r.seg, size[r.file])
    BY <1>1, <1>2, <1>3 DEF RequestInv
  <2>. QED
    BY <1>1, <2>1, WriteOutcomesProperties
<1>6. /\ w.ret >= 0 /\ r.seg.result = "ReachEnd" /\ out.pos = r.pos + w.ret
      /\ out.file = w.file /\ out.has = w.has
    BY <1>4, <1>5
<1>7. w.has /\ Len(w.file) = r.seg.pos + Len(r.seg.buf)
    BY <1>1, <1>6, WriteReaches
<1>8. out.pos >= 0
    BY <1>1, <1>2, <1>5, <1>6
<1>9. IsSourceUpTo(out.file, size[r.file])
    BY <1>8, UpResultsProperties
<1>10. info[r.id].total <= Len(out.file)
    BY <1>6, <1>7 DEF RequestLast
<1>. QED
    BY <1>6, <1>7, <1>9, <1>10

\* The request at the head of the queue, and the only message there is.
LEMMA HeadRequestPending ==
    ASSUME TransferInv, GateInv, PendingInv, reqs # <<>>
    PROVE  /\ Head(reqs) \in Requests /\ RequestInv(Head(reqs)) /\ Known(reqs, Head(reqs))
           /\ Head(reqs).id \in Ids /\ Head(reqs).id \in Transfers
           /\ Head(reqs).id \in Pending
           /\ replacing \/ Known(tasks, Head(reqs).id)
           /\ acks = <<>> /\ Tail(reqs) = <<>>
<1>1. reqs \in Seq(Requests) /\ acks \in Seq(Answers) /\ TypeOK
    BY DEF TransferInv, TypeOK
<1>2. Known(reqs, Head(reqs))
    BY <1>1, KnownTail
<1>3. Head(reqs) \in Requests
    BY <1>2, MessageIds
<1>4. RequestInv(Head(reqs))
    BY <1>2 DEF TransferInv, MessageInv, Known
<1>5. Head(reqs).id \in Pending
    BY <1>2, PendingAll
<1>6. /\ Head(reqs).id \in Ids /\ Head(reqs).id \in Transfers
      /\ replacing \/ Known(tasks, Head(reqs).id)
    BY <1>5, PendingTransfers DEF PendingInv
<1>7. Len(reqs) \in Nat /\ Len(acks) \in Nat /\ Len(reqs) # 0 /\ Len(reqs) + Len(acks) <= 1
    BY <1>1, QueueLengths DEF GateInv, OneOutstanding
<1>8. Len(reqs) = 1 /\ Len(acks) = 0
  <2>1. \A m, n \in Nat : m # 0 /\ m + n <= 1 => m = 1 /\ n = 0
    OBVIOUS
  <2>. QED
    BY ONLY <1>7, <2>1
<1>9. acks = <<>>
    BY <1>1, <1>8, QueueLengths
<1>10. Tail(reqs) \in Seq(Requests) /\ Len(Tail(reqs)) = 0
    BY <1>1, <1>8, HeadTailProperties
<1>11. Tail(reqs) = <<>>
    BY <1>10, EmptySeq
<1>. QED
    BY <1>2, <1>3, <1>4, <1>5, <1>6, <1>9, <1>11

\* FmsUpFile::echo and FmsDownFile::echo.
LEMMA DoneFms ==
    ASSUME TransferInv, TypeOK', GateInv, PendingInv, FifoInv, DoneInv, late' = {},
           "short" \notin Faults, FmsUp \/ FmsDown
    PROVE  DoneInv'
<1>0. /\ TypeOK /\ size \in [Files -> Nat] /\ dst \in [Files -> Seq(Nat)]
      /\ has \in [Files -> BOOLEAN] /\ info \in [Ids -> Tasks]
    BY DEF TransferInv, TypeOK
<1>1. reqs # <<>> /\ reqs' = Tail(reqs) /\ UNCHANGED <<size, tasks, info, nextId, done>>
    BY DEF FmsUp, FmsDown, taskVars
<1>2. PICK r : r = Head(reqs)
    OBVIOUS
<1>3. /\ r \in Requests /\ RequestInv(r) /\ Known(reqs, r)
      /\ r.id \in Ids /\ r.id \in Transfers /\ r.id \in Pending
      /\ acks = <<>> /\ reqs' = <<>>
    BY <1>1, <1>2, HeadRequestPending
<1>4. /\ r.file \in Files /\ r.file = info[r.id].file /\ r.pos \in Int
      /\ info[r.id].total \in Nat
    BY <1>0, <1>3 DEF Requests, RequestInv, Tasks
<1>5. \A x : ~Known(reqs', x)
    BY <1>3 DEF Known
<1>6. ASSUME NEW a, acks' = <<a>>, AnswerLast(a)', a.id = r.id
      PROVE  \A x : Known(acks', x) => AnswerLast(x)' /\ x.id = r.id
  <2>1. \A x : Known(<<a>>, x) => x = a
    BY DEF Known
  <2>. QED
    BY <1>6, <2>1
<1>7. ASSUME \A x : Known(acks', x) => AnswerLast(x)' /\ x.id = r.id,
             \A g \in Files : g # r.file => dst'[g] = dst[g] /\ has'[g] = has[g]
      PROVE  DoneInv'
  <2>1. \A g \in Files : \/ dst'[g] = dst[g] /\ has'[g] = has[g]
                         \/ \E u \in Transfers :
                               (Known(tasks, u) \/ u \in Pending) /\ info[u].file = g
    BY <1>3, <1>4, <1>7
  <2>2. (\A g \in Files : size[g] <= size'[g]) /\ \A u : Known(tasks', u) => Known(tasks, u)
    BY <1>0, <1>1
  <2>3. \A u \in Pending' : u \in Pending
    BY <1>3, <1>5, <1>7, PendingAll
  <2>. QED
    BY <1>1, <1>5, <1>7, <2>1, <2>2, <2>3, DoneStep
<1>8. CASE FmsUp
  <2>1. r.cmd = "Up"
    BY <1>2, <1>8 DEF FmsUp
  <2>2. PICK out \in UpResults(r) :
           /\ ServeUp(r, out)
           /\ acks' = Append(acks, [cmd |-> "Up", id |-> r.id, pos |-> out.pos,
                                    result |-> out.result, seg |-> NoSeg])
    BY <1>2, <1>8 DEF FmsUp
  <2>3. PICK a : a = [cmd |-> "Up", id |-> r.id, pos |-> out.pos, result |-> out.result,
                      seg |-> NoSeg]
    OBVIOUS
  <2>4. acks' = <<a>>
    BY <1>3, <2>2, <2>3
  <2>5. /\ dst'[r.file] = out.file /\ has'[r.file] = out.has
        /\ \A g \in Files : g # r.file => dst'[g] = dst[g] /\ has'[g] = has[g]
    BY <1>0, <1>4, <2>2 DEF ServeUp
  <2>6. AnswerLast(a)'
    <3>. SUFFICES ASSUME out.result = "ReachEnd" PROVE Whole(r.id)'
      BY <2>3 DEF AnswerLast
    <3>1. RequestLast(r)
      BY <1>3, DoneInvAll
    <3>2. /\ out.has /\ info[r.id].total <= Len(out.file)
          /\ IsSourceUpTo(out.file, size[r.file])
      BY <1>0, <1>3, <2>1, <3>1, UpReaches
    <3>. QED
      BY <1>1, <1>4, <2>5, <3>2 DEF Whole
  <2>. QED
    BY <1>6, <1>7, <2>3, <2>4, <2>5, <2>6
<1>9. CASE FmsDown
  <2>1. r.cmd = "Down" /\ r.pos >= 0
    BY <1>2, <1>3, <1>9 DEF FmsDown, RequestInv
  <2>2. PICK seg \in ReadOutcomes(r.file, r.pos) :
           acks' = Append(acks, [cmd |-> "Down", id |-> r.id, pos |-> r.pos,
                                 result |-> seg.result, seg |-> seg])
    BY <1>2, <1>9 DEF FmsDown
  <2>3. PICK a : a = [cmd |-> "Down", id |-> r.id, pos |-> r.pos, result |-> seg.result,
                      seg |-> seg]
    OBVIOUS
  <2>4. acks' = <<a>>
    BY <1>3, <2>2, <2>3
  <2>5. AnswerLast(a)'
    <3>. SUFFICES ASSUME seg.result = "ReachEnd"
                  PROVE  info'[r.id].total <= seg.pos + Len(seg.buf)
      BY <2>3 DEF AnswerLast
    <3>1. seg.pos + Len(seg.buf) = size[r.file]
      BY <1>0, <1>4, <2>1, ReadReachesEnd
    <3>2. info[r.id].total <= size[r.file]
      BY <1>3, <1>4 DEF FifoInv
    <3>. QED
      BY <1>1, <3>1, <3>2
  <2>6. UNCHANGED <<dst, has>>
    BY <1>9 DEF FmsDown, fileVars
  <2>. QED
    BY <1>6, <1>7, <2>3, <2>4, <2>5, <2>6
<1>. QED
    BY <1>8, <1>9
\* The answer at the head of the queue, and the only message there is.
LEMMA HeadAnswerPending ==
    ASSUME TransferInv, TypeOK', GateInv', FifoInv, AckUp \/ AckDown
    PROVE  /\ Head(acks) \in Answers /\ AnswerInv(Head(acks)) /\ Known(acks, Head(acks))
           /\ Head(acks).id \in Ids /\ Head(acks).id \in Transfers
           /\ info[Head(acks).id].file \in Files
           /\ Known(tasks, Head(acks).id) /\ Oldest(Head(acks).id)
           /\ acks' = <<>> /\ reqs' = <<>>
           /\ UNCHANGED <<size, nextId, late>>
<1>1. acks # <<>> /\ canSend' /\ UNCHANGED <<size, nextId, late>> /\ acks \in Seq(Answers)
    BY DEF AckUp, AckDown, TakeAck, TransferInv, TypeOK
<1>2. Head(acks) \in Answers /\ Head(acks).id \in Pending /\ Head(acks).id \in Ids
    BY <1>1, HeadIsPending
<1>3. Known(acks, Head(acks))
    BY <1>1, KnownTail
<1>4. AnswerInv(Head(acks))
    BY <1>3 DEF TransferInv, MessageInv, Known
<1>5. /\ Head(acks).id \in Transfers /\ Known(tasks, Head(acks).id)
      /\ Oldest(Head(acks).id)
    BY <1>2, PendingTransfers DEF FifoInv, AckUp, AckDown
<1>6. info[Head(acks).id].file \in Files
    BY <1>2, <1>5 DEF TransferInv, TaskInv
<1>7. acks' = <<>> /\ reqs' = <<>>
    BY <1>1 DEF GateInv, OneOutstanding
<1>. QED
    BY <1>1, <1>2, <1>3, <1>4, <1>5, <1>6, <1>7

\* FmcUpFile::ack and FmcDownFile::ack.
LEMMA DoneAck ==
    ASSUME TransferInv, TypeOK', GateInv', FifoInv, DoneInv, late' = {},
           "short" \notin Faults, AckUp \/ AckDown
    PROVE  DoneInv'
<1>0. /\ TypeOK /\ size \in [Files -> Nat] /\ dst \in [Files -> Seq(Nat)]
      /\ has \in [Files -> BOOLEAN] /\ info \in [Ids -> Tasks] /\ tasks \in Seq(Ids)
    BY DEF TransferInv, TypeOK
<1>1. PICK a, k, f : a = Head(acks) /\ k = a.id /\ f = info[k].file
    OBVIOUS
<1>2. /\ a \in Answers /\ AnswerInv(a) /\ Known(acks, a)
      /\ k \in Ids /\ k \in Transfers /\ f \in Files
      /\ Known(tasks, k) /\ Oldest(k)
      /\ acks' = <<>> /\ reqs' = <<>> /\ size' = size
    BY <1>1, HeadAnswerPending
<1>3. AnswerLast(a)
    BY <1>2, DoneInvAll
<1>4. \A t \in Ids : /\ info'[t].type = info[t].type
                     /\ info'[t].file = info[t].file
                     /\ info'[t].total = info[t].total
    BY AckInfo
<1>5. \A x : ~Known(<<>>, x)
    BY DEF Known
<1>6. size[f] \in Nat /\ \A g \in Files : size[g] <= size'[g]
    BY <1>0, <1>2
<1>7. ASSUME tasks' = tasks, done' = done,
             \A g \in Files : g # f => dst'[g] = dst[g] /\ has'[g] = has[g]
      PROVE  DoneInv'
  <2>1. \A g \in Files : \/ dst'[g] = dst[g] /\ has'[g] = has[g]
                         \/ \E u \in Transfers : Known(tasks, u) /\ info[u].file = g
    BY <1>1, <1>2, <1>7
  <2>2. (\A x : ~Known(reqs', x)) /\ (\A x : ~Known(acks', x)) /\ Pending' = {}
    BY <1>2, <1>5, NothingPending
  <2>3. \A u : Known(tasks', u) => Known(tasks, u)
    BY <1>7
  <2>. QED
    BY <1>4, <1>6, <1>7, <2>1, <2>2, <2>3, DoneStep
<1>8. ASSUME tasks' = RemoveTask(tasks, k), done' = done \cup {k}, Whole(k)',
             \A g \in Files : g # f => dst'[g] = dst[g] /\ has'[g] = has[g]
      PROVE  DoneInv'
    BY <1>1, <1>2, <1>4, <1>8, DoneFinish
<1>9. CASE AckUp
  <2>1. UNCHANGED <<dst, has>> /\ a.cmd = "Up"
    BY <1>1, <1>9 DEF AckUp, fileVars, TakeAck
  <2>2. CASE a.result = "ReachEnd"
    <3>1. tasks' = RemoveTask(tasks, k) /\ done' = done \cup {k}
      BY <1>1, <1>9, <2>2 DEF AckUp, Finish
    <3>2. Whole(k)
      BY <1>1, <1>3, <2>1, <2>2 DEF AnswerLast
    <3>3. Whole(k)'
      BY <1>1, <1>2, <1>4, <1>6, <2>1, <3>2, WholeStable
    <3>. QED
      BY <1>8, <2>1, <3>1, <3>3
  <2>3. CASE a.result # "ReachEnd"
    <3>1. UNCHANGED <<tasks, done>>
      BY <1>1, <1>9, <2>3 DEF AckUp, GoOn
    <3>. QED
      BY <1>7, <2>1, <3>1
  <2>. QED
    BY <2>2, <2>3
<1>10. CASE AckDown
  <2>0. a.cmd = "Down" /\ a.pos \in Int /\ a.seg \in Segs
    BY <1>1, <1>2, <1>10 DEF AckDown, TakeAck, Answers
  <2>1. CASE a.result \notin {"Ok", "ReachEnd"}
    <3>1. UNCHANGED <<tasks, done, dst, has>>
      BY <1>1, <1>10, <2>1 DEF AckDown, GoOn, fileVars
    <3>. QED
      BY <1>7, <3>1
  <2>2. CASE a.result \in {"Ok", "ReachEnd"}
    <3>1. PICK w \in WriteOutcomes(f, a.seg) :
             /\ dst' = [dst EXCEPT ![f] = w.file]
             /\ has' = [has EXCEPT ![f] = w.has]
             /\ IF w.ret >= 0 /\ a.result = "ReachEnd" THEN Finish(k) ELSE GoOn
      BY <1>1, <1>10, <2>2 DEF AckDown
    <3>2. /\ dst'[f] = w.file /\ has'[f] = w.has
          /\ \A g \in Files : g # f => dst'[g] = dst[g] /\ has'[g] = has[g]
      BY <1>0, <1>2, <3>1
    <3>3. CASE w.ret >= 0 /\ a.result = "ReachEnd"
      <4>1. tasks' = RemoveTask(tasks, k) /\ done' = done \cup {k}
        BY <3>1, <3>3 DEF Finish
      <4>2. Touched(f) /\ IsSlice(a.seg, size[f])
        BY <1>1, <1>2, <2>0, <2>2 DEF AnswerInv
      <4>3. IsSourceUpTo(w.file, size[f])
        BY <1>0, <1>2, <2>0, <4>2, WriteOutcomesProperties
      <4>4. w.has /\ Len(w.file) = a.seg.pos + Len(a.seg.buf)
        BY <1>0, <1>2, <2>0, <3>3, WriteReaches
      <4>5. info[k].total <= Len(w.file)
        BY <1>1, <1>3, <2>0, <3>3, <4>4 DEF AnswerLast
      <4>6. Whole(k)'
        BY <1>1, <1>2, <1>4, <3>2, <4>3, <4>4, <4>5 DEF Whole
      <4>. QED
        BY <1>8, <3>2, <4>1, <4>6
    <3>4. CASE ~(w.ret >= 0 /\ a.result = "ReachEnd")
      <4>1. UNCHANGED <<tasks, done>>
        BY <3>1, <3>4 DEF GoOn
      <4>. QED
        BY <1>7, <3>2, <4>1
    <3>. QED
      BY <3>3, <3>4
  <2>. QED
    BY <2>1, <2>2
<1>. QED
    BY <1>9, <1>10

\* Every step keeps the invariant of completed transfers.
LEMMA DoneNext ==
    ASSUME TransferInv, TypeOK', GateInv, GateInv', PendingInv, FifoInv,
           DoneInv, {"late", "short"} \cap Faults = {}, [Next]_vars
    PROVE  DoneInv'
<1>0. /\ TypeOK /\ size \in [Files -> Nat] /\ info \in [Ids -> Tasks]
      /\ tasks \in Seq(Ids) /\ nextId \in Nat \ {0}
    BY DEF TransferInv, TypeOK
<1>1. "late" \notin Faults /\ "short" \notin Faults
    OBVIOUS
<1>2. late = {} /\ late' = {}
    BY <1>1, NothingLate, DoneInvAll
<1>3. CASE ReqUpload \/ ReqDownload \/ ReqDownloadNoSpace
    BY <1>2, <1>3, DoneReq
<1>4. CASE FmsUp \/ FmsDown
    BY <1>1, <1>2, <1>4, DoneFms
<1>5. CASE AckUp \/ AckDown
    BY <1>1, <1>2, <1>5, DoneAck
<1>6. nextId <= MaxTasks => nextId \in Ids
    BY <1>0, ConstAssumption DEF Ids
<1>7. CASE \E f \in Files : UiTransfer(f)
  <2>. DEFINE kept == CleanError(tasks, Ids \ OkTasks, OfType("Connect"))
  <2>1. kept \in Seq(Ids) /\ \A t : Known(kept, t) => Known(tasks, t)
    BY <1>0, EraseFirstType, KnownErase DEF CleanError
  <2>2. PICK x : info' = [info EXCEPT ![nextId] = x]
    BY <1>7 DEF UiTransfer
  <2>3. /\ nextId <= MaxTasks
        /\ tasks' = Add(kept, Prios(info'), nextId)
        /\ UNCHANGED <<size, dst, has, reqs, acks, done>>
    BY <1>7 DEF UiTransfer, netVars, fileVars
  <2>. HIDE DEF kept
  <2>4. \A t : Known(tasks', t) => Known(tasks, t) \/ t = nextId
    BY <1>6, <2>1, <2>3, KnownAdd, PriosType
  <2>. QED
    BY <1>2, <1>6, <2>2, <2>3, <2>4, DoneAdd
<1>8. CASE UiReconnect \/ UiConnect
  <2>1. PICK x : info' = [info EXCEPT ![nextId] = x]
    BY <1>8 DEF UiReconnect, UiConnect, ResetClient
  <2>2. /\ nextId <= MaxTasks /\ reqs' = <<>> /\ acks' = <<>>
        /\ tasks' = Add(tasks, Prios(info'), nextId)
        /\ UNCHANGED <<size, dst, has, done>>
    BY <1>8 DEF UiReconnect, UiConnect, ResetClient, fileVars
  <2>3. \A y : ~Known(<<>>, y)
    BY DEF Known
  <2>4. \A t : Known(tasks', t) => Known(tasks, t) \/ t = nextId
    BY <1>0, <1>6, <2>2, KnownAdd, PriosType
  <2>. QED
    BY <1>2, <1>6, <2>1, <2>2, <2>3, <2>4, DoneAdd
<1>9. ASSUME UNCHANGED <<dst, has, done>>, \A f \in Files : size[f] <= size'[f],
             \A t : Known(tasks', t) => Known(tasks, t),
             \A r : Known(reqs', r) => Known(reqs, r),
             \A a : Known(acks', a) => Known(acks, a),
             \A t \in Ids : /\ info'[t].type = info[t].type
                            /\ info'[t].file = info[t].file
                            /\ info'[t].total = info[t].total
      PROVE  DoneInv'
  <2>1. \A t \in Pending' : t \in Pending
    BY <1>9, PendingAll
  <2>. QED
    BY <1>2, <1>9, <2>1, DoneStep
<1>10. CASE HandshakeOk
  <2>1. UNCHANGED <<size, dst, has, info, reqs, acks, done>>
    BY <1>10 DEF HandshakeOk, fileVars, netVars
  <2>2. \A t : Known(tasks', t) => Known(tasks, t)
    BY <1>0, <1>10, KnownErase DEF HandshakeOk, RemoveTask
  <2>3. \A f \in Files : size[f] <= size'[f]
    BY <1>0, <2>1
  <2>. QED
    BY <1>9, <2>1, <2>2, <2>3
<1>11. CASE HandshakeMismatch
  <2>1. UNCHANGED <<size, dst, has, tasks, reqs, acks, done>>
    BY <1>11 DEF HandshakeMismatch, fileVars, netVars
  <2>2. \E k, y : info' = [info EXCEPT ![k].result = y]
    BY <1>11 DEF HandshakeMismatch
  <2>3. \A t \in Ids : /\ info'[t].type = info[t].type
                       /\ info'[t].file = info[t].file
                       /\ info'[t].total = info[t].total
    BY <1>0, <2>2 DEF Tasks
  <2>4. \A f \in Files : size[f] <= size'[f]
    BY <1>0, <2>1
  <2>. QED
    BY <1>9, <2>1, <2>3, <2>4
<1>12. CASE Disconnect
  <2>1. UNCHANGED <<size, dst, has, tasks, info, done>> /\ reqs' = <<>> /\ acks' = <<>>
    BY <1>12 DEF Disconnect, fileVars, taskVars
  <2>2. \A x : ~Known(<<>>, x)
    BY DEF Known
  <2>3. \A f \in Files : size[f] <= size'[f]
    BY <1>0, <2>1
  <2>. QED
    BY <1>9, <2>1, <2>2, <2>3
<1>13. CASE UserStart \/ Timer \/ UserLoopIdle \/ UserLoopConnect \/ UNCHANGED vars
  <2>1. UNCHANGED <<size, dst, has, tasks, info, reqs, acks, done>>
    BY <1>13 DEF UserStart, Timer, UserLoopIdle, UserLoopConnect, Serving, vars, fileVars,
                 taskVars, netVars
  <2>2. \A f \in Files : size[f] <= size'[f]
    BY <1>0, <2>1
  <2>. QED
    BY <1>9, <2>1, <2>2
<1>16. CASE UiCleanAll
  <2>1. UNCHANGED <<size, dst, has, info, reqs, acks, done>> /\ tasks' = <<>>
    BY <1>16 DEF UiCleanAll, fileVars, netVars
  <2>2. \A t : ~Known(<<>>, t)
    BY DEF Known
  <2>3. \A f \in Files : size[f] <= size'[f]
    BY <1>0, <2>1
  <2>. QED
    BY <1>9, <2>1, <2>2, <2>3
<1>17. CASE AckGone
  <2>1. /\ UNCHANGED <<size, dst, has, tasks, info, reqs, done>>
        /\ acks # <<>> /\ acks' = Tail(acks)
    BY <1>17 DEF AckGone, TakeAck, fileVars
  <2>2. \A a : Known(acks', a) => Known(acks, a)
    BY <1>0, <2>1, KnownTail DEF TypeOK
  <2>3. \A f \in Files : size[f] <= size'[f]
    BY <1>0, <2>1
  <2>. QED
    BY <1>9, <2>1, <2>2, <2>3
<1>14. CASE FmsLate
    BY <1>2, <1>14 DEF FmsLate
<1>15. CASE \E f \in Files : GrowSource(f)
  <2>1. PICK g \in Files : size' = [size EXCEPT ![g] = @ + 1]
    BY <1>15 DEF GrowSource
  <2>2. UNCHANGED <<dst, has, tasks, info, reqs, acks, done>>
    BY <1>15 DEF GrowSource, fileVars, taskVars, netVars
  <2>3. \A f \in Files : size[f] <= size'[f]
    BY <1>0, <2>1
  <2>. QED
    BY <1>9, <2>2, <2>3
<1>. QED
    BY <1>3, <1>4, <1>5, <1>7, <1>8, <1>10, <1>11, <1>12, <1>13, <1>14, <1>15, <1>16,
       <1>17 DEF Next, Ui, Conn, Client, Server

\* No transfer is completed initially.
LEMMA DoneInit == Init => DoneInv
<1>1. \A x : ~Known(<<>>, x)
    BY DEF Known
<1>. QED
    BY <1>1, DoneInvAll DEF Init, DoneOlder, DoneWhole

\* A transfer whose task FmcUpFile::ack or FmcDownFile::ack removed as complete
\* left the whole listed file at its destination, and it stays there until the
\* user transfers that file again: reconnects, retries, failed opens, refused
\* visit codes, a full disk and growing sources included.  Only a fwrite that
\* stores less than asked, or a request of a dead connection that is served
\* late, can break it.
THEOREM CompletedIsWhole ==
    Spec => [](("late" \in Faults \/ "short" \in Faults) \/ DoneIsWhole)
<1>. DEFINE Bad == "late" \in Faults \/ "short" \in Faults
<1>1. Init => EngineInv /\ (Bad \/ DoneInv)
    BY EngineInit, DoneInit
<1>2. EngineInv /\ (Bad \/ DoneInv) /\ [Next]_vars => (EngineInv /\ (Bad \/ DoneInv))'
  <2>. SUFFICES ASSUME EngineInv, Bad \/ DoneInv, [Next]_vars
                PROVE  (EngineInv /\ (Bad \/ DoneInv))'
    OBVIOUS
  <2>1. EngineInv'
    BY EngineNext
  <2>2. CASE ~Bad /\ DoneInv
    <3>1. {"late", "short"} \cap Faults = {}
      BY <2>2
    <3>2. DoneInv'
      BY <2>1, <2>2, <3>1, DoneNext DEF EngineInv, TransferInv
    <3>. QED
      BY <2>1, <3>2
  <2>. QED
    BY <2>1, <2>2
<1>3. TransferInv /\ DoneInv => DoneIsWhole
  <2>. SUFFICES ASSUME TransferInv, DoneInv, NEW t \in done,
                       \A u \in Ids : info[u].file = info[t].file => u <= t
                PROVE  Whole(t)
    BY DEF DoneIsWhole, Whole
  <2>1. \A u \in Transfers : u \in Ids
    BY DEF Transfers
  <2>. QED
    BY <2>1, DoneInvAll DEF DoneWhole
<1>4. EngineInv /\ (Bad \/ DoneInv) => Bad \/ DoneIsWhole
    BY <1>3 DEF EngineInv
<1>. QED
    BY <1>1, <1>2, <1>4, PTL DEF Spec
-----------------------------------------------------------------------------
(* A lost connection fails no transfer                                     *)

\* RetryInv in terms of the messages that are in a queue.
LEMMA RetryInvAll ==
    /\ RetryInv <=>
          /\ late = {} /\ RetryNeverFails
          /\ \A t \in Transfers : Known(tasks, t) /\ info[t].offset >= 0 => InStep(t)
          /\ ~replacing => \A r : Known(reqs, r) => RequestRetry(r)
          /\ ~replacing => \A a : Known(acks, a) => AnswerRetry(a)
    /\ RetryInv' <=>
          /\ late' = {} /\ RetryNeverFails'
          /\ \A t \in Transfers' : Known(tasks', t) /\ info'[t].offset >= 0 => InStep(t)'
          /\ ~replacing' => \A r : Known(reqs', r) => RequestRetry(r)'
          /\ ~replacing' => \A a : Known(acks', a) => AnswerRetry(a)'
<1>1. RetryInv <=>
         /\ late = {} /\ RetryNeverFails
         /\ \A t \in Transfers : Known(tasks, t) /\ info[t].offset >= 0 => InStep(t)
         /\ ~replacing => \A r : Known(reqs, r) => RequestRetry(r)
         /\ ~replacing => \A a : Known(acks, a) => AnswerRetry(a)
    BY DEF RetryInv, Known
<1>2. RetryInv' <=>
         /\ late' = {} /\ RetryNeverFails'
         /\ \A t \in Transfers' : Known(tasks', t) /\ info'[t].offset >= 0 => InStep(t)'
         /\ ~replacing' => \A r : Known(reqs', r) => RequestRetry(r)'
         /\ ~replacing' => \A a : Known(acks', a) => AnswerRetry(a)'
    BY DEF RetryInv, Known
<1>. QED
    BY <1>1, <1>2

\* Only the oldest listed transfer of a file has begun.
LEMMA OneBegun ==
    ASSUME FifoInv, NEW t \in Transfers, Known(tasks, t), Oldest(t),
           NEW u \in Transfers, Known(tasks, u), info[u].offset >= 0,
           info[u].file = info[t].file
    PROVE  u = t
<1>1. t <= u
    BY DEF Oldest
<1>2. u <= t
    BY DEF FifoInv, Oldest
<1>3. t \in Int /\ u \in Int
    BY DEF Transfers, Ids
<1>. QED
    BY <1>1, <1>2, <1>3

\* The segment read at a position inside the source.
LEMMA ReadAt ==
    ASSUME TypeOK, NEW f \in Files, NEW o \in Nat, o <= size[f],
           NEW seg, seg = fmReadFile(size[f], o, SegLen)
    PROVE  /\ seg \in Segs /\ seg.pos = o /\ seg.result \in {"Ok", "ReachEnd"}
           /\ Len(seg.buf) \in Nat /\ o + Len(seg.buf) = SegEnd(f, o)
           /\ SegEnd(f, o) \in Nat /\ SegEnd(f, o) <= size[f]
<1>1. size[f] \in Nat /\ SegLen \in Nat
    BY ConstAssumption DEF TypeOK
<1>2. seg \in Segs /\ seg.pos = o
    BY <1>1, ReadIsSlice
<1>3. \A n \in Nat : Len(Slice(o, n)) = n
    BY DEF Slice
<1>4. CASE size[f] - o > SegLen
  <2>1. seg = [result |-> "Ok", pos |-> o, buf |-> Slice(o, SegLen)]
    BY <1>1, <1>4 DEF fmReadFile
  <2>2. Len(seg.buf) = SegLen /\ seg.result = "Ok"
    BY <1>1, <1>3, <2>1
  <2>3. SegEnd(f, o) = o + SegLen
    BY <1>4 DEF SegEnd
  <2>. QED
    BY <1>1, <1>2, <1>4, <2>2, <2>3
<1>5. CASE ~(size[f] - o > SegLen)
  <2>1. seg = [result |-> "ReachEnd", pos |-> o, buf |-> Slice(o, size[f] - o)]
    BY <1>1, <1>5 DEF fmReadFile
  <2>2. size[f] - o \in Nat
    BY <1>1
  <2>3. Len(seg.buf) = size[f] - o /\ seg.result = "ReachEnd"
    BY <1>3, <2>1, <2>2
  <2>4. SegEnd(f, o) = size[f]
    BY <1>5 DEF SegEnd
  <2>5. o + (size[f] - o) = size[f] /\ size[f] <= size[f]
    BY <1>1
  <2>. QED
    BY <1>1, <1>2, <2>2, <2>3, <2>4, <2>5
<1>. QED
    BY <1>4, <1>5

\* The segment at o is accepted by a file that ends at o or at its end.
LEMMA WriteAt ==
    ASSUME TypeOK, Faults \subseteq {"lose"}, NEW f \in Files, NEW o \in Nat, o <= size[f],
           Len(dst[f]) \in {o, SegEnd(f, o)},
           NEW seg, seg = fmReadFile(size[f], o, SegLen),
           NEW w \in WriteOutcomes(f, seg)
    PROVE  w.ret = Len(seg.buf) /\ Len(w.file) = SegEnd(f, o)
<1>1. /\ seg \in Segs /\ seg.pos = o
      /\ Len(seg.buf) \in Nat /\ o + Len(seg.buf) = SegEnd(f, o)
    BY ReadAt
<1>2. "short" \notin Faults /\ "open" \notin Faults
    OBVIOUS
<1>3. w = [ret  |-> fmWriteFile(dst[f], seg, Len(seg.buf)).ret,
           file |-> fmWriteFile(dst[f], seg, Len(seg.buf)).file, has |-> TRUE]
    BY <1>2 DEF WriteOutcomes, Wrote
<1>4. w.ret = fmWriteFile(dst[f], seg, Len(seg.buf)).ret
    BY <1>3
<1>5. seg.pos = Len(dst[f]) \/ seg.pos + Len(seg.buf) = Len(dst[f])
    BY <1>1
<1>6. w.ret = Len(seg.buf)
    BY <1>4, <1>5 DEF fmWriteFile
<1>7. w.ret >= 0
    BY <1>1, <1>6
<1>8. Len(w.file) = seg.pos + Len(seg.buf)
    BY <1>1, <1>2, <1>7, WriteReaches
<1>. QED
    BY <1>1, <1>6, <1>8

\* A step that touches neither files nor offsets and sends nothing.
LEMMA RetryQuiet ==
    ASSUME TransferInv, RetryInv, ~replacing, late' = {}, UNCHANGED <<size, dst, info>>,
           \A t : Known(tasks', t) => Known(tasks, t),
           \A r : Known(reqs', r) => Known(reqs, r) \/ RequestRetry(r),
           \A a : Known(acks', a) => Known(acks, a) \/ AnswerRetry(a)
    PROVE  RetryInv'
<1>1. RetryNeverFails' /\ Transfers' = Transfers
    BY RetryInvAll DEF RetryNeverFails, Transfers
<1>2. \A t : InStep(t) => InStep(t)'
    BY DEF InStep, SegEnd
<1>3. \A r : RequestRetry(r) => RequestRetry(r)'
    BY DEF RequestRetry
<1>4. \A a : AnswerRetry(a) => AnswerRetry(a)'
    BY DEF AnswerRetry
<1>. QED
    BY <1>1, <1>2, <1>3, <1>4, RetryInvAll

\* A step that adds a task with a new id.
LEMMA RetryAdd ==
    ASSUME TransferInv, TypeOK', RetryInv, late' = {}, nextId \in Ids,
           NEW ty, NEW f, NEW n, info' = [info EXCEPT ![nextId] = Task(ty, f, n)],
           UNCHANGED <<size, dst>>,
           \A t : Known(tasks', t) => Known(tasks, t) \/ t = nextId,
           \A r : Known(reqs', r) => Known(reqs, r) /\ ~replacing,
           \A a : Known(acks', a) => Known(acks, a) /\ ~replacing
    PROVE  RetryInv'
<1>0. info \in [Ids -> Tasks]
    BY DEF TransferInv, TypeOK
<1>1. /\ info'[nextId].offset = -1 /\ info'[nextId].result = "Ok"
      /\ \A t \in Ids : t # nextId => info'[t] = info[t]
    BY <1>0 DEF Task
<1>2. RetryNeverFails'
    BY <1>1, RetryInvAll DEF RetryNeverFails
<1>3. ASSUME NEW t \in Transfers', Known(tasks', t), info'[t].offset >= 0 PROVE InStep(t)'
  <2>1. t \in Ids /\ t # nextId
    BY <1>1, <1>3 DEF Transfers
  <2>2. info'[t] = info[t] /\ t \in Transfers /\ Known(tasks, t)
    BY <1>1, <1>3, <2>1 DEF Transfers
  <2>3. InStep(t)
    BY <1>3, <2>2, RetryInvAll
  <2>. QED
    BY <2>2, <2>3 DEF InStep, SegEnd
<1>4. \A t \in Ids : t < nextId => info'[t] = info[t]
  <2>1. nextId \in Nat /\ \A t \in Ids : t \in Int
    BY DEF TransferInv, TypeOK, Ids
  <2>. QED
    BY <1>1, <2>1
<1>5. ASSUME NEW r, Known(reqs', r) PROVE RequestRetry(r)'
  <2>1. RequestRetry(r) /\ info'[r.id] = info[r.id]
    BY <1>4, <1>5, MessageIds, RetryInvAll
  <2>. QED
    BY <2>1 DEF RequestRetry
<1>6. ASSUME NEW a, Known(acks', a) PROVE AnswerRetry(a)'
  <2>1. AnswerRetry(a) /\ info'[a.id] = info[a.id]
    BY <1>4, <1>6, MessageIds, RetryInvAll
  <2>. QED
    BY <2>1 DEF AnswerRetry
<1>. QED
    BY <1>2, <1>3, <1>5, <1>6, RetryInvAll
\* FmcUpFile::req and FmcDownFile::req.
LEMMA RetryReq ==
    ASSUME TransferInv, TypeOK', GateInv, FifoInv, RetryInv, ~replacing, late' = {},
           Faults \subseteq {"lose"}, ReqUpload \/ ReqDownload
    PROVE  RetryInv'
<1>0. /\ TypeOK /\ info \in [Ids -> Tasks] /\ size \in [Files -> Nat]
      /\ dst \in [Files -> Seq(Nat)]
      /\ reqs \in Seq(Requests) /\ reqs' \in Seq(Requests)
    BY DEF TransferInv, TypeOK
<1>1. PICK t, f : t = First /\ f = info[t].file
    OBVIOUS
<1>2. /\ t \in Ids /\ t \in Transfers /\ info[t] \in Tasks /\ f \in Files
      /\ UNCHANGED <<size, tasks, acks>> /\ info[t].offset \in Int
    BY <1>1, ServingProperties DEF ReqUpload, ReqDownload
<1>3. First # NoTask /\ canSend
    BY DEF ReqUpload, ReqDownload, Serving
<1>4. Known(tasks, t) /\ Oldest(t)
    BY <1>0, <1>1, <1>2, <1>3, FirstIsFront, FirstIsOldest
<1>5. reqs = <<>> /\ acks' = <<>>
    BY <1>2, <1>3 DEF GateInv, OneOutstanding
<1>6. \A x : ~Known(<<>>, x)
    BY DEF Known
<1>7. ASSUME NEW m, reqs' = Append(reqs, m) PROVE \A x : Known(reqs', x) => x = m
  <2>1. reqs' = <<m>>
    BY <1>5, <1>7
  <2>2. \A x : Known(<<m>>, x) => x = m
    BY DEF Known
  <2>. QED
    BY <2>1, <2>2
<1>8. CASE ReqUpload
  <2>1. UNCHANGED <<dst, info>>
    BY <1>8 DEF ReqUpload, fileVars
  <2>2. PICK seg \in IF info[t].offset < 0 THEN {NoSeg} ELSE ReadOutcomes(f, info[t].offset) :
           reqs' = Append(reqs, [cmd |-> "Up", id |-> t, file |-> f,
                                 pos |-> info[t].offset, seg |-> seg])
    BY <1>1, <1>8 DEF ReqUpload
  <2>3. PICK m : m = [cmd |-> "Up", id |-> t, file |-> f, pos |-> info[t].offset, seg |-> seg]
    OBVIOUS
  <2>4. m.pos >= 0 => seg = fmReadFile(size[f], m.pos, SegLen)
    BY <1>2, <2>2, <2>3 DEF ReadOutcomes
  <2>5. RequestRetry(m)
    BY <2>3, <2>4 DEF RequestRetry
  <2>6. \A x : Known(reqs', x) => x = m
    BY <1>7, <2>2, <2>3
  <2>. QED
    BY <1>2, <1>5, <1>6, <2>1, <2>5, <2>6, RetryQuiet
<1>9. CASE ReqDownload
  <2>1. PICK pos : pos = IF info[t].offset < 0 THEN 0 ELSE info[t].offset
    OBVIOUS
  <2>2. PICK m : m = [cmd |-> "Down", id |-> t, file |-> f, pos |-> pos, seg |-> NoSeg]
    OBVIOUS
  <2>3. /\ IF info[t].offset < 0 THEN Unlink(f) ELSE UNCHANGED fileVars
        /\ info' = [info EXCEPT ![t].offset = pos]
        /\ reqs' = Append(reqs, m)
    BY <1>1, <1>9, <2>1, <2>2 DEF ReqDownload
  <2>4. pos \in Nat /\ pos = info'[t].offset
    BY <1>0, <1>2, <2>1, <2>3 DEF Tasks
  <2>5. /\ \A u \in Ids : u # t => info'[u] = info[u]
        /\ \A u \in Ids : /\ info'[u].type = info[u].type
                          /\ info'[u].file = info[u].file
                          /\ info'[u].result = info[u].result
    <3>1. \A u \in Ids : u # t => info'[u] = info[u]
      BY <1>0, <1>2, <2>3
    <3>2. /\ info'[t].type = info[t].type
          /\ info'[t].file = info[t].file
          /\ info'[t].result = info[t].result
      BY <1>0, <1>2, <2>3 DEF Tasks
    <3>. QED
      BY <3>1, <3>2
  <2>6. RetryNeverFails' /\ Transfers' = Transfers
    BY <2>5, RetryInvAll DEF RetryNeverFails, Transfers
  <2>7. RequestRetry(m)'
    BY <2>2, <2>4 DEF RequestRetry
  <2>8. \A x : Known(reqs', x) => x = m
    BY <1>7, <2>3
  <2>9. ASSUME NEW u \in Transfers, Known(tasks, u), info'[u].offset >= 0 PROVE InStep(u)'
    <3>1. u \in Ids
      BY DEF Transfers
    <3>2. CASE u = t /\ info[t].offset < 0
      <4>1. dst'[f] = <<>>
        BY <1>0, <1>2, <2>3, <3>2 DEF Unlink
      <4>2. info'[u].offset = 0 /\ info'[u].file = f /\ Len(dst'[f]) = 0
            /\ size'[f] \in Nat
        BY <1>0, <1>1, <1>2, <2>1, <2>4, <2>5, <3>1, <3>2, <4>1
      <4>. QED
        BY <4>2 DEF InStep
    <3>3. CASE ~(u = t /\ info[t].offset < 0)
      <4>1. info'[u].offset = info[u].offset /\ info'[u].file = info[u].file
        BY <2>1, <2>4, <2>5, <3>1, <3>3
      <4>2. InStep(u)
        BY <2>9, <4>1, RetryInvAll
      <4>3. dst'[info[u].file] = dst[info[u].file]
        <5>1. CASE info[t].offset < 0
          <6>1. u # t
            BY <3>3, <5>1
          <6>2. info[u].file # f
            BY <1>1, <1>2, <1>4, <2>9, <4>1, <6>1, OneBegun
          <6>3. info[u].file \in Files
            BY <3>1 DEF TransferInv, TaskInv
          <6>. QED
            BY <1>0, <2>3, <5>1, <6>2, <6>3 DEF Unlink
        <5>2. CASE ~(info[t].offset < 0)
          BY <2>3, <5>2 DEF fileVars
        <5>. QED
          BY <5>1, <5>2
      <4>. QED
        BY <1>2, <4>1, <4>2, <4>3 DEF InStep, SegEnd
    <3>. QED
      BY <3>2, <3>3
  <2>. QED
    BY <1>2, <1>5, <1>6, <2>6, <2>7, <2>8, <2>9, RetryInvAll
<1>. QED
    BY <1>8, <1>9

\* A step of the server or of an ack that writes the destination of transfer k.
LEMMA RetryWrite ==
    ASSUME TransferInv, TypeOK', FifoInv, RetryInv, ~replacing,
           NEW k \in Transfers, Known(tasks, k), Oldest(k),
           \A t \in Ids : /\ info'[t].type = info[t].type
                          /\ info'[t].file = info[t].file
                          /\ info'[t].result = info[t].result,
           \A t \in Ids : t # k => info'[t] = info[t],
           \A t : Known(tasks', t) => Known(tasks, t),
           \A g \in Files : g # info[k].file => dst'[g] = dst[g],
           size' = size, info'[k].offset >= 0 => InStep(k)',
           late' = {}, \A r : ~Known(reqs', r),
           \A a : Known(acks', a) => AnswerRetry(a)'
    PROVE  RetryInv'
<1>1. RetryNeverFails' /\ Transfers' = Transfers
    BY RetryInvAll DEF RetryNeverFails, Transfers
<1>2. ASSUME NEW u \in Transfers, u # k, Known(tasks, u), info'[u].offset >= 0
      PROVE  InStep(u)'
  <2>1. u \in Ids /\ info'[u] = info[u] /\ info[u].file \in Files
    BY <1>2 DEF Transfers, TransferInv, TaskInv
  <2>2. InStep(u)
    BY <1>2, <2>1, RetryInvAll
  <2>3. info[u].file # info[k].file
    BY <1>2, <2>1, OneBegun
  <2>4. dst'[info[u].file] = dst[info[u].file]
    BY <2>1, <2>3
  <2>. QED
    BY <2>1, <2>2, <2>4 DEF InStep, SegEnd
<1>. QED
    BY <1>1, <1>2, RetryInvAll

\* FmsUpFile::echo and FmsDownFile::echo.
LEMMA RetryFms ==
    ASSUME TransferInv, TypeOK', GateInv, PendingInv, FifoInv, RetryInv, ~replacing,
           late' = {}, Faults \subseteq {"lose"}, FmsUp \/ FmsDown
    PROVE  RetryInv'
<1>0. /\ TypeOK /\ size \in [Files -> Nat] /\ dst \in [Files -> Seq(Nat)]
      /\ info \in [Ids -> Tasks]
    BY DEF TransferInv, TypeOK
<1>1. reqs # <<>> /\ reqs' = Tail(reqs) /\ UNCHANGED <<size, tasks, info, nextId>>
    BY DEF FmsUp, FmsDown, taskVars
<1>2. PICK r : r = Head(reqs)
    OBVIOUS
<1>3. /\ r \in Requests /\ RequestInv(r) /\ Known(reqs, r)
      /\ r.id \in Ids /\ r.id \in Transfers /\ Known(tasks, r.id)
      /\ acks = <<>> /\ reqs' = <<>>
    BY <1>1, <1>2, HeadRequestPending
<1>4. Oldest(r.id)
    BY <1>3, PendingAll DEF FifoInv
<1>5. /\ r.file \in Files /\ r.file = info[r.id].file /\ r.pos \in Int
      /\ size[r.file] \in Nat
    BY <1>0, <1>3 DEF Requests, RequestInv
<1>6. RequestRetry(r)
    BY <1>3, RetryInvAll
<1>7. r.pos >= 0 => r.pos <= size[r.file] /\ Len(dst[r.file]) \in {r.pos, SegEnd(r.file, r.pos)}
    BY <1>3, <1>5, <1>6, RetryInvAll DEF RequestRetry, InStep
<1>8. \A x : ~Known(reqs', x)
    BY <1>3 DEF Known
<1>9. ASSUME NEW a, acks' = <<a>> PROVE \A x : Known(acks', x) => x = a
  <2>1. \A x : Known(<<a>>, x) => x = a
    BY DEF Known
  <2>. QED
    BY <1>9, <2>1
<1>10. CASE FmsUp
  <2>1. r.cmd = "Up"
    BY <1>2, <1>10 DEF FmsUp
  <2>2. PICK out \in UpResults(r) :
           /\ ServeUp(r, out)
           /\ acks' = Append(acks, [cmd |-> "Up", id |-> r.id, pos |-> out.pos,
                                    result |-> out.result, seg |-> NoSeg])
    BY <1>2, <1>10 DEF FmsUp
  <2>3. PICK a : a = [cmd |-> "Up", id |-> r.id, pos |-> out.pos, result |-> out.result,
                      seg |-> NoSeg]
    OBVIOUS
  <2>4. acks' = <<a>>
    BY <1>3, <2>2, <2>3
  <2>5. /\ dst'[r.file] = out.file
        /\ \A g \in Files : g # r.file => dst'[g] = dst[g]
    BY <1>0, <1>5, <2>2 DEF ServeUp
  <2>6. /\ out.result \in {"Ok", "ReachEnd"}
        /\ out.pos = Len(out.file) /\ out.pos <= size[r.file]
        /\ r.pos >= 0 => Len(out.file) = SegEnd(r.file, r.pos)
    <3>1. CASE r.pos < 0
      <4>1. out = [pos |-> 0, result |-> "Ok", file |-> <<>>, has |-> FALSE]
        BY <3>1 DEF UpResults
      <4>2. Len(out.file) = 0 /\ out.pos = 0 /\ out.result = "Ok"
        BY <4>1
      <4>. QED
        BY <1>5, <3>1, <4>2
    <3>2. CASE ~(r.pos < 0)
      <4>1. r.pos \in Nat /\ r.pos >= 0 /\ r.seg = fmReadFile(size[r.file], r.pos, SegLen)
        BY <1>5, <1>6, <2>1, <3>2 DEF RequestRetry
      <4>2. /\ r.seg.pos = r.pos /\ r.seg.result \in {"Ok", "ReachEnd"}
            /\ Len(r.seg.buf) \in Nat /\ r.pos + Len(r.seg.buf) = SegEnd(r.file, r.pos)
            /\ SegEnd(r.file, r.pos) <= size[r.file]
        <5>1. PICK f, o, seg : f = r.file /\ o = r.pos /\ seg = r.seg
          OBVIOUS
        <5>2. f \in Files /\ o \in Nat /\ o <= size[f] /\ seg = fmReadFile(size[f], o, SegLen)
          BY <1>5, <1>7, <4>1, <5>1
        <5>3. /\ seg.pos = o /\ seg.result \in {"Ok", "ReachEnd"}
              /\ Len(seg.buf) \in Nat /\ o + Len(seg.buf) = SegEnd(f, o)
              /\ SegEnd(f, o) <= size[f]
          BY <1>0, <5>2, ReadAt
        <5>. QED
          BY <5>1, <5>3
      <4>3. PICK w \in WriteOutcomes(r.file, r.seg) :
               out = [pos    |-> IF w.ret < 0 THEN r.pos ELSE r.pos + w.ret,
                      result |-> IF w.ret < 0 THEN "Failed" ELSE r.seg.result,
                      file   |-> w.file, has |-> w.has]
        BY <3>2, <4>2 DEF UpResults
      <4>4. w.ret = Len(r.seg.buf) /\ Len(w.file) = SegEnd(r.file, r.pos)
        BY <1>0, <1>5, <1>7, <4>1, WriteAt
      <4>5. out.pos = r.pos + w.ret /\ out.result = r.seg.result /\ out.file = w.file
        BY <4>2, <4>3, <4>4
      <4>6. out.pos = Len(out.file)
        BY <4>2, <4>4, <4>5
      <4>. QED
        BY <4>2, <4>4, <4>5, <4>6
    <3>. QED
      BY <3>1, <3>2
  <2>7. AnswerRetry(a)'
    BY <1>1, <1>5, <2>3, <2>5, <2>6 DEF AnswerRetry
  <2>8. info'[r.id].offset >= 0 => InStep(r.id)'
    <3>. SUFFICES ASSUME info[r.id].offset >= 0 PROVE InStep(r.id)'
      BY <1>1
    <3>1. r.pos = info[r.id].offset
      BY <1>6 DEF RequestRetry
    <3>2. Len(dst'[r.file]) = SegEnd(r.file, r.pos) /\ r.pos <= size[r.file]
      BY <1>7, <2>5, <2>6, <3>1
    <3>. QED
      BY <1>1, <1>5, <3>1, <3>2 DEF InStep, SegEnd
  <2>9. \A x : Known(acks', x) => AnswerRetry(x)'
    BY <1>9, <2>4, <2>7
  <2>. QED
    BY <1>1, <1>3, <1>4, <1>5, <1>8, <2>5, <2>8, <2>9, RetryWrite
<1>11. CASE FmsDown
  <2>1. r.cmd = "Down" /\ r.pos >= 0
    BY <1>2, <1>3, <1>11 DEF FmsDown, RequestInv
  <2>2. PICK seg \in ReadOutcomes(r.file, r.pos) :
           acks' = Append(acks, [cmd |-> "Down", id |-> r.id, pos |-> r.pos,
                                 result |-> seg.result, seg |-> seg])
    BY <1>2, <1>11 DEF FmsDown
  <2>3. PICK a : a = [cmd |-> "Down", id |-> r.id, pos |-> r.pos, result |-> seg.result,
                      seg |-> seg]
    OBVIOUS
  <2>4. acks' = <<a>>
    BY <1>3, <2>2, <2>3
  <2>5. seg = fmReadFile(size[r.file], r.pos, SegLen)
    BY <2>2 DEF ReadOutcomes
  <2>6. AnswerRetry(a)
    BY <1>5, <1>6, <2>1, <2>3, <2>5 DEF AnswerRetry, RequestRetry
  <2>7. UNCHANGED <<dst, tasks>>
    BY <1>1, <1>11 DEF FmsDown, fileVars
  <2>8. \A x : Known(acks', x) => AnswerRetry(x)
    BY <1>9, <2>4, <2>6
  <2>. QED
    BY <1>1, <1>8, <2>7, <2>8, RetryQuiet
<1>. QED
    BY <1>10, <1>11
\* FmcUpFile::ack and FmcDownFile::ack.
LEMMA RetryAck ==
    ASSUME TransferInv, TypeOK', GateInv', FifoInv, RetryInv, ~replacing, late' = {},
           Faults \subseteq {"lose"}, AckUp \/ AckDown
    PROVE  RetryInv'
<1>0. /\ TypeOK /\ size \in [Files -> Nat] /\ dst \in [Files -> Seq(Nat)]
      /\ info \in [Ids -> Tasks] /\ tasks \in Seq(Ids)
    BY DEF TransferInv, TypeOK
<1>1. PICK a, k, f : a = Head(acks) /\ k = a.id /\ f = info[k].file
    OBVIOUS
<1>2. /\ a \in Answers /\ Known(acks, a)
      /\ k \in Ids /\ k \in Transfers /\ f \in Files
      /\ Known(tasks, k) /\ Oldest(k)
      /\ acks' = <<>> /\ reqs' = <<>> /\ size' = size
    BY <1>1, HeadAnswerPending
<1>3. /\ \A t \in Ids : /\ info'[t].type = info[t].type
                        /\ info'[t].file = info[t].file
                        /\ info'[t].total = info[t].total
      /\ \A t \in Ids : t # k => info'[t] = info[t]
    BY <1>1, AckInfo
<1>4. \A t : Known(tasks', t) => Known(tasks, t)
  <2>1. tasks' = tasks \/ tasks' = EraseFirst(tasks, {k})
    BY <1>1, AckInfo DEF RemoveTask
  <2>. QED
    BY <1>0, <2>1, KnownErase
<1>5. AnswerRetry(a) /\ info[k] \in Tasks /\ size[f] \in Nat /\ info[k].offset \in Int
    BY <1>0, <1>2, RetryInvAll DEF Tasks
<1>6. (\A x : ~Known(reqs', x)) /\ (\A x : ~Known(acks', x))
    BY <1>2 DEF Known
<1>7. ASSUME info'[k].result = info[k].result, info'[k].offset >= 0 => InStep(k)',
             \A g \in Files : g # f => dst'[g] = dst[g]
      PROVE  RetryInv'
  <2>1. \A t \in Ids : /\ info'[t].type = info[t].type
                       /\ info'[t].file = info[t].file
                       /\ info'[t].result = info[t].result
    BY <1>3, <1>7
  <2>. QED
    BY <1>1, <1>2, <1>3, <1>4, <1>6, <1>7, <2>1, RetryWrite
<1>8. CASE AckUp
  <2>1. a.cmd = "Up" /\ dst' = dst
    BY <1>1, <1>8 DEF AckUp, TakeAck, fileVars
  <2>2. a.result \in {"Ok", "ReachEnd"} /\ a.pos = Len(dst[f]) /\ a.pos <= size[f]
    BY <1>1, <1>5, <2>1 DEF AnswerRetry
  <2>3. info' = [info EXCEPT ![k].offset = a.pos,
                             ![k].result = CASE a.result \in {"Ok", "ReachEnd"} -> @
                                             [] a.result = "NoSpace" -> "NoSpace"
                                             [] OTHER -> "Failed"]
    BY <1>1, <1>8 DEF AckUp
  <2>4. info'[k].offset = a.pos /\ info'[k].result = info[k].result
    BY <1>0, <1>2, <1>5, <2>2, <2>3 DEF Tasks
  <2>5. InStep(k)'
    BY <1>1, <1>2, <1>3, <2>1, <2>2, <2>4 DEF InStep
  <2>. QED
    BY <1>7, <2>1, <2>4, <2>5
<1>9. CASE AckDown
  <2>0. a.cmd = "Down"
    <3>1. TakeAck("Down")
      BY <1>9, Zenon DEF AckDown
    <3>. QED
      BY <1>1, <3>1 DEF TakeAck
  <2>1. PICK o, seg : o = info[k].offset /\ seg = a.seg
    OBVIOUS
  <2>2. /\ a.result = seg.result /\ o \in Nat
        /\ seg = fmReadFile(size[f], o, SegLen)
    BY <1>1, <1>5, <2>0, <2>1 DEF AnswerRetry
  <2>3. o <= size[f] /\ Len(dst[f]) \in {o, SegEnd(f, o)}
    BY <1>1, <1>2, <2>1, <2>2, RetryInvAll DEF InStep
  <2>4. /\ seg.result \in {"Ok", "ReachEnd"}
        /\ Len(seg.buf) \in Nat /\ o + Len(seg.buf) = SegEnd(f, o)
        /\ SegEnd(f, o) \in Nat /\ SegEnd(f, o) <= size[f]
    <3>1. TypeOK /\ f \in Files /\ o \in Nat /\ o <= size[f]
      BY <1>0, <1>2, <2>2, <2>3
    <3>. QED
      BY ONLY <2>2, <3>1, ReadAt
  <2>5. PICK w \in WriteOutcomes(f, seg) :
           /\ dst' = [dst EXCEPT ![f] = w.file]
           /\ info' = IF w.ret < 0 THEN [info EXCEPT ![k].result = "Failed"]
                                   ELSE [info EXCEPT ![k].offset = @ + w.ret]
    <3>1. Head(acks).result \in {"Ok", "ReachEnd"}
      BY <1>1, <2>2, <2>4
    <3>2. \E w \in WriteOutcomes(f, a.seg) :
             /\ dst' = [dst EXCEPT ![f] = w.file]
             /\ info' = IF w.ret < 0 THEN [info EXCEPT ![k].result = "Failed"]
                                     ELSE [info EXCEPT ![k].offset = @ + w.ret]
      BY <1>1, <1>9, <3>1, Zenon DEF AckDown
    <3>. QED
      BY <2>1, <3>2, Zenon
  <2>6. w.ret = Len(seg.buf) /\ Len(w.file) = SegEnd(f, o)
    BY <1>0, <1>2, <2>2, <2>3, WriteAt
  <2>7. info' = [info EXCEPT ![k].offset = @ + w.ret]
    BY <2>4, <2>5, <2>6
  <2>8. info'[k].offset = SegEnd(f, o) /\ info'[k].result = info[k].result
    <3>1. info'[k].offset = info[k].offset + w.ret /\ info'[k].result = info[k].result
      BY <1>0, <1>2, <1>5, <2>7 DEF Tasks
    <3>. QED
      BY <2>1, <2>4, <2>6, <3>1
  <2>9. dst'[f] = w.file /\ \A g \in Files : g # f => dst'[g] = dst[g]
    BY <1>0, <1>2, <2>5
  <2>10. InStep(k)'
    BY <1>1, <1>2, <1>3, <2>4, <2>6, <2>8, <2>9 DEF InStep
  <2>. QED
    BY <1>7, <2>8, <2>9, <2>10
<1>. QED
    BY <1>8, <1>9

\* While the client is being replaced nothing is listed and no task is touched.
LEMMA ReplacingStep ==
    ASSUME TransferInv, PendingInv, replacing, [Next]_vars, ~UiConnect
    PROVE  replacing' /\ info' = info
<1>1. tasks = <<>> /\ \A t : ~Known(tasks, t)
    BY DEF PendingInv, Known
<1>2. First = NoTask
    BY <1>1, FirstIsFront DEF TransferInv, TypeOK
<1>3. CASE Ui \/ Conn
  <2>1. FirstOf(tasks, OfType("Connect")) = NoTask
    BY <1>1 DEF FirstOf
  <2>. QED
    BY <1>3, <2>1 DEF Ui, Conn, UiTransfer, UiReconnect, UiCleanAll, HandshakeOk,
           HandshakeMismatch, Disconnect, taskVars
<1>4. CASE Client
  <2>1. ~(UserLoopConnect \/ ReqUpload \/ ReqDownload \/ ReqDownloadNoSpace)
    BY <1>2 DEF UserLoopConnect, ReqUpload, ReqDownload, ReqDownloadNoSpace, Serving
  <2>2. ~(AckUp \/ AckDown)
    BY <1>1 DEF AckUp, AckDown
  <2>3. CASE AckGone
    BY <2>3 DEF AckGone, TakeAck
  <2>. QED
    BY <1>4, <2>1, <2>2, <2>3
       DEF Client, UserStart, Timer, UserLoopIdle, taskVars, connVars
<1>5. CASE Server \/ (\E f \in Files : GrowSource(f)) \/ UNCHANGED vars
    BY <1>5 DEF Server, FmsUp, FmsDown, FmsLate, GrowSource, vars, connVars, taskVars
<1>. QED
    BY <1>3, <1>4, <1>5 DEF Next

LEMMA RetryReplaced ==
    ASSUME TypeOK', RetryInv, PendingInv', replacing', late' = {}, info' = info
    PROVE  RetryInv'
<1>1. tasks' = <<>> /\ \A t : ~Known(<<>>, t)
    BY DEF PendingInv, Known
<1>2. RetryNeverFails'
    BY RetryInvAll DEF RetryNeverFails
<1>. QED
    BY <1>1, <1>2, RetryInvAll

\* Every step keeps the invariant of retried transfers.
LEMMA RetryNext ==
    ASSUME TransferInv, TypeOK', GateInv, GateInv', PendingInv, PendingInv', FifoInv,
           RetryInv, Faults \subseteq {"lose"}, [Next]_vars
    PROVE  RetryInv'
<1>0. TypeOK /\ tasks \in Seq(Ids) /\ nextId \in Nat \ {0}
    BY DEF TransferInv, TypeOK
<1>1. late = {} /\ late' = {}
  <2>1. "late" \notin Faults /\ late = {}
    BY RetryInvAll
  <2>. QED
    BY <2>1, NothingLate
<1>a. CASE UiCleanAll
  <2>1. replacing' /\ info' = info
    BY <1>a DEF UiCleanAll
  <2>. QED
    BY <1>1, <2>1, RetryReplaced
<1>b. CASE replacing /\ ~UiConnect
    BY <1>1, <1>b, ReplacingStep, RetryReplaced
<1>2. CASE ~replacing /\ (ReqUpload \/ ReqDownload)
    BY <1>1, <1>2, RetryReq
<1>3. CASE ~replacing /\ (FmsUp \/ FmsDown)
    BY <1>1, <1>3, RetryFms
<1>4. CASE ~replacing /\ (AckUp \/ AckDown)
    BY <1>1, <1>4, RetryAck
<1>5. nextId <= MaxTasks => nextId \in Ids
    BY <1>0, ConstAssumption DEF Ids
<1>6. <<>> \in Seq(Ids) /\ \A y : ~Known(<<>>, y)
    BY DEF Known
<1>7. CASE \E f \in Files : UiTransfer(f)
  <2>. DEFINE kept == CleanError(tasks, Ids \ OkTasks, OfType("Connect"))
  <2>1. kept \in Seq(Ids) /\ \A t : Known(kept, t) => Known(tasks, t)
    BY <1>0, EraseFirstType, KnownErase DEF CleanError
  <2>2. PICK ty, f, n : info' = [info EXCEPT ![nextId] = Task(ty, f, n)]
    BY <1>7 DEF UiTransfer
  <2>3. /\ nextId <= MaxTasks /\ ~replacing
        /\ tasks' = Add(kept, Prios(info'), nextId)
        /\ UNCHANGED <<size, dst, reqs, acks>>
    BY <1>7 DEF UiTransfer, netVars, fileVars
  <2>. HIDE DEF kept
  <2>4. \A t : Known(tasks', t) => Known(tasks, t) \/ t = nextId
    BY <1>5, <2>1, <2>3, KnownAdd, PriosType
  <2>. QED
    BY <1>1, <1>5, <2>2, <2>3, <2>4, RetryAdd
<1>8. CASE UiReconnect \/ UiConnect
  <2>1. PICK ty, f, n : info' = [info EXCEPT ![nextId] = Task(ty, f, n)]
    BY <1>8 DEF UiReconnect, UiConnect, ResetClient
  <2>2. /\ nextId <= MaxTasks /\ reqs' = <<>> /\ acks' = <<>>
        /\ tasks' = Add(tasks, Prios(info'), nextId)
        /\ UNCHANGED <<size, dst>>
    BY <1>8 DEF UiReconnect, UiConnect, ResetClient, fileVars
  <2>3. \A t : Known(tasks', t) => Known(tasks, t) \/ t = nextId
    BY <1>0, <1>5, <2>2, KnownAdd, PriosType
  <2>. QED
    BY <1>1, <1>5, <1>6, <2>1, <2>2, <2>3, RetryAdd
<1>9. CASE ~replacing /\ (\/ HandshakeOk \/ Disconnect \/ UserStart \/ Timer
                          \/ UserLoopIdle \/ UserLoopConnect \/ UNCHANGED vars)
  <2>1. UNCHANGED <<size, dst, info>> /\ ~replacing
    BY <1>9 DEF HandshakeOk, Disconnect, UserStart, Timer, UserLoopIdle, UserLoopConnect,
                Serving, vars, fileVars, taskVars
  <2>2. \A t : Known(tasks', t) => Known(tasks, t)
    BY <1>0, <1>9, KnownErase
       DEF HandshakeOk, RemoveTask, Disconnect, UserStart, Timer, UserLoopIdle,
           UserLoopConnect, Serving, vars, taskVars
  <2>3. reqs' = reqs \/ reqs' = <<>>
    BY <1>9 DEF HandshakeOk, Disconnect, UserStart, Timer, UserLoopIdle, UserLoopConnect,
                Serving, vars, netVars
  <2>4. acks' = acks \/ acks' = <<>>
    BY <1>9 DEF HandshakeOk, Disconnect, UserStart, Timer, UserLoopIdle, UserLoopConnect,
                Serving, vars, netVars
  <2>5. /\ \A r : Known(reqs', r) => Known(reqs, r)
        /\ \A a : Known(acks', a) => Known(acks, a)
    BY <1>6, <2>3, <2>4
  <2>. QED
    BY <1>1, <2>1, <2>2, <2>5, RetryQuiet
<1>10. ~(HandshakeMismatch \/ ReqDownloadNoSpace \/ FmsLate \/ \E f \in Files : GrowSource(f))
  <2>1. "mismatch" \notin Faults /\ "nospace" \notin Faults /\ "grow" \notin Faults
    OBVIOUS
  <2>. QED
    BY <1>1, <2>1 DEF HandshakeMismatch, ReqDownloadNoSpace, FmsLate, GrowSource
<1>11. CASE ~replacing /\ AckGone
  <2>1. acks # <<>> /\ ~Known(tasks, Head(acks).id)
    BY <1>11 DEF AckGone, TakeAck
  <2>. QED
    BY <1>11, <2>1, HeadIsPending DEF TransferInv, TypeOK, PendingInv
<1>. QED
    BY <1>a, <1>b, <1>2, <1>3, <1>4, <1>7, <1>8, <1>9, <1>10, <1>11
       DEF Next, Ui, Conn, Client, Server

\* No transfer has begun initially.
LEMMA RetryInit == Init => RetryInv
<1>. SUFFICES ASSUME Init PROVE RetryInv
    OBVIOUS
<1>1. \A x : ~Known(<<>>, x)
    BY DEF Known
<1>2. RetryNeverFails
    BY DEF Init, InitTask, Task, RetryNeverFails
<1>3. Transfers = {}
    BY DEF Init, InitTask, Transfers, Task
<1>4. late = {} /\ reqs = <<>> /\ acks = <<>>
    BY DEF Init
<1>. QED
    BY <1>1, <1>2, <1>3, <1>4, RetryInvAll

\* A connection that breaks at any moment, any number of times, fails no task:
\* the segment that is sent again is recognised by fmWriteFile as the tail of
\* the destination.
THEOREM RetriesNeverFail == Spec => [](~(Faults \subseteq {"lose"}) \/ RetryNeverFails)
<1>. DEFINE Bad == ~(Faults \subseteq {"lose"})
<1>1. Init => EngineInv /\ (Bad \/ RetryInv)
    BY EngineInit, RetryInit
<1>2. EngineInv /\ (Bad \/ RetryInv) /\ [Next]_vars => (EngineInv /\ (Bad \/ RetryInv))'
  <2>. SUFFICES ASSUME EngineInv, Bad \/ RetryInv, [Next]_vars
                PROVE  (EngineInv /\ (Bad \/ RetryInv))'
    OBVIOUS
  <2>1. EngineInv'
    BY EngineNext
  <2>2. CASE ~Bad /\ RetryInv
    <3>1. Faults \subseteq {"lose"}
      BY <2>2
    <3>2. RetryInv'
      BY <2>1, <2>2, <3>1, RetryNext DEF EngineInv, TransferInv
    <3>. QED
      BY <2>1, <3>2
  <2>. QED
    BY <2>1, <2>2
<1>3. Bad \/ RetryInv => Bad \/ RetryNeverFails
    BY DEF RetryInv
<1>. QED
    BY <1>1, <1>2, <1>3, PTL DEF Spec
===========================================================================
