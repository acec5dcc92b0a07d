---------------------------- MODULE FileTransfer ----------------------------
(***************************************************************************)
(* File transfer between the PC client and the peer's server: the engine   *)
(* FileManClient with FmcUpFile and FmcDownFile, the server's FmsUpFile    *)
(* and FmsDownFile, the task list of FmScheduler, the connection under     *)
(* them (lost, re-established by the UI through a NEW FileManClient) and   *)
(* the UI operations that touch any of these.                              *)
(*                                                                         *)
(* One action is one message handler of one thread: the client's message   *)
(* loop, the server's message loop, the UI thread.  Requests and answers   *)
(* travel in order over the current connection; when it dies, answers are  *)
(* lost and requests are lost or, with the fault "late", still reach the   *)
(* server later.                                                           *)
(***************************************************************************)
EXTENDS Integers, Sequences, FmFileOp, FmTaskList

CONSTANTS
    UpFiles,       \* files the client may upload (destination: server)
    DownFiles,     \* files the client may download (destination: client)
    SegLen,        \* FILE_MAN_SEND/RECV_FILE_SEGMENT_MAX_LEN, in blocks
    MaxSize,       \* bound: blocks of a source file
    MaxTasks,      \* bound: tasks ever created (idxBase_)
    MaxReconnects, \* bound: reconnect requests queued for the UI
    Faults         \* which faults of the environment happen

FaultKinds == {"lose",     \* the connection may break
               "late",     \* ... and its requests may be served afterwards
               "open",     \* fopen may fail
               "short",    \* fwrite may store less than asked
               "nospace",  \* the free-space checks may fail
               "mismatch", \* the visit code may be refused
               "grow"}     \* a source may grow while it is transferred

ASSUME ConstAssumption ==
    /\ UpFiles \cap DownFiles = {}
    /\ SegLen \in Nat \ {0}
    /\ MaxSize \in Nat
    /\ MaxTasks \in Nat
    /\ MaxReconnects \in Nat
    /\ Faults \subseteq FaultKinds

Files == UpFiles \cup DownFiles
Ids   == 1 .. MaxTasks
NoFile == "NoFile"

VARIABLES
    size,     \* source files: their length
    dst,      \* destination files: their blocks
    has,      \* destination files: does the file exist
    tasks,    \* FmScheduler::tasks_
    info,     \* the task objects, by id
    nextId,   \* FmScheduler::idxBase_
    phase,    \* the client's socket: "connecting", "up", "dead"
    starting, \* USER_START is queued
    canSend,  \* FileManClient::canSend_
    slow,     \* maxPacketNeedTime_ # 0
    replacing, \* dataToEngine has cleared the list, the old client still runs
    loops,    \* USER_LOOP messages in the client's queue
    reqs,     \* requests on their way to the server
    acks,     \* answers on their way back
    late,     \* requests of dead connections the server may still get
    needReconnect, \* fmscNeedReconnect calls queued for the UI thread
    done      \* history: transfers whose task was removed as complete

netVars   == <<reqs, acks, late>>
fileVars  == <<dst, has>>
taskVars  == <<tasks, info, nextId>>
connVars  == <<phase, starting, slow, replacing>>
vars == <<size, fileVars, taskVars, connVars, canSend, loops, netVars,
          needReconnect, done>>

-----------------------------------------------------------------------------
(* Tasks                                                                   *)

Task(type, f, total) ==
    [type |-> type, file |-> f, offset |-> -1, total |-> total, result |-> "Ok"]

Tasks == [type: {"None", "Connect", "Upload", "Download"},
          file: Files \cup {NoFile},
          offset: Int, total: Nat,
          result: {"Ok", "Failed", "NoSpace", "VisitCodeMismatch"}]

\* FmTask::getPriority of the tasks of this module.
Prio(x) == CASE x.type = "Connect" -> 1
             [] x.type # "Connect" -> IF x.total > SegLen THEN 60 ELSE 20

Prios(tab)    == [t \in Ids |-> Prio(tab[t])]
OfType(ty)    == {t \in Ids : info[t].type = ty}
OkTasks       == {t \in Ids : info[t].result = "Ok"}

\* Every task of this module is one for the remote engine.
First == GetFirst(tasks, OkTasks, Ids)

Transfers == {t \in Ids : info[t].type \in {"Upload", "Download"}}

-----------------------------------------------------------------------------
(* Messages                                                                *)

Segs == [result: {"Ok", "ReachEnd", "SeekExceed", "NotExist"}, pos: Nat,
         buf: Seq(Nat)]
NoSeg == [result |-> "Ok", pos |-> 0, buf |-> <<>>]

Requests == [cmd: {"Up", "Down"}, id: Ids, file: Files, pos: Int, seg: Segs]
Answers  == [cmd: {"Up", "Down"}, id: Ids, pos: Int,
             result: {"Ok", "ReachEnd", "SeekExceed", "NotExist", "NoSpace",
                      "Failed"},
             seg: Segs]

\* The outcomes of fmReadFile: the segment, or what an fopen that fails sends.
ReadOutcomes(f, pos) ==
    {fmReadFile(size[f], pos, SegLen)} \cup
    (IF "open" \in Faults THEN {fmReadFileNoOpen(pos)} ELSE {})

\* How many blocks fwrite may store of a segment.
Wrote(seg) == IF "short" \in Faults THEN 0 .. Len(seg.buf) ELSE {Len(seg.buf)}

\* The outcomes of fmWriteFile on destination f: return value, contents, and
\* whether the file exists ("ab+" creates it even when the write is refused).
WriteOutcomes(f, seg) ==
    {[ret |-> fmWriteFile(dst[f], seg, w).ret,
      file |-> fmWriteFile(dst[f], seg, w).file, has |-> TRUE] : w \in Wrote(seg)}
    \cup (IF "open" \in Faults
          THEN {[ret |-> -1, file |-> dst[f], has |-> has[f]]} ELSE {})

Unlink(f) == /\ dst' = [dst EXCEPT ![f] = <<>>]
             /\ has' = [has EXCEPT ![f] = FALSE]

-----------------------------------------------------------------------------
(* Initially the user has asked for a connection (FileManDlg::dataToEngine): *)
(* task 1 is the Connect task.  A destination may hold an older file.      *)

InitTask == [t \in Ids |-> IF t = 1 THEN Task("Connect", NoFile, 0)
                                    ELSE Task("None", NoFile, 0)]

OldFiles == {<<>>, <<OldBlock>>, <<OldBlock, OldBlock>>}

Init ==
    /\ size \in [Files -> 0 .. MaxSize]
    /\ dst \in [Files -> OldFiles]
    /\ has = [f \in Files |-> dst[f] # <<>>]
    /\ MaxTasks >= 1
    /\ tasks = <<1>> /\ info = InitTask /\ nextId = 2
    /\ phase = "connecting" /\ starting = FALSE /\ slow = FALSE
    /\ replacing = FALSE
    /\ canSend = FALSE /\ loops = 0
    /\ reqs = <<>> /\ acks = <<>> /\ late = {}
    /\ needReconnect = 0
    /\ done = {}

-----------------------------------------------------------------------------
(* The user interface thread                                               *)

\* FileManSubDlg::transfer for one selected file: clean one old error, queue
\* the task, wake the engine.
UiTransfer(f) ==
    /\ ~replacing
    /\ nextId <= MaxTasks
    /\ LET type == IF f \in UpFiles THEN "Upload" ELSE "Download"
           tab  == [info EXCEPT ![nextId] = Task(type, f, size[f])]
           kept == CleanError(tasks, Ids \ OkTasks, OfType("Connect"))
       IN  /\ info' = tab
           /\ tasks' = Add(kept, Prios(tab), nextId)
    /\ nextId' = nextId + 1
    /\ loops' = loops + 1
    /\ UNCHANGED <<size, fileVars, connVars, canSend, netVars, needReconnect, done>>

\* Requests of the connection that is given up: lost, or served later.
Abandon == late' = late \cup (IF "late" \in Faults
                              THEN {reqs[i] : i \in 1 .. Len(reqs)} ELSE {})

\* FileManDlg::resetFileManClient: the old client is destroyed, a new one
\* with a new connection takes over the task list `kept' and a Connect task
\* is queued.  posts: USER_LOOPs the caller posts to the new client.
ResetClient(kept, posts) ==
    /\ nextId <= MaxTasks
    /\ LET tab == [info EXCEPT ![nextId] = Task("Connect", NoFile, 0)]
       IN  /\ info' = tab
           /\ tasks' = Add(kept, Prios(tab), nextId)
    /\ nextId' = nextId + 1
    /\ phase' = "connecting" /\ starting' = FALSE /\ slow' = FALSE
    /\ replacing' = FALSE
    /\ canSend' = FALSE
    /\ loops' = posts
    /\ Abandon /\ reqs' = <<>> /\ acks' = <<>>

\* FileManSubDlg::fmscNeedReconnect, run from the UI's message queue.
UiReconnect ==
    /\ ~replacing
    /\ needReconnect > 0
    /\ needReconnect' = needReconnect - 1
    /\ ResetClient(tasks, 1)
    /\ UNCHANGED <<size, fileVars, done>>

\* FileManDlg::dataToEngine, the user connects anew: cleanAll drops all tasks
\* while the old client still runs,
UiCleanAll ==
    /\ ~replacing
    /\ nextId <= MaxTasks
    /\ tasks' = <<>> /\ replacing' = TRUE
    /\ UNCHANGED <<size, fileVars, info, nextId, phase, starting, slow, canSend, loops,
                   netVars, needReconnect, done>>

\* and resetFileManClient ends it, when its queue is drained.
UiConnect ==
    /\ replacing
    /\ ResetClient(tasks, 0)
    /\ UNCHANGED <<size, fileVars, needReconnect, done>>

-----------------------------------------------------------------------------
(* The connection                                                          *)

\* FileManClient::onReadExchangeSymSecurity, visit code accepted: the first
\* Connect task is removed and USER_START posted.  While dataToEngine has no such
\* task in the list, a refused code does the same.
HandshakeOk ==
    /\ phase = "connecting"
    /\ phase' = "up"
    /\ starting' = TRUE
    /\ tasks' = IF FirstOf(tasks, OfType("Connect")) = NoTask THEN tasks
                ELSE RemoveTask(tasks, FirstOf(tasks, OfType("Connect")))
    /\ UNCHANGED <<size, fileVars, info, nextId, slow, replacing, canSend, loops, netVars,
                   needReconnect, done>>

\* The same handler, visit code refused: the Connect task fails, DISCONNECT is
\* posted ahead of USER_START, and nothing tries again.
HandshakeMismatch ==
    /\ "mismatch" \in Faults
    /\ phase = "connecting"
    /\ FirstOf(tasks, OfType("Connect")) # NoTask
    /\ phase' = "dead"
    /\ info' = [info EXCEPT ![FirstOf(tasks, OfType("Connect"))].result =
                                "VisitCodeMismatch"]
    /\ UNCHANGED <<size, fileVars, tasks, nextId, starting, slow, replacing, canSend, loops,
                   netVars, needReconnect, done>>

\* FileManClient::onUserStart
UserStart ==
    /\ starting
    /\ starting' = FALSE
    /\ IF phase = "up" THEN canSend' = TRUE /\ loops' = loops + 1
                       ELSE UNCHANGED <<canSend, loops>>
    /\ UNCHANGED <<size, fileVars, taskVars, phase, slow, replacing, netVars,
                   needReconnect, done>>

\* The connection breaks and JyTcpClient::onDisconnect runs: the socket is
\* dropped, canSend_ keeps its value, nothing reconnects by itself.
Disconnect ==
    /\ "lose" \in Faults
    /\ phase # "dead"
    /\ phase' = "dead"
    /\ Abandon /\ reqs' = <<>> /\ acks' = <<>>
    /\ UNCHANGED <<size, fileVars, taskVars, starting, slow, replacing, canSend, loops,
                   needReconnect, done>>

\* FileManClient::onTimer: a task waits and the last answer is overdue.  Only
\* a client that once waited a whole second for an answer ever asks.
Timer ==
    /\ First # NoTask
    /\ slow
    /\ needReconnect < MaxReconnects
    /\ needReconnect' = needReconnect + 1
    /\ UNCHANGED <<size, fileVars, taskVars, connVars, canSend, loops, netVars, done>>

-----------------------------------------------------------------------------
(* FileManClient::onUserLoop                                               *)

TakeLoop == loops > 0 /\ loops' = loops - 1

\* Not connected, an answer outstanding, or nothing to do.
UserLoopIdle ==
    /\ TakeLoop
    /\ phase # "up" \/ ~canSend \/ First = NoTask
    /\ UNCHANGED <<size, fileVars, taskVars, connVars, canSend, netVars,
                   needReconnect, done>>

\* Mutant: canSend_ is not cleared.
ServingKeepsGate(type) ==
    /\ TakeLoop
    /\ phase = "up" /\ canSend /\ First # NoTask
    /\ info[First].type = type
    /\ UNCHANGED <<size, connVars, tasks, nextId, acks, late, needReconnect, done,
                   canSend>>

\* One task is served; canSend_ is cleared even when nothing was sent.
Serving(type) ==
    /\ TakeLoop
    /\ phase = "up" /\ canSend /\ First # NoTask
    /\ info[First].type = type
    /\ canSend' = FALSE
    /\ UNCHANGED <<size, connVars, tasks, nextId, acks, late, needReconnect, done>>

\* A Connect task that was left in the list has no case in the switch.
UserLoopConnect ==
    /\ Serving("Connect")
    /\ UNCHANGED <<fileVars, info, reqs>>

\* Mutant: the first request reads the file too.
ReqUploadAlwaysReads ==
    /\ Serving("Upload")
    /\ LET x == info[First] IN
       \E seg \in ReadOutcomes(x.file, x.offset) :
          reqs' = Append(reqs, [cmd |-> "Up", id |-> First, file |-> x.file,
                                pos |-> x.offset, seg |-> seg])
    /\ UNCHANGED <<fileVars, info>>

\* FmcUpFile::req
ReqUpload ==
    /\ Serving("Upload")
    /\ LET x == info[First] IN
       \E seg \in IF x.offset < 0 THEN {NoSeg} ELSE ReadOutcomes(x.file, x.offset) :
          reqs' = Append(reqs, [cmd |-> "Up", id |-> First, file |-> x.file,
                                pos |-> x.offset, seg |-> seg])
    /\ UNCHANGED <<fileVars, info>>

\* FmcDownFile::req: the first request clears the destination.
ReqDownload ==
    /\ Serving("Download")
    /\ LET x   == info[First]
           pos == IF x.offset < 0 THEN 0 ELSE x.offset
       IN  /\ IF x.offset < 0 THEN Unlink(x.file) ELSE UNCHANGED fileVars
           /\ info' = [info EXCEPT ![First].offset = pos]
           /\ reqs' = Append(reqs, [cmd |-> "Down", id |-> First, file |-> x.file,
                                    pos |-> pos, seg |-> NoSeg])

\* FmcDownFile::req with a full disk: the task fails and no request is sent.
ReqDownloadNoSpace ==
    /\ "nospace" \in Faults
    /\ Serving("Download")
    /\ info[First].offset < 0
    /\ Unlink(info[First].file)
    /\ info' = [info EXCEPT ![First].result = "NoSpace"]
    /\ UNCHANGED reqs

-----------------------------------------------------------------------------
(* The server                                                              *)

\* Mutant: the result of fmWriteFile is added without looking at it.
UpResultsUnchecked(r) ==
    IF r.pos < 0
    THEN {[pos |-> 0, result |-> "Ok", file |-> <<>>, has |-> FALSE]}
    ELSE {[pos |-> r.pos + w.ret, result |-> r.seg.result,
           file |-> w.file, has |-> w.has] : w \in WriteOutcomes(r.file, r.seg)}

\* The answers of FmsUpFile::echo to request r, with the destination after it.
UpResults(r) ==
    IF r.pos < 0
    THEN {[pos |-> 0, result |-> "Ok", file |-> <<>>, has |-> FALSE]} \cup
         (IF "nospace" \in Faults
          THEN {[pos |-> r.pos, result |-> "NoSpace",
                 file |-> dst[r.file], has |-> has[r.file]]} ELSE {})
    ELSE IF r.seg.result \in {"Ok", "ReachEnd"}
    THEN {[pos    |-> IF w.ret < 0 THEN r.pos ELSE r.pos + w.ret,
           result |-> IF w.ret < 0 THEN "Failed" ELSE r.seg.result,
           file   |-> w.file, has |-> w.has] : w \in WriteOutcomes(r.file, r.seg)}
    ELSE {[pos |-> r.pos, result |-> r.seg.result,
           file |-> dst[r.file], has |-> has[r.file]]}

ServeUp(r, out) ==
    /\ dst' = [dst EXCEPT ![r.file] = out.file]
    /\ has' = [has EXCEPT ![r.file] = out.has]

\* FmsUpFile::echo for the client's connection.
FmsUp ==
    /\ reqs # <<>> /\ Head(reqs).cmd = "Up"
    /\ reqs' = Tail(reqs)
    /\ \E out \in UpResults(Head(reqs)) :
          /\ ServeUp(Head(reqs), out)
          /\ acks' = Append(acks, [cmd |-> "Up", id |-> Head(reqs).id,
                                   pos |-> out.pos, result |-> out.result,
                                   seg |-> NoSeg])
    /\ UNCHANGED <<size, taskVars, connVars, canSend, loops, late, needReconnect, done>>

\* FmsDownFile::echo for the client's connection.
FmsDown ==
    /\ reqs # <<>> /\ Head(reqs).cmd = "Down"
    /\ reqs' = Tail(reqs)
    /\ \E seg \in ReadOutcomes(Head(reqs).file, Head(reqs).pos) :
          acks' = Append(acks, [cmd |-> "Down", id |-> Head(reqs).id,
                                pos |-> Head(reqs).pos, result |-> seg.result,
                                seg |-> seg])
    /\ UNCHANGED <<size, fileVars, taskVars, connVars, canSend, loops, late,
                   needReconnect, done>>

\* A request of a connection the client has given up is served; its answer
\* goes nowhere.
FmsLate ==
    \E r \in late :
       /\ late' = late \ {r}
       /\ IF r.cmd = "Up" THEN \E out \in UpResults(r) : ServeUp(r, out)
                          ELSE UNCHANGED fileVars
       /\ UNCHANGED <<size, taskVars, connVars, canSend, loops, reqs, acks,
                      needReconnect, done>>

-----------------------------------------------------------------------------
(* FileManClient::onRead                                                   *)

\* Mutant: the handler posts no USER_LOOP.
TakeAckNoPost(cmd) ==
    /\ acks # <<>> /\ Head(acks).cmd = cmd
    /\ acks' = Tail(acks)
    /\ canSend' = TRUE
    /\ \E s \in {slow, TRUE} : slow' = s
    /\ UNCHANGED <<size, nextId, phase, starting, replacing, reqs, late, needReconnect, loops>>

\* Mutant: the handler does not open the gate.
TakeAckShut(cmd) ==
    /\ acks # <<>> /\ Head(acks).cmd = cmd
    /\ acks' = Tail(acks)
    /\ loops' = loops + 1
    /\ \E s \in {slow, TRUE} : slow' = s
    /\ UNCHANGED <<size, nextId, phase, starting, replacing, reqs, late, needReconnect, canSend>>

\* Common to all answers: the gate opens, USER_LOOP is posted, and the answer
\* may have taken a second or more.
TakeAck(cmd) ==
    /\ acks # <<>> /\ Head(acks).cmd = cmd
    /\ acks' = Tail(acks)
    /\ canSend' = TRUE
    /\ loops' = loops + 1
    /\ \E s \in {slow, TRUE} : slow' = s
    /\ UNCHANGED <<size, nextId, phase, starting, replacing, reqs, late, needReconnect>>

Finish(t) == tasks' = RemoveTask(tasks, t) /\ done' = done \cup {t}
GoOn      == UNCHANGED <<tasks, done>>

\* FmcUpFile::ack
AckUp ==
    /\ TakeAck("Up")
    /\ LET a == Head(acks) IN
       /\ Known(tasks, a.id)
       /\ info' = [info EXCEPT
             ![a.id].offset = a.pos,
             ![a.id].result = CASE a.result \in {"Ok", "ReachEnd"} -> @
                                [] a.result = "NoSpace" -> "NoSpace"
                                [] OTHER -> "Failed"]
       /\ IF a.result = "ReachEnd" THEN Finish(a.id) ELSE GoOn
    /\ UNCHANGED fileVars

\* FmcDownFile::ack: the segment is written locally before it counts.
AckDown ==
    /\ TakeAck("Down")
    /\ LET a == Head(acks)
           f == info[a.id].file IN
       /\ Known(tasks, a.id)
       /\ \/ /\ a.result \in {"Ok", "ReachEnd"}
             /\ \E w \in WriteOutcomes(f, a.seg) :
                  /\ dst' = [dst EXCEPT ![f] = w.file]
                  /\ has' = [has EXCEPT ![f] = w.has]
                  /\ info' = IF w.ret < 0
                             THEN [info EXCEPT ![a.id].result = "Failed"]
                             ELSE [info EXCEPT ![a.id].offset = @ + w.ret]
                  /\ IF w.ret >= 0 /\ a.result = "ReachEnd"
                     THEN Finish(a.id) ELSE GoOn
          \/ /\ a.result \notin {"Ok", "ReachEnd"}
             /\ info' = [info EXCEPT ![a.id].result = "Failed"]
             /\ GoOn
             /\ UNCHANGED fileVars

\* The answer of a task that dataToEngine has dropped: both handlers find none.
AckGone ==
    /\ \E cmd \in {"Up", "Down"} : TakeAck(cmd)
    /\ ~Known(tasks, Head(acks).id)
    /\ UNCHANGED <<fileVars, tasks, info, done>>

-----------------------------------------------------------------------------
\* Some other program appends to a source file.
GrowSource(f) ==
    /\ "grow" \in Faults
    /\ size[f] < MaxSize
    /\ size' = [size EXCEPT ![f] = @ + 1]
    /\ UNCHANGED <<fileVars, taskVars, connVars, canSend, loops, netVars,
                   needReconnect, done>>

Ui     == (\E f \in Files : UiTransfer(f)) \/ UiReconnect \/ UiCleanAll \/ UiConnect
Conn   == HandshakeOk \/ HandshakeMismatch \/ Disconnect
Client == \/ UserStart \/ Timer \/ UserLoopIdle \/ UserLoopConnect
          \/ ReqUpload \/ ReqDownload \/ ReqDownloadNoSpace
          \/ AckUp \/ AckDown \/ AckGone
Server == FmsUp \/ FmsDown \/ FmsLate

Next == Ui \/ Conn \/ Client \/ Server \/ \E f \in Files : GrowSource(f)

Spec == Init /\ [][Next]_vars

-----------------------------------------------------------------------------
(* Properties                                                              *)

\* Types of the variables: the messages, the task objects and the list are
\* what the handlers read them as.
TypeOK ==
    /\ size \in [Files -> Nat]
    /\ dst \in [Files -> Seq(Nat)]
    /\ has \in [Files -> BOOLEAN]
    /\ tasks \in Seq(Ids)
    /\ info \in [Ids -> Tasks]
    /\ nextId \in Nat \ {0}
    /\ phase \in {"connecting", "up", "dead"}
    /\ starting \in BOOLEAN /\ canSend \in BOOLEAN /\ slow \in BOOLEAN
    /\ replacing \in BOOLEAN
    /\ loops \in Nat /\ needReconnect \in Nat
    /\ reqs \in Seq(Requests) /\ acks \in Seq(Answers)
    /\ late \subseteq Requests
    /\ done \subseteq Ids

IsOld(file)       == \A i \in 1 .. Len(file) : file[i] = OldBlock
IsSourceUpTo(file, n) == Len(file) <= n /\ \A i \in 1 .. Len(file) : file[i] = i

\* A destination is the old file, untouched, or a prefix of the source: no
\* order of retries, reconnects, late requests, short writes, failed opens or
\* growing sources ever leaves a mixture, a gap or a block written twice.
NoMixture == \A f \in Files : IsOld(dst[f]) \/ IsSourceUpTo(dst[f], size[f])

\* canSend_ serialises the protocol: at most one request or answer is on the
\* wire, none while the gate is open or about to be opened by USER_START.
OneOutstanding ==
    /\ Len(reqs) + Len(acks) <= 1
    /\ canSend \/ starting => reqs = <<>> /\ acks = <<>>

\* A request on the wire has its task in the list, unless the user has just asked
\* for a new connection: nothing else that removes tasks, cleanError of a new
\* transfer, the handshake, a reconnect or another answer, takes that one away, so
\* FmcUpFile::ack and FmcDownFile::ack find none only in a client that is being
\* replaced.
AnswerHasTask ==
    ~replacing =>
        /\ \A i \in 1 .. Len(reqs) : Known(tasks, reqs[i].id)
        /\ \A i \in 1 .. Len(acks) : Known(tasks, acks[i].id)

\* The task list is ordered by getPriority in every state, although the engine,
\* the UI and the handshake insert and remove concurrently and tasks finish out
\* of order.
PriorityOrder == Sorted(tasks, Prios(info))

\* No lost wakeup: a connected client with an open gate and a task to serve
\* has a USER_LOOP queued (every post in ack, onUserStart and notifyEngine is
\* needed for this).
NoLostWakeup == phase = "up" /\ canSend /\ First # NoTask => loops > 0

Idle == phase = "up" /\ ~canSend /\ ~starting /\ reqs = <<>> /\ acks = <<>>

\* The gate never stays closed with nothing in flight, except behind a Connect
\* task that a second reset left in the list (without "nospace"), and in a client
\* that is being replaced.
GateReopens == Idle /\ ~replacing => \E t \in OfType("Connect") : Known(tasks, t)

\* A transfer whose task was removed as complete left the whole listed file at
\* its destination, and it stays there until the user transfers that file again
\* (without "late" and "short").
DoneIsWhole ==
    \A t \in done :
       LET f == info[t].file IN
       (\A u \in Ids : info[u].file = f => u <= t) =>
          /\ has[f]
          /\ info[t].total <= Len(dst[f])
          /\ IsSourceUpTo(dst[f], size[f])

\* A lost connection alone never fails a transfer: the retried segment is
\* recognised as already written (only "lose").
RetryNeverFails == \A t \in Ids : info[t].result = "Ok"

\* No handler ever moves a transfer back: offset_ only grows.
OffsetNeverBack ==
    [][\A t \in Ids : t < nextId => info[t].offset <= info'[t].offset]_vars

\* Fairness: the message loops of both ends handle what is queued, the timer
\* fires, the UI thread drains its queue and a connection attempt ends.
Fairness ==
    /\ WF_vars(UserStart)
    /\ WF_vars(UserLoopIdle \/ UserLoopConnect \/ ReqUpload
               \/ ReqDownload \/ ReqDownloadNoSpace)
    /\ WF_vars(FmsUp \/ FmsDown)
    /\ WF_vars(AckUp \/ AckDown \/ AckGone)
    /\ WF_vars(HandshakeOk \/ HandshakeMismatch)
    /\ WF_vars(Timer)
    /\ WF_vars(UiReconnect \/ UiConnect)

FairSpec == Spec /\ Fairness

\* Why a listed transfer may wait for the user for ever: a failed task in front
\* of it, a dead connection of a client that never measured a slow answer, a
\* Connect task in front of a connected client, or (bound) no task id left.
WaitsForUser ==
    \/ tasks # <<>> /\ tasks[1] \notin OkTasks
    \/ phase = "dead" /\ ~slow
    \/ phase = "up" /\ tasks # <<>> /\ info[tasks[1]].type = "Connect"
    \/ phase = "dead" /\ nextId > MaxTasks

\* Every transfer ends, or the engine waits for the user in one of these ways
\* (task 1 is the Connect task of Init).
TransferEnds ==
    \A t \in 2 .. MaxTasks : (Known(tasks, t) /\ t \in Transfers)
                      ~> (~Known(tasks, t) \/ WaitsForUser)

-----------------------------------------------------------------------------
(* The inductive invariant behind NoMixture.                               *)

\* The file was cleared for a transfer: what it holds came from the source.
Touched(f) == IsSourceUpTo(dst[f], size[f])

\* The segment is a slice of a source that has n blocks.
IsSlice(seg, n) ==
    /\ seg.pos + Len(seg.buf) <= n
    /\ \A i \in 1 .. Len(seg.buf) : seg.buf[i] = seg.pos + i

\* Task objects: ids from idxBase_ on are unused; a transfer has a file, and
\* once its offset_ is set the destination was cleared.
TaskInv ==
    \A t \in Ids :
       /\ t >= nextId => info[t].type = "None"
       /\ t \in Transfers => info[t].file \in Files
       /\ t \in Transfers /\ info[t].offset >= 0 => Touched(info[t].file)

\* A request, of the live connection or of a dead one, belongs to a known
\* transfer; past the first one, the destination was cleared and the segment
\* is a slice of the source.
RequestInv(r) ==
    /\ r.id \in Transfers /\ r.file = info[r.id].file
    /\ r.cmd = "Down" => r.pos >= 0
    /\ r.pos >= 0 => Touched(r.file)
    /\ r.cmd = "Up" /\ r.pos >= 0 /\ r.seg.result \in {"Ok", "ReachEnd"}
          => IsSlice(r.seg, size[r.file])

AnswerInv(a) ==
    /\ a.id \in Transfers
    /\ a.pos >= 0 => Touched(info[a.id].file)
    /\ a.cmd = "Down" => a.pos >= 0
    /\ a.cmd = "Down" /\ a.result \in {"Ok", "ReachEnd"}
          => IsSlice(a.seg, size[info[a.id].file])

MessageInv ==
    /\ \A i \in 1 .. Len(reqs) : RequestInv(reqs[i])
    /\ \A r \in late : RequestInv(r)
    /\ \A i \in 1 .. Len(acks) : AnswerInv(acks[i])

\* Every step of every thread preserves this conjunction; each part is needed
\* for the next one.
TransferInv == TypeOK /\ TaskInv /\ MessageInv /\ NoMixture

\* What makes OneOutstanding inductive: USER_START finds the gate closed, and
\* nothing is in flight before the handshake has ended.
GateInv ==
    /\ OneOutstanding
    /\ starting => ~canSend
    /\ phase = "connecting" => ~canSend /\ ~starting /\ reqs = <<>> /\ acks = <<>>

\* What makes PriorityOrder inductive: no listed id is given out again.
ListInv ==
    /\ \A t \in Ids : Known(tasks, t) => t < nextId
    /\ PriorityOrder

\* What makes OffsetNeverBack hold: no message of the live connection is behind
\* the offset_ of its task.
OffsetInv ==
    /\ \A i \in 1 .. Len(reqs) : info[reqs[i].id].offset <= reqs[i].pos
    /\ \A i \in 1 .. Len(acks) :
          acks[i].cmd = "Up" => info[acks[i].id].offset <= acks[i].pos

\* The tasks that have a request or an answer on the wire.
Pending == {reqs[i].id : i \in 1 .. Len(reqs)} \cup {acks[i].id : i \in 1 .. Len(acks)}

\* What makes AnswerHasTask inductive: a task on the wire is listed and has not
\* failed, so that cleanError passes it by.  While the client is being replaced
\* nothing is listed.
PendingInv ==
    IF replacing THEN tasks = <<>>
                 ELSE \A t \in Pending : Known(tasks, t) /\ t \in OkTasks

\* t is the oldest of the listed transfers of its file.
Oldest(t) ==
    \A u \in Transfers : Known(tasks, u) /\ info[u].file = info[t].file => t <= u

\* Transfers of one file are served first come, first served: sources do not
\* shrink, so a later one never has the smaller total_ that would let it pass.
FifoInv ==
    /\ \A t \in Transfers : info[t].total <= size[info[t].file]
    /\ \A t, u \in Transfers :
          Precedes(tasks, t, u) /\ info[t].file = info[u].file => t < u
    /\ \A t \in Pending : Oldest(t)
    /\ \A t \in Transfers : Known(tasks, t) /\ info[t].offset >= 0 => Oldest(t)

\* The destination of t is complete.
Whole(t) ==
    LET f == info[t].file IN
    /\ has[f]
    /\ info[t].total <= Len(dst[f])
    /\ IsSourceUpTo(dst[f], size[f])

\* The transfers of a file that are listed or on the wire are younger than the
\* completed ones.
DoneOlder ==
    /\ done \subseteq Transfers
    /\ \A t \in done : \A u \in Transfers :
          (Known(tasks, u) \/ u \in Pending) /\ info[u].file = info[t].file => t < u

\* DoneIsWhole, of the transfers of a file alone.
DoneWhole ==
    \A t \in done :
       (\A u \in Transfers : info[u].file = info[t].file => u <= t) => Whole(t)

\* The last segment of an upload or download carries the rest of the file, and
\* the answer to an upload's last segment finds the file complete.
RequestLast(r) ==
    r.cmd = "Up" /\ r.seg.result = "ReachEnd"
       => r.pos >= 0 /\ info[r.id].total <= r.seg.pos + Len(r.seg.buf)

AnswerLast(a) ==
    a.result = "ReachEnd" =>
       \/ a.cmd = "Up" /\ Whole(a.id)
       \/ a.cmd = "Down" /\ info[a.id].total <= a.seg.pos + Len(a.seg.buf)

\* What makes DoneIsWhole inductive (without "late" and "short").
DoneInv ==
    /\ late = {}
    /\ DoneOlder /\ DoneWhole
    /\ \A i \in 1 .. Len(reqs) : RequestLast(reqs[i])
    /\ \A i \in 1 .. Len(acks) : AnswerLast(acks[i])

\* Where the segment that is read at position o of source f ends.
SegEnd(f, o) == IF size[f] - o > SegLen THEN o + SegLen ELSE size[f]

\* The destination of a transfer ends at its offset_ or, after a lost answer, one
\* segment further.
InStep(t) ==
    LET f == info[t].file IN
    /\ info[t].offset <= size[f]
    /\ Len(dst[f]) \in {info[t].offset, SegEnd(f, info[t].offset)}

\* The messages on the wire are about the segment at offset_.
RequestRetry(r) ==
    /\ r.pos = info[r.id].offset
    /\ r.cmd = "Up" /\ r.pos >= 0 => r.seg = fmReadFile(size[r.file], r.pos, SegLen)

AnswerRetry(a) ==
    LET f == info[a.id].file IN
    \/ /\ a.cmd = "Up" /\ a.result \in {"Ok", "ReachEnd"}
       /\ a.pos = Len(dst[f]) /\ a.pos <= size[f]
    \/ /\ a.cmd = "Down" /\ a.result = a.seg.result
       /\ info[a.id].offset >= 0
       /\ a.seg = fmReadFile(size[f], info[a.id].offset, SegLen)

\* What makes RetryNeverFails inductive (only "lose").
RetryInv ==
    /\ late = {}
    /\ RetryNeverFails
    /\ \A t \in Transfers : Known(tasks, t) /\ info[t].offset >= 0 => InStep(t)
    /\ ~replacing => /\ \A i \in 1 .. Len(reqs) : RequestRetry(reqs[i])
                     /\ \A i \in 1 .. Len(acks) : AnswerRetry(acks[i])

\* The conjunction of the inductive invariants: every step of every thread
\* preserves it, and the safety properties above follow from it.
InductiveInv ==
    /\ TransferInv /\ GateInv /\ ListInv /\ OffsetInv /\ PendingInv /\ FifoInv
    /\ {"late", "short"} \cap Faults = {} => DoneInv
    /\ Faults \subseteq {"lose"} => RetryInv
=============================================================================
