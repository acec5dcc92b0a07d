# EuhatExpert: TLA+ models and proofs

EuhatExpert moves files between an Android phone and a PC, and adds a few desktop
tools (a work trace, an attendance reminder). This directory holds TLA+ models of
the parts that carry its own logic, the file manager and the runtime of threads,
queues and sockets below it, with the TLC configurations that check them and
TLAPS proofs of the most important properties.

All paths below are relative to `src/`.

## 1. Inventory

### 1.1 Components, state, operations

| component | code | state | operations |
|---|---|---|---|
| transfer engine | `euhat/app/FileMan/client` (`FileManClient`, `FmcUpFile`, `FmcDownFile`) | the socket, `canSend_`, `maxPacketNeedTime_`, queued `USER_LOOP`s | `onUserStart`, `onUserLoop`, `onRead`, `onTimer`, `req`, `ack` |
| transfer server | `euhat/app/FileMan/server` | the peer's files | `FmsUpFile::echo`, `FmsDownFile::echo` |
| folder operations | `FmcPeerFileList`, `FmcDelFile`, `FmcNewFile`, their `Fms` counterparts, `FmLocal`, `dispatchSubList` | both file trees, the tasks still to be made | list, delete, create; one listing makes the tasks of the next level |
| task scheduler | `FmScheduler`, `FmTask.h` | `tasks_` (by priority), `refreshSubListTask_`, `needNotifyUi_`, `idxBase_` | `add`, `remove`, `cleanError`, `cleanAll`, `getFirst`, `get`, `getByType`, `notifyUi`, `notifyEngine`, `onTimer` |
| dialogs of the file manager | `msvc/EuhatExpert/Expert/peer/FileMan` | the two panels, the rows of the task list, `listMsg_` | `transfer`, `delFile`, `browserDir`, `fmscOnRefresh`, `fmscNeedReconnect`, `resetFileManClient`, `dataToEngine` |
| message loop | `euhat/common`: `JyMsgLoop`, `JyWorkQueue`, `JyWorkThread`, `JyMutex` | the queue, the condition variable, `workThreadIsRunning_` | `start`, `stop`, `postMsg`, `workProc` |
| timer | `JyMsgTimer` | `schedule_` | `createTimer`, `delayWork`, `cancelWork`, `workProc`, start and stop |
| TCP endpoints | `JyTcpClient`, `JyTcpServer`, `JyTcpEndpoint` | `selector_`, `sock_` | `onListen`, `onConnectBegin`/`End`, the exchange handlers, `onSockRead`, `send`, `onDisconnect`, `onFini` |
| TCP selector | `JyTcpSelector`, `JySockSelector` | `socks_`: the listener (buffers, ciphers) of a handle | `add`, `addAccept`, `addConnect`, `del`, `send`, `onRead`, `onWrite` |
| encryption | `JyDataCrypto`, `JyBigNum` | the keys of a listener | `encrypt`, `decrypt` |
| simple servers | `euhat/app/SimpleFileServer`, `SimpleEchoServer` | the file position | request and answer |
| rendezvous | `euhat/app/p2p`, `JyUdpSelector` | `clients_`, `peer_` | `alloc`, `connect`, `relay` |
| buffers | `JyBuf`, `JyDataStream` | `pool_` | `get`, `ret` |
| database | `euhat/dbop` | rows in SQLite | `read`, `write`, `select`, `insert` |
| file handles, paths | `euhat/os/EuhatFileHandles`, `EuhatPath` | open files by pointer | `fopen`, `fclose`, `fgetPath` |
| OS wrappers | `euhat/os/{win32,linux,android}` | - | files, threads, condition variables |
| work trace | `Expert/local/WorkTrace`, `EuhatWtPayload` | minute slots of a day, `lastSlot_`, one row per date | `payloadAddOne`, `updateNoMoveGap`, `startRecord`, `stopRecord` |
| reminder | `Expert/KqInformDlg` | shown or not, checked in or out | `check`, `open`, `close` |
| UI, Android app, daemon | `msvc`, `euhat/os/win32`, `android` | - | - |

### 1.2 How they interact

* **UI -> scheduler -> engines.** The UI thread puts tasks into `tasks_` and wakes
  the engines with `USER_LOOP`. The local engine (`FmLocal`) and the remote engine
  (`FileManClient`) each take the first task that is theirs. A listing task makes
  new tasks; an answer removes its task or marks it failed.
* **Engine -> peer.** One request is out at a time: `canSend_` is the gate.
  `onUserLoop` shuts it, every answer opens it and posts `USER_LOOP` again.
* **Reconnect.** The engine's timer asks the UI (`fmscNeedReconnect`); the UI
  replaces the *client object* and puts a `Connect` task in front of the list. The
  handshake removes that task. What the old object had sent may still be served. When the
  user asks for a connection, `dataToEngine` first clears the list, and the old client
  handles what it has queued until `resetFileManClient` destroys it: its answers then find
  no task.
* **Selector -> loop.** Every endpoint has a selector thread, which reads packets
  and posts `ACCEPT`, `READ`, `DISCONNECT`, and a message loop, which handles them
  and alone calls `add`, `del` and `send`. The messages name a socket handle only, and
  so does the answer of `select()`, which is made outside the mutex and may be stale when
  `onRead` comes to it.
* **Exchanges.** Clear, then each other's certificate, then two symmetric keys made
  of random bytes and the visit code. Each side switches around a `send`.
* **Bytes to packets.** A send writes as much as the system takes, a read gives as much
  as has arrived; `hasWholePacket` cuts packets out of `recvBuf_` by the size in their
  header. The buffer of a packet travels inside `READ` and goes back to the pool when
  the handler is done with it.
* **Timer -> loop.** A thread per loop turns `schedule_` into `TIMER` messages; the
  handlers change the schedule.
* **Work trace.** The hook window counts events into the minute of the day and writes the
  row of the date when the minute changes.
* **Start and stop.** `JyMsgLoop::stop` posts `FINI`, clears the flag, signals, joins;
  the worker drains its queue after the flag.

### 1.3 What is hard

Interleavings of four threads on one task list; answers, retries and late requests
around a broken connection; one of several steps failing (space, `fopen`, `fwrite`,
`rmdir`); wakeups that every path has to post; stop racing with the worker; handles
used again while old messages are queued; ciphers that must change in step; packets cut
anywhere by the network; a schedule that its own thread rewrites while it waits; a
recording that dies between two writes, or sleeps over midnight.
`PROJECT.json` lists each hazard at its line, with the properties that watch it.

### 1.4 What makes each part correct

* transfers: a destination is never a mixture; a finished file is whole; nothing goes
  back; retries are harmless; the gate opens again; transfers end;
* folders: a delete never tries a folder that has entries; a copy is whole when the
  list is empty; the panels and rows show the truth at rest; no engine sleeps on work;
* task list: sorted, whoever adds; an answer finds its task;
* message loop: no lost wakeup, order kept, nothing left at exit, stop ends;
* link: messages of a dead connection never reach the next on its handle, ciphers are
  in step, the server survives every order of messages, downloads are whole and end;
* stream: the handlers get the packets that were sent, whole and in order, and nothing
  else; buffers are conserved; no send hangs; a request arrives or the connection ends;
* timer: intervals are kept, a cancelled id is quiet, every slot fires, stop ends;
* work trace: a row shows its own day, a run loses one minute at most and leaves no hole.

## 2. Modules

`A -> B` reads "A extends B".

| module | models | state | actions |
|---|---|---|---|
| `FmFileOp` | `fmReadFile`, `fmWriteFile` as operators on a file's blocks | - | - |
| `FmTaskList` | the list operations of `FmScheduler` as operators on a sequence | - | - |
| `FileTransfer` -> both | engine, server, connection and UI around single-file transfers | files (as block numbers), tasks, gate, wire, late requests | one per message handler of the client's loop, of the server's loop and of the UI thread |
| `FolderOps` -> `FmTaskList` | tree operations on one list by two engines | two trees, list, what each engine and the UI are in the middle of, UI queue, rows, panels | one per handler; `dispatchSubList`, `delFile` and `transfer` take a step per `add`, because `mutex_` is held for one `add` only |
| `MCFolderOps` -> `FolderOps` | the small tree of the runs | - | - |
| `MsgLoop` | queue, condition variable, worker and owner | queue, signals, program counters | one per region between two lock operations |
| `MsgTimer` | `JyMsgTimer`, the handlers that use it and the owner that stops it | schedule (time left per slot), waits, signals, queue | one per region of `workProc` between two lock operations, one per call of a handler; `Tick` is the clock |
| `MCMsgTimer` -> `MsgTimer` | the intervals of the run | - | - |
| `TcpStream` | one direction of a connection in bytes: `send`, `onWrite`, `onRead`, `hasWholePacket`, the buffer pool, the receiver's handlers | bytes written and read, `recvLen_`, queue, pool | one per write, read, failing read, handler |
| `PacketChannel` | the abstract connection that `TcpStream` implements: packets in order until it ends | packets sent and got | `Send`, `Deliver`, `End` |
| `WorkTrace` | the recording of a day's activity and its rows | clock, payload, `lastSlot_`, table | a call of `payloadAddOne`, start, stop or death, time |
| `TcpLink` | both endpoints, their selectors, the network, the exchanges, the file download | handles, `socks_`, queues, streams, ciphers | one per handler or selector event; `addConnect` in two steps, because the selector sees the socket before `CONNECT_END` is posted |
| `FmTaskListProofs`, `FileTransferProofs`, `FolderOpsProofs`, `MsgLoopProofs`, `TcpLinkProofs`, `TcpStreamProofs`, `MsgTimerProofs`, `WorkTraceProofs` | theorems | | |

Definitions carry the names of the code where they can. A definition marked
"Mutant" is never part of a specification: it is the plausible mistake that shows
that a property notices.

Abstractions:

* `FileTransfer`: a file is a sequence of block numbers, the source being 1..n, so
  that a gap, a repeated or a foreign block can be seen. `fmWriteFile` keeps its
  rules about position and length. Which environment faults happen is the constant
  `Faults`.
* `FolderOps`: a tree is a set of entries with a fixed parent function; the transfer
  of one file is one request and answer (`FileTransfer` has the detail); losing a
  connection and getting a new one is one step. With `Refuse` the file system may
  refuse a removal; making a folder succeeds, also when it is there (`EEXIST`). The
  folders above an entry are the least set that holds its folder and, with a folder, the
  one it is in (`Above`). Answering "no" to the question before an operation is an action
  (`UiCancel`); the messages Windows lets the UI thread handle while the question is open
  are left out.
* `MsgLoop`: a message is named after its poster; the two condition variables are
  one operator, chosen by the variable `cond`. Waking without a signal is an action for
  pthreads.
* `MsgTimer`: a slot holds the time left until it is due. `at_.sub(now)` in the timed wait
  overwrites the due time of the front slot with a small number; in the model the slot is
  past due from then on. On Linux that number is passed as an absolute time, so the wait
  may end at once. The history `spare` counts the signals of `addSlot` that woke nobody. A handler that meets a null `timer_` is the state `dead`.
* `TcpStream`: a packet is its place in the stream, so that what a handler gets can be
  compared with what was sent; a header read in the middle of a packet shows any number of
  `Rubbish`, or a negative one. The other direction, the ciphers and the reuse of handles
  are `TcpLink`'s.
* `WorkTrace`: the number of slots in a day is a constant; a row that is missing reads as
  one without records, as `EuhatWtPayload::read` makes it. Histories say which events
  happened, so that the rows can be compared with them.
* `TcpLink`: a cipher is a name (clear, somebody's certificate, the key of a client and
  direction under a visit code, random). A certificate refuses what it cannot open,
  the xor cipher opens everything, to rubbish when keys differ. Packets are whole
  (`TcpStream` says why that is sound);
  with `Tears`, a short first segment is taken for a bad packet, as the code does; what is
  left of it has a type no handler knows, which the loops ignore. A use of a null listener or a null `selector_` is a state of its own, `dead`.
  The server's selector thread works in rounds: `SrvPoll` is `select()`, which may report a
  handle that `del` has closed meanwhile (`dropped`), and what it reported (`ready`) is
  read handle by handle. When a handle has been given to the next connection in between,
  `recv` finds nothing there and `onRead` takes `EWOULDBLOCK` for an error; the history
  `strays` names the connections that are disconnected so. A client has one socket
  for its whole life, so its selector needs no rounds. The server can read its file; on
  the client `sfWriteFile` may store less than it was given (the history `short`), which
  nobody looks at, or meet a file that cannot be opened, which it does not look at either.

## 3. Runs

| run | instance | shows |
|---|---|---|
| `transfer_loss` | an upload and a download of up to 2 segments, connections break, fair | no transfer fails through broken connections alone, finished files are whole, the gate is never shut with nothing in flight (except behind a second `Connect` task, or in a client being replaced); every listed transfer ends, or the engine waits for the user in one of the four ways of `WaitsForUser` |
| `transfer_faults` | the same with every fault, 3 tasks | no mixture, one message at a time, answers find their tasks (except in a client being replaced), no lost wakeup, sorted list, `offset_` never back |
| `folder_del_local` | two folders and two files, deleted twice over, with refusals, fair | failing listings and removals leave no engine asleep on work; the operations end or wait for the user behind a failed task; panels and rows are right at rest |
| `folder_shared` | two trees of depth 3 and 2 that share folders, deleted or copied from either side | no error; a copy is complete at the destination, merged with what is there |
| `folder_faults` | a folder with a file on the peer, deleted or moved; refusals, one lost connection, the user browses | no engine sleeps on work |
| `loop` | 4 posts, either condition variable, semaphore of maximum 2, another thread that goes on posting, fair | no lost wakeup, order kept, nothing of the owner's or the worker's left at exit, everything is handled; `stop()` returns where signals are remembered |
| `timer` | a timer of interval 2 and a delayed work of interval 1, two slots, two signals that wake nobody, either condition variable, fair | no more early ticks than signals that woke nobody, one late message after a cancel, every slot fires, the join of the destructor ends where signals are remembered |
| `link_secure` | two secure clients, ONE server handle, torn packets, faults, both sides stopped anywhere, one wrong visit code, with and without a certificate | handles not confused, ciphers in step |
| `link_live` | a secure and a plain client, two handles, one fault (a reset, a refusal, a full disk or a file that cannot be opened), stale answers of `select()`, fair | a packet meets a null listener only on a connection that a stale answer disconnected, a download that reports success is whole unless a write stored less, every download ends unless its connection breaks or is given up so |
| `link_mismatch` | one client that is not a `FileManClient`, wrong visit code | *violated*: see section 5 |
| `stream` | three packets of sizes 2, 3 and 5 with a header of 1 and buffers of 4, cut in every way; lock-step and two under way; a reset, a stop of either side, fair | a connection implements `PacketChannel`; buffers are conserved; a lock-step packet is handled or the connection ends; no send hangs |
| `work_trace` | days of three minutes, three of them, two runs of the recording, sleeps of up to a day less a minute | rows show their own day, a run loses at most one minute and leaves no hole |

The type invariants of `MsgLoop`, `MsgTimer`, `FolderOps`, `TcpStream` and `WorkTrace` are
stated for proofs and are not part of these runs.

### Bounds

The bounds are constants and appear in guards: `MaxTasks`, `MaxReconnects`, `MaxSize`
(`FileTransfer`), `MaxOps`, `MaxBrowse`, `MaxUi`, `MaxLoss` (`FolderOps`), `MaxPosts`
(`MsgLoop`), `MaxFaults`, `MaxDisc`, `Segments` (`TcpLink`), `MaxSlots`,
`MaxSpare`, `MaxQueue` (`MsgTimer`), `MaxPackets`, `Capacity` (`TcpStream`), `Days`,
`MaxJump`, `MaxEvents`, `MaxRuns` (`WorkTrace`). Two segments give a first,
a last and a retried one; `MaxBrowse` bounds the
listings of a panel and the answers "no" together; two reconnect requests are what it takes to leave a second
`Connect` task; a tree of depth 3 has a folder that must wait for a folder; one server
handle for two connections makes every second connection a reuse; in `link_live` the
second client may be given either handle, that of a reset one included, so that stale
answers hit healthy connections. That run stops nobody; with stops,
`ServerSurvives` is the theorem `ServerKeepsRunning`; two disconnects
waiting in a queue are one that closes and one that comes too late. The semaphore's
maximum is 2 instead of 5, so that it is reached. In `stream` two packets of two bytes
fill a buffer of four, a packet of five is too long for it, and a single byte is a torn
header; a third packet is what frees a second that was left in `recvBuf_`. A day of
three minutes has a first, a last and an inner one; three days give a run two changes
of day. The values of mouse and keyboard do not touch each other, so one type is
enough. The runs switch off the deadlock
check because these systems do come to rest: an idle engine, a stopped loop.

### Fairness

Weak fairness for each thread: a message loop handles what is queued, a selector
polls every 100 ms or so and comes to each socket that was reported, the server
answers, the UI pumps its queue and ends what `dataToEngine` has begun. The timer of
`FolderOps` is given strong fairness: `TIMER` waits in the local engine's queue
between other messages, so it is handled although `Timer` is disabled while another
handler runs. In `TcpStream` the sender's loop, the
receiver's selector thread and its loop are three processes, each weakly fair; in
`MsgTimer` the clock is fair too. Nobody has to break a connection, start an operation or stop an
endpoint. Under fairness the bounds on faults mean that the network works in the end.

## 4. Proofs

TLAPS checks these for every value of the constants (any files, sizes, segment
lengths, tasks, posters, clients, handles, and any combination of faults).

* **`FileTransferProofs`**: `TransferInvariant`, with `TypeCorrect` and
  `DestinationNeverMixed` from it. `NoMixture` is not inductive: a request in flight
  could carry a wrong block, a task a wrong offset. `TransferInv` adds that a task past
  its first answer has a cleared destination (`TaskInv`), and that each request, late
  ones included, and each answer carries a slice of the source (`MessageInv`).
  On top of it `OneAtATime` from `GateInv` (nothing is in flight before the handshake has
  ended; `USER_START` finds the gate shut); `ListStaysSorted` from `ListInv` (no listed id
  is given out again); `NeverBack`, an action property, from `OffsetInv` (no message of
  the live connection is behind its task).

  The second half says what becomes of a transfer.
  * `AnswersFindTheirTask` (`AnswerHasTask`) from `PendingInv`: a task on the wire is
    listed and has not failed, so neither `cleanError` nor the handshake, which removes a
    `Connect` task, takes it away. While `dataToEngine` replaces the client
    (`replacing`) the list is empty instead, and the answers that still come change
    nothing but the gate and the queue (`AckGone`).
  * `EngineIsWoken` (`NoLostWakeup`) and, unless the disk is full, `GateReopensWithSpace`
    (`GateReopens`): inductive with `GateInv`, `ListInv` and `TransferInv`. The second
    leaves a client that is being replaced alone, whose list is empty.
  * `CompletedIsWhole` (`DoneIsWhole`), for any faults but `late` and `short`. That the
    last segment completes the destination (`RequestLast`, `AnswerLast`) is not enough: a
    younger transfer of the same file might have cleared it in between. `FifoInv` excludes
    that: transfers of one file are served first come, first served, although the list is
    sorted by `total_`, because a source does not shrink. `DoneOlder` says the same of
    completed ones. With `late` or `short` the property is false: a request of a dead
    connection may be served after the retry, and a short write is not noticed.
  * `RetriesNeverFail` (`RetryNeverFails`), for `lose` alone: a destination ends at
    `offset_` or one segment further (`InStep`), a request is about the segment at
    `offset_`, and the source has not changed, so `fmWriteFile` recognises a segment it
    gets again.
* **`FolderOpsProofs`**, for every tree, number of operations and of lost connections:
  * for all users, `TypeCorrect`; `RemoteStaysAwake` (`RemoteAwake`, the half of
    `NobodySleeps` that is about the remote engine), which is inductive with the types;
    `OneRequestAtATime`; `StaysInOrder` (`PriorityOrder`).
  * `RowsCatchUpAlways`, for users who do not download (`NoDownloads`): `FmLocal::onNewFile`
    removes a task and tells nobody, so that the property is false for the others.
    `RowsInv` says that a refresh is due, under way, queued or done.
  * `NobodySleepsAlways` and `FinalListingAlways`, for users who delete on this computer
    (`LocalDeletes`); with work on both sides the local engine may sleep behind a failed
    task of the peer, and the last refresh of the peer's panel may come too early
    (section 5). `DelTasksInv` says which tasks there are and that a listing fails only
    on a folder that is gone; the local engine, which does not post `USER_LOOP` after a
    listing, is then never left behind one. `PanelInv` follows a panel from the tree
    through the messages of the UI to the screen, and keeps the listing in
    `refreshSubListTask_` until the last delete.
  * `CopyMeetsNoError` (`NothingFails`) and `CopyIsWholeAlways` (`CopyIsWhole`), for users
    who copy, in both directions and all at once. `CopyIsWhole` speaks of an empty list
    only; `CoverInv` speaks of every state: an entry that has to be copied is at the
    destination or some task that is listed or about to be added brings it. The task whose
    listing is being dispatched does not count, since it is removed before the tasks of its
    entries are added; while it lasts, the entries below it are wanted as if the user had
    asked for them. `AboveStep` (who is below a folder is an entry of it or below one) is
    what makes a listing hand its duty to the tasks it adds. `CopyTasksInv` adds that what
    a task reads is there, and what an answer on its way says is so.
* **`FmTaskListProofs`**: `AddKeepsSorted`, for any priorities, with the lemmas on
  removal and insertion the other modules cite.
* **`MsgLoopProofs`**: `LoopInvariant`, then `WakeupNotLost`, `HandledInOrder`,
  `NothingLeftBehind`. What has to be added is `FiniUnderway`: once stop has begun,
  `FINI` is queued, in hand or handled, and the worker drains only after the flag.
* **`TcpLinkProofs`**, for any clients, handles, file lengths and faults:
  * `HandleInvariant`, then `TypeCorrect` and `HandlesKeptApart`. `HandlesNotConfused`
    alone is not inductive: a new listener might find old messages. `HandleInv` says why
    it does not: an `ACCEPT` is the last message about its handle and the handle is not in
    `socks_`, because the selector posts nothing for a handle it does not watch and a
    handle is accepted only once `del` has closed it.
  * `TokenInvariant`, then `SwitchInStep` (`CiphersInStep`) and `DownloadsWhole`
    (`DownloadWhole`). Neither is inductive: both need to know that nothing else is under
    way. `TokenInv` says that a client has at most one *token*, in one of five places (the
    middle of `addConnect`, its queue, the packets up, the server's queue, the packets
    down), and that the token tells the stage of the exchanges, with that the ciphers of
    both listeners (`Reached`), and carries `filePos_`, which is the length of the file so
    far unless a write stored less (`Downloaded`). A rest of a torn packet
    is no token. `OncePerClient` is needed so that "the listener of a client" means one.
  * `LinkInvariant`, then `ServerKeepsRunning` (`ServerSurvives` unless `Tears`). `CutInv`
    adds that a queued `DISCONNECT` of a watched handle means that the connection is cut
    and its stream empty, so no `READ` comes behind it; unless the connection is one of
    `strays`, which a stale answer of `select()` has disconnected: only a `READ` of such a
    connection meets a null listener. This leans on the tokens twice: an
    answer that fails posts `DISCONNECT` while the client's only packet is the one in
    hand, and no certificate ever refuses a packet.
* **`TcpStreamProofs`**, for any header, packet and buffer sizes: `StreamImplementsChannel`,
  the refinement of `PacketChannel`, and `BuffersAccounted` (`BufferInv`). The step
  simulation needs that the `READ`s in front of the first `DISCONNECT` are the next packets
  sent (`QueueInv`) and that `recvBuf_` begins at a packet while no `DISCONNECT` is queued
  (`AlignedInv`, `StreamInv`); afterwards `recvBuf_` may hold anything, and the proof has to
  show that nothing of it is delivered.
* **`MsgTimerProofs`**, for any timers, delayed works and intervals: `EarlyTicksArePaid`,
  `CancelledIsQuiet`. `EarlyTicks` compares two counts, early ticks and signals that woke
  nobody; `SignalsInv` says who owns a signal while the thread waits or works (the front
  slot whose due time was overwritten counts as one, before it fires). The signal
  that found the thread asleep is free only while no slot is past due.
  `CancelQuiet` needs `SlotsInv` (ids of slots are distinct) and `ErasingInv` (nobody adds
  a slot between the two halves of `cancelWork`).
* **`WorkTraceProofs`**, for any number of slots, days, types and runs: `RowsOfTheirDay`
  (`OwnDay`), `LosesOneMinute`, `LeavesNoHole`. The invariant relates the payload to the row
  of the day of the last call, slot by slot but for the slot of that call, and says that
  rows of later days are empty (`CalledInv`).

Assumptions: `ConstAssumption`, `CondAssumption`, `LinkAssumption`, `StreamAssumption`,
`TimerAssumption`, `TraceAssumption`, `TreeAssumption`, `NoLoopAssumption`: types and disjointness of the constants, that packets
are longer than their header and a buffer longer than a header, that intervals are positive
and the program has finitely many timers, that entries are finitely many, each with its
folder, and no folder is above itself, and that a sleep is shorter than a day (`MaxJump`;
section 5 says what a longer one does). TLC evaluates each on every run of its module.

Only model-checked: everything under fairness (`TransferEnds`, `OperationEnds`,
`StopEnds`, `EveryMessageHandled`, `DownloadEnds`, `MismatchCloses`, `TicksForever`,
`TimerStops`, `LockStepArrives`, `SendEnds`), which is out of the prover's reach; of
`FolderOps`, what the theorems leave out: `NothingFails` for deletes, which needs that the
priorities remove the entries of a folder before the folder, whichever engine is adding,
and the local engine's half of `NobodySleeps` for deletes and moves on the peer's side.
The inductive invariants of `FolderOps` were model-checked on smaller instances of the
users they are about before they were proved.

## 5. What the models show about the code

* **Finding** (`link_mismatch`): the server logs "visit code mismatch, will close
  client." (`euhat/common/JyTcpServer.cpp:115`), but does not close: it replaces a key
  by random bytes and keeps the socket. `FileManClient` closes its end itself; a client
  with `JyTcpClient`'s own handler keeps the connection for ever.
* Behaviour the source neither promises nor excludes, met with TLC and recorded as
  hazards: a second `Connect` task stalls a connected engine
  (`FileManDlg.cpp:176`); a connection lost before a slow answer is not reconnected
  (`FileManClient.cpp:212`); the last refresh after deleting a tree on the peer may be
  taken too early (`FmcPeerFileList.cpp:42`); the last row of a folder download may stay
  on the screen (`FmLocal.cpp:83`), and a folder that could not be made leaves the list
  like one that was; a delete whose answer was lost is sent again and fails on what is
  already gone (`FmsDelFile.cpp:18`); a stop that loses its signal on a pthread condition
  (`JyWorkQueue.h:53`); a local engine that went idle behind a failed task of the peer is
  not woken when the retry of that task succeeds (`FmcDelFile.cpp:48`; with work on both
  sides only, so `NobodySleeps` is checked one side at a time); a reset between `add` and `CONNECT_END`
  (`JyTcpSelector.cpp:201`) and a disconnect after `FINI` (`JyTcpClient.cpp:27`) lead
  the client to a null pointer; so does a packet whose first segment is at most six
  bytes in the server (`JyTcpSelector.cpp:56` with `JyTcpEndpoint.cpp:91`).
* A stale answer of `select()` (`JySockSelector.cpp:63`): a handle that is closed and
  accepted again before `onRead` comes to it is read although its new connection has
  sent nothing; `recv` fails with `EWOULDBLOCK`, and `JyTcpSelector.cpp:284` posts
  `DISCONNECT` for a healthy connection. Its client does not connect again, and its next
  packet, read before that `DISCONNECT` is handled, ends the server at a null listener
  (`JyTcpEndpoint.cpp:91`). `ServerSurvives` and `DownloadEnds` name these connections.
* `sfWriteFile` (`SimpleFileOp.cpp:57`) looks at neither `fopen` nor `fwrite`: on a full
  disk a download reports "recv file ok" without every byte, and a file that cannot be
  opened is a null pointer. `DownloadWhole` and `DownloadEnds` name both.
* Between `cleanAll` and `resetFileManClient` (`FileManDlg.cpp:183`, `:162`) the old
  client handles answers whose task is gone: the gate opens, `USER_LOOP` is posted, and
  that is all. `AnswerHasTask` names the exception.
* Deleting or transferring first calls `cleanError` and then asks the user; with "no" it
  returns (`FileManSubDlg.cpp:314`, `:379`) and notifies nobody of what `cleanError` has
  removed. The engines that waited behind the failed task, and the rows on the screen,
  stay behind until the next operation. The history `silent` names these states.
* Of the timer (`JyMsgLoop.cpp`): a signal that was sent while the thread was not waiting,
  or had one to wake it already, ends a later timed wait, and the slot, whose due time was overwritten, fires early
  (line 60); on Linux and Android every timed wait ends at once, so timers tick without a
  pause; `insertSlot` (line 81) does not sort, and with three slots, two of them delayed
  works that start themselves again, the third never fires (raise `MaxSlots` to 3 and add
  an id to `Delays`); `stop()` may reset `timer_` before `INIT` has created its timers
  (line 156), a null pointer.
* Of the stream (`JyTcpSelector.cpp`): the second of two packets that arrive together
  waits in `recvBuf_` for more bytes (line 79; drop `window = 1` from `LockStepArrives`);
  a packet with nothing behind its header would count as too short (line 56; no protocol
  of the program sends one).
* Of the work trace (`WorkTrace.cpp`): a recording that begins just before midnight and is
  first called after it writes the old day's row under the new date (line 225; the days
  named by `carried`); the first event of a minute counts twice (line 41); a clock that is
  set back, by summer time ending for instance, is taken for a new day and today's values
  go over yesterday's row, and a sleep of a day or more is not seen or goes to the wrong
  date (line 26; `MaxJump` excludes it).

## 6. Not modelled, and the plan

Done, in this order: task list and file helpers, transfers, folder operations,
message loop, TCP link, each with its first proofs; then the timer, the byte stream with
the abstract channel it implements, and the work trace.

Then the proofs: the refinement of `PacketChannel`, the work trace, the timer, the
ciphers, downloads and survival of the link, every safety property of the transfers, and
the theorems of `FolderOps` above.

Next: `NothingFails` for deletes, from an invariant that orders the tasks of a folder and
of its entries in the list.

Not modelled, with the reason:

* the rendezvous (`euhat/app/p2p`): no build file has it and it does not compile against
  the present `JyMsgLoop` (it calls `JyMsgLoop::onTimer`, which is gone), so there is no
  program to be faithful to; `JyUdpSelector` is compiled but has no other user;
* the fd sets of the selector, `maxFd_` and the wait for a first socket; the wakeup has
  the form of `MsgLoop`'s;
* the object lifetimes around a reset of the client (`FileManDlg.cpp:162`: the old client
  is destroyed while `scheduler_->remote_` still points to it), which would need every
  caller of `notifyEngine` split at its use of the pointer;
* the handle table of Android (`EuhatFileHandles`) and the reminder (`KqInformDlg`), a
  window opened and closed by the clock.

Left out for good: windows and widgets, the Android activity, the daemon's hooks (user
interface and forwarding without a protocol); the database layer (SQL text for SQLite,
of which only the presence of a certificate matters here); big-number arithmetic, MD5,
base64, OpenSSL, SQLite, libjpeg, XML, MFC controls (third-party code or arithmetic).
