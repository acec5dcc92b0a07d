----------------------------- MODULE FolderOps ------------------------------
(***************************************************************************)
(* Operations on folders: delete, copy and move of a whole tree, which the  *)
(* file manager carries out as a growing list of tasks.  Listing a folder   *)
(* makes the tasks for its entries (dispatchSubList), the local engine      *)
(* (FmLocal) and the remote engine (FileManClient with FmcPeerFileList,     *)
(* FmcDelFile, FmcNewFile) take tasks off the one list of FmScheduler, and  *)
(* the UI thread shows the list, and shows a panel anew once the list is    *)
(* empty (refreshSubListTask_).                                            *)
(*                                                                         *)
(* Threads: the UI, the local engine's loop, the remote engine's loop, the  *)
(* peer's server.  Each task that dispatchSubList, delFile or transfer adds *)
(* is a step, because FmScheduler::mutex_ is held for one add at a time.    *)
(* The transfer of one file (module FileTransfer) is one request and one    *)
(* answer here, and a lost connection with its reconnect is one step.       *)
(***************************************************************************)
EXTENDS Integers, Sequences, SequencesExt, FiniteSets, FmTaskList

CONSTANTS
    Folders, Files,  \* the entries of the trees
    BigFiles,        \* files longer than a segment
    Root,            \* the directory both panels show
    Up,              \* the folder an entry is in
    Start,           \* entries there are at first, for each side
    Operations,      \* what the user does: "Del", "Copy", "Move"
    From,            \* the sides the user operates on
    MaxOps,          \* bound: operations the user starts
    MaxBrowse,       \* bound: times the user lists a panel or answers no
    MaxUi,           \* bound: messages waiting for the UI thread
    MaxLoss,         \* bound: connections lost
    Refuse           \* may the file system refuse a removal?

Nodes == Folders \cup Files
Sides == {"local", "peer"}

ASSUME TreeAssumption ==
    /\ Folders \cap Files = {} /\ Root \notin Nodes
    /\ BigFiles \subseteq Files
    /\ IsFiniteSet(Nodes)
    /\ Up \in [Nodes -> Folders \cup {Root}]
    /\ Start \in [Sides -> SUBSET Nodes]
    /\ \A s \in Sides : \A n \in Start[s] : Up[n] \in Start[s] \cup {Root}
    /\ Operations \subseteq {"Del", "Copy", "Move"} /\ From \subseteq Sides

VARIABLES
    fs,       \* entries that exist, for each side
    tasks,    \* FmScheduler::tasks_
    refresh,  \* FmScheduler::refreshSubListTask_, as a sequence of at most one
    need,     \* FmScheduler::needNotifyUi_
    lloops,   \* USER_LOOPs queued for the local engine
    lwork,    \* the local engine inside a handler: task to remove, tasks to add
    rloops,   \* USER_LOOPs queued for the remote engine
    radds,    \* the remote engine inside dispatchSubList: tasks to add
    busy,     \* the remote engine is inside FmcPeerFileList::ack
    canSend,  \* FileManClient::canSend_
    net,      \* the request or the answer on its way, as a sequence
    uwork,    \* the UI inside delFile or transfer: panel to list, tasks to add
    silent,   \* history: delFile or transfer has returned early after cleanError
    uiq,      \* UserWrapper::listMsg_
    rows,     \* the task list as the UI shows it
    shown,    \* the panels as the UI shows them
    asked,    \* history: entries the user has asked to copy or move, by source
    ops, browses, losses \* counters of the bounds

localVars  == <<lloops, lwork>>
remoteVars == <<rloops, radds, busy, canSend, net>>
uiVars     == <<uwork, silent, uiq, rows, shown, refresh>>
boundVars  == <<asked, ops, browses, losses>>
vars == <<fs, tasks, need, localVars, remoteVars, uiVars, boundVars>>

-----------------------------------------------------------------------------
(* The trees                                                               *)

Other(s) == IF s = "local" THEN "peer" ELSE "local"
Children(d, have) == {n \in have : Up[n] = d}

\* The sets of folders that hold n's folder and, with a folder, the one it is in.
Chains(n) == {S \in SUBSET Folders : \A m \in S \cup {n} : Up[m] \in S \cup {Root}}

\* Folders above n, Root not counted; the depth counts path components.
Above == [n \in Nodes |-> {d \in Folders : \A S \in Chains(n) : d \in S}]
Depth(n) == Cardinality(Above[n]) + 1

\* No folder is above itself.
ASSUME NoLoopAssumption == \A n \in Nodes : n \notin Above[n]

-----------------------------------------------------------------------------
(* Tasks.  ListTask is FmTaskGetSubList; its after is action_.             *)

Task(kind, side, n, after, move) ==
    [kind |-> kind, side |-> side, node |-> n, after |-> after, move |-> move,
     ok |-> TRUE]

ListTask(side, n, after, move) == Task("List", side, n, after, move)
DelTask(side, n)               == Task("Del", side, n, "None", FALSE)
NewTask(side, n)               == Task("New", side, n, "None", FALSE)
FileTask(from, f, move)        == Task("File", from, f, "None", move)

TaskSet(kinds, nodes, afters, moves) ==
    [kind: kinds, side: Sides, node: nodes, after: afters, move: moves, ok: BOOLEAN]

PanelTasks == TaskSet({"List"}, {Root}, {"InformUi"}, {FALSE})
Tasks == PanelTasks \cup TaskSet({"List"}, Folders, {"Del", "DownUp"}, BOOLEAN)
                    \cup TaskSet({"Del"}, Nodes, {"None"}, {FALSE})
                    \cup TaskSet({"New"}, Folders, {"None"}, {FALSE})
                    \cup TaskSet({"File"}, Files, {"None"}, BOOLEAN)

\* Mutant: every folder is removed with the same priority.
PrioFlat(t) == CASE t.kind = "List" -> IF t.after = "InformUi" THEN 10 ELSE 70
                 [] t.kind = "Del"  -> IF t.node \in Folders THEN 1000 ELSE 100
                 [] t.kind = "New"  -> 10
                 [] t.kind = "File" -> IF t.node \in BigFiles THEN 60 ELSE 20

\* FmTask::getPriority; the priority_ of a Del task is set by its creator.
Prio(t) == CASE t.kind = "List" -> IF t.after = "InformUi" THEN 10 ELSE 70
             [] t.kind = "Del"  -> IF t.node \in Folders THEN 1000 - Depth(t.node) ELSE 100
             [] t.kind = "New"  -> 10
             [] t.kind = "File" -> IF t.node \in BigFiles THEN 60 ELSE 20

Put(s, t) == Add(s, [x \in ToSet(s) \cup {t} |-> Prio(x)], t)
ForPeer(t) == t.kind = "File" \/ t.side = "peer"

\* FmScheduler::getFirst for the local and for the remote engine: the places of
\* the engine's tasks, none when the front has failed.
Waiting(remote) == IF tasks = <<>> \/ ~tasks[1].ok THEN {}
                   ELSE {i \in 1 .. Len(tasks) : ForPeer(tasks[i]) = remote}
LocalWaits  == Waiting(FALSE) # {}
RemoteWaits == Waiting(TRUE) # {}
FirstLocal  == tasks[Min(Waiting(FALSE))]
FirstRemote == tasks[Min(Waiting(TRUE))]

MarkFailed(t) == [i \in 1 .. Len(tasks) |->
                    IF i = Min({j \in 1 .. Len(tasks) : tasks[j] = t})
                    THEN [t EXCEPT !.ok = FALSE] ELSE tasks[i]]

\* What dispatchSubList adds for the entries of the listed folder.
EntryTasks(t, n) ==
    CASE n \in Folders /\ t.after = "Del"    -> <<ListTask(t.side, n, "Del", FALSE)>>
      [] n \in Folders /\ t.after = "DownUp" -> <<NewTask(Other(t.side), n),
                                                ListTask(t.side, n, "DownUp", t.move)>>
      [] n \in Files /\ t.after = "Del"      -> <<DelTask(t.side, n)>>
      [] n \in Files /\ t.after = "DownUp"   -> <<FileTask(t.side, n, t.move)>>

Entries(t, order) == [i \in 1 .. Len(order) |-> EntryTasks(t, order[i])]

\* The tasks for the listed folder itself.
FolderTasks(t) ==
    (IF t.after = "Del" \/ t.move THEN <<DelTask(t.side, t.node)>> ELSE <<>>)
    \o (IF t.after = "DownUp" THEN <<NewTask(Other(t.side), t.node)>> ELSE <<>>)

\* Mutant: the files of the folder are forgotten.
DispatchNoFiles(t, order) ==
    Append(Entries(t, SelectSeq(order, LAMBDA n : n \in Folders \/ t.after = "Del")),
           FolderTasks(t))

\* dispatchSubList: what it adds, for one entry after the other, then for the folder.
Dispatch(t, order) == Append(Entries(t, order), FolderTasks(t))

\* The next task to add, and what is left then.
NextAdd(adds) == Head(Head(adds))
LaterAdds(adds) == IF Len(Head(adds)) = 1 THEN Tail(adds)
                   ELSE <<Tail(Head(adds))>> \o Tail(adds)

-----------------------------------------------------------------------------
(* What the operating system does                                          *)

Exists(s, n) == n = Root \/ n \in fs[s]

\* opRmDir, opUnlink: a folder must be empty.
CanRemove(s, n) == n \in fs[s] /\ (n \in Folders => Children(n, fs[s]) = {})
RemoveResults(s, n) ==
    IF ~CanRemove(s, n) THEN {FALSE} ELSE IF Refuse THEN BOOLEAN ELSE {TRUE}
Removed(s, n) == [fs EXCEPT ![s] = @ \ {n}]

\* whPrepareFolder and opMkDir, or the creation of a file.
Made(s, n) == [fs EXCEPT ![s] = @ \cup {n} \cup Above[n]]

-----------------------------------------------------------------------------
(* The UI thread                                                           *)

Idle == [pc |-> "idle", task |-> <<>>, adds |-> <<>>]
RefreshMsg == [cmd |-> "refresh", side |-> "local", names |-> {}]

Init ==
    /\ fs = Start
    /\ tasks = <<>> /\ refresh = <<>> /\ need = FALSE
    /\ lloops = 0 /\ lwork = Idle
    /\ rloops = 0 /\ radds = <<>> /\ busy = FALSE /\ canSend = TRUE /\ net = <<>>
    /\ uwork = Idle /\ silent = FALSE
    /\ uiq = <<>> /\ rows = <<>>
    /\ shown = [s \in Sides |-> Children(Root, fs[s])]
    /\ asked = [s \in Sides |-> {}]
    /\ ops = 0 /\ browses = 0 /\ losses = 0

\* Mutant: the list need not be empty.
OnRefreshEarly(ts, slot, posts) ==
    /\ IF slot # <<>>
       THEN tasks' = slot \o ts /\ refresh' = <<>> /\ rows' = <<>> /\ need' = TRUE
       ELSE tasks' = ts /\ refresh' = slot /\ rows' = ts /\ UNCHANGED need
    /\ LET n == posts + IF slot # <<>> THEN 1 ELSE 0
       IN  lloops' = lloops + n /\ rloops' = rloops + n

\* Mutant: the waiting panel listing is never taken in.
OnRefreshNever(ts, slot, posts) ==
    /\ tasks' = ts /\ refresh' = slot /\ rows' = ts /\ UNCHANGED need
    /\ lloops' = lloops + posts /\ rloops' = rloops + posts

\* FileManSubDlg::fmscOnRefresh with task list ts and the slot: an empty list
\* takes the waiting panel listing in; otherwise the list is shown.  posts are
\* the USER_LOOPs the caller has sent to both engines.
OnRefresh(ts, slot, posts) ==
    /\ IF ts = <<>> /\ slot # <<>>
       THEN tasks' = slot /\ refresh' = <<>> /\ rows' = <<>> /\ need' = TRUE
       ELSE tasks' = ts /\ refresh' = slot /\ rows' = ts /\ UNCHANGED need
    /\ LET n == posts + IF ts = <<>> /\ slot # <<>> THEN 1 ELSE 0
       IN  lloops' = lloops + n /\ rloops' = rloops + n

Cleaned == CleanError(tasks, {t \in ToSet(tasks) : ~t.ok}, {})

\* FileManSubDlg::browserDir
UiBrowse(s) ==
    /\ uwork = Idle /\ browses < MaxBrowse
    /\ browses' = browses + 1
    /\ OnRefresh(Put(Cleaned, ListTask(s, Root, "InformUi", FALSE)), refresh, 1)
    /\ silent' = FALSE
    /\ UNCHANGED <<fs, lwork, radds, busy, canSend, net, uwork, uiq, shown, asked, ops,
                   losses>>

\* What delFile and transfer add for a selected row.
RowTask(s, op, n) ==
    IF n \in Folders THEN ListTask(s, n, IF op = "Del" THEN "Del" ELSE "DownUp", op = "Move")
    ELSE IF op = "Del" THEN DelTask(s, n)
    ELSE FileTask(s, n, op = "Move")

\* FileManSubDlg::delFile and transfer for the selected rows: one task per row, and
\* the listing of the panel that changes.
UiOperate(s, op, rowsSel) ==
    /\ uwork = Idle /\ ops < MaxOps
    /\ ops' = ops + 1
    /\ asked' = IF op = "Del" THEN asked ELSE [asked EXCEPT ![s] = @ \cup ToSet(rowsSel)]
    /\ tasks' = Cleaned
    /\ LET panel == IF op = "Del" THEN s ELSE Other(s)
       IN  uwork' = [pc   |-> "adding",
                     task |-> <<ListTask(panel, Root, "InformUi", FALSE)>>,
                     adds |-> [i \in 1 .. Len(rowsSel) |-> <<RowTask(s, op, rowsSel[i])>>]]
    /\ UNCHANGED <<fs, need, localVars, remoteVars, silent, uiq, rows, shown, refresh,
                   browses, losses>>

UiAdd ==
    /\ uwork.adds # <<>>
    /\ tasks' = Put(tasks, NextAdd(uwork.adds))
    /\ uwork' = [uwork EXCEPT !.adds = LaterAdds(@)]
    /\ UNCHANGED <<fs, need, localVars, remoteVars, silent, uiq, rows, shown, refresh,
                   boundVars>>

\* The end of delFile and transfer: addRefreshTask, notifyEngine, fmscOnRefresh.
UiOperateEnd ==
    /\ uwork.pc = "adding" /\ uwork.adds = <<>>
    /\ OnRefresh(tasks, uwork.task, 1)
    /\ uwork' = Idle /\ silent' = FALSE
    /\ UNCHANGED <<fs, lwork, radds, busy, canSend, net, uiq, shown, boundVars>>

\* delFile and transfer when the user answers the question with no: cleanError has
\* been called, and nobody is notified.
UiCancel ==
    /\ uwork = Idle /\ browses < MaxBrowse
    /\ browses' = browses + 1
    /\ tasks' = Cleaned
    /\ silent' = (silent \/ Cleaned # tasks)
    /\ UNCHANGED <<fs, need, localVars, remoteVars, uwork, uiq, rows, shown, refresh,
                   asked, ops, losses>>

\* UserWrapper::notify: one message of the UI's queue.
UiNotify ==
    /\ uwork = Idle /\ uiq # <<>>
    /\ uiq' = Tail(uiq)
    /\ IF Head(uiq).cmd = "refresh"
       THEN OnRefresh(tasks, refresh, 0) /\ UNCHANGED shown
       ELSE /\ shown' = [shown EXCEPT ![Head(uiq).side] = Head(uiq).names]
            /\ UNCHANGED <<tasks, refresh, rows, need, lloops, rloops>>
    /\ UNCHANGED <<fs, lwork, radds, busy, canSend, net, uwork, silent, boundVars>>

-----------------------------------------------------------------------------
(* The local engine: FmLocal                                               *)

LocalTakes == lwork = Idle /\ lloops > 0

\* FmLocal::onUserLoop with nothing to do.
LocalIdle ==
    /\ LocalTakes
    /\ ~LocalWaits
    /\ lloops' = lloops - 1
    /\ UNCHANGED <<fs, tasks, need, lwork, remoteVars, uiVars, boundVars>>

LocalTask(kind) == LocalTakes /\ LocalWaits /\ FirstLocal.kind = kind

\* Mutant: the UI is not told.
LocalDelSilent ==
    /\ LocalTask("Del")
    /\ LET t == FirstLocal IN
       \E ok \in RemoveResults("local", t.node) :
          /\ fs' = IF ok THEN Removed("local", t.node) ELSE fs
          /\ tasks' = IF ok THEN RemoveTask(tasks, t) ELSE MarkFailed(t)
    /\ UNCHANGED <<need, localVars, remoteVars, uiVars, boundVars>>

\* Mutant: USER_LOOP is not posted again.
LocalDelNoPost ==
    /\ LocalTask("Del")
    /\ LET t == FirstLocal IN
       \E ok \in RemoveResults("local", t.node) :
          /\ fs' = IF ok THEN Removed("local", t.node) ELSE fs
          /\ tasks' = IF ok THEN RemoveTask(tasks, t) ELSE MarkFailed(t)
    /\ need' = TRUE
    /\ lloops' = lloops - 1
    /\ UNCHANGED <<lwork, remoteVars, uiVars, boundVars>>

\* FmLocal::onDelFile
LocalDel ==
    /\ LocalTask("Del")
    /\ LET t == FirstLocal IN
       \E ok \in RemoveResults("local", t.node) :
          /\ fs' = IF ok THEN Removed("local", t.node) ELSE fs
          /\ tasks' = IF ok THEN RemoveTask(tasks, t) ELSE MarkFailed(t)
    /\ need' = TRUE
    /\ UNCHANGED <<localVars, remoteVars, uiVars, boundVars>>

\* FmLocal::onNewFile.  Every New task is for a folder and has needInformUi_
\* cleared: it leaves the list without a word to the UI.
LocalNew ==
    /\ LocalTask("New")
    /\ fs' = Made("local", FirstLocal.node)
    /\ tasks' = RemoveTask(tasks, FirstLocal)
    /\ UNCHANGED <<need, localVars, remoteVars, uiVars, boundVars>>

\* FmLocal::onGetSubList, listing failed: the loop is not posted again.
LocalListFails ==
    /\ LocalTask("List")
    /\ ~Exists("local", FirstLocal.node)
    /\ tasks' = MarkFailed(FirstLocal)
    /\ need' = TRUE
    /\ lloops' = lloops - 1
    /\ UNCHANGED <<fs, lwork, remoteVars, uiVars, boundVars>>

\* FmLocal::onGetSubList for a panel: the listing goes to the UI.
LocalInform ==
    /\ LocalTask("List")
    /\ FirstLocal.after = "InformUi"
    /\ uiq' = Append(uiq, [cmd |-> "list", side |-> "local",
                           names |-> Children(Root, fs["local"])])
    /\ tasks' = RemoveTask(tasks, FirstLocal)
    /\ need' = TRUE
    /\ UNCHANGED <<fs, localVars, remoteVars, uwork, silent, rows, shown, refresh,
                   boundVars>>

\* FmLocal::onGetSubList for a folder: the entries are read, in any order.
LocalList ==
    /\ LocalTask("List")
    /\ LET t == FirstLocal IN
       /\ t.after # "InformUi" /\ Exists("local", t.node)
       /\ \E order \in SetToSeqs(Children(t.node, fs["local"])) :
             lwork' = [pc |-> "adding", task |-> <<t>>, adds |-> Dispatch(t, order)]
    /\ lloops' = lloops - 1
    /\ UNCHANGED <<fs, tasks, need, remoteVars, uiVars, boundVars>>

LocalAdd ==
    /\ lwork.adds # <<>>
    /\ tasks' = Put(tasks, NextAdd(lwork.adds))
    /\ lwork' = [lwork EXCEPT !.adds = LaterAdds(@)]
    /\ UNCHANGED <<fs, need, lloops, remoteVars, uiVars, boundVars>>

\* The end of dispatchSubList, and only then the listed task leaves the list.
LocalListEnd ==
    /\ lwork.pc = "adding" /\ lwork.adds = <<>>
    /\ tasks' = RemoveTask(tasks, lwork.task[1])
    /\ need' = TRUE
    /\ lloops' = lloops + 2 /\ rloops' = rloops + 1
    /\ lwork' = Idle
    /\ UNCHANGED <<fs, radds, busy, canSend, net, uiVars, boundVars>>

\* FmLocal::onTimer, FmScheduler::onTimer: the flag is cleared, then the
\* refresh is queued.
LocalTimer ==
    /\ lwork = Idle /\ need
    /\ Len(uiq) < MaxUi
    /\ need' = FALSE
    /\ lwork' = [Idle EXCEPT !.pc = "timer"]
    /\ UNCHANGED <<fs, tasks, lloops, remoteVars, uiVars, boundVars>>

LocalTimerPush ==
    /\ lwork.pc = "timer"
    /\ uiq' = Append(uiq, RefreshMsg)
    /\ lwork' = Idle
    /\ UNCHANGED <<fs, tasks, need, lloops, remoteVars, uwork, silent, rows, shown,
                   refresh, boundVars>>

-----------------------------------------------------------------------------
(* The remote engine and the server                                        *)

\* FileManClient::onUserLoop
RemoteLoop ==
    /\ ~busy /\ rloops > 0
    /\ rloops' = rloops - 1
    /\ IF canSend /\ RemoteWaits
       THEN /\ canSend' = FALSE
            /\ net' = <<[at |-> "server", task |-> FirstRemote, ok |-> TRUE,
                         names |-> {}]>>
       ELSE UNCHANGED <<canSend, net>>
    /\ UNCHANGED <<fs, tasks, need, localVars, radds, busy, uiVars, boundVars>>

Answer(t, ok, names) == net' = <<[at |-> "client", task |-> t, ok |-> ok, names |-> names]>>

\* FmsDelFile::echo
ServeDel(t) ==
    /\ t.kind = "Del"
    /\ \E ok \in RemoveResults("peer", t.node) :
          /\ fs' = IF ok THEN Removed("peer", t.node) ELSE fs
          /\ Answer(t, ok, {})

\* FmsNewFile::echo; a folder that is there already is no error to opMkDir.
ServeNew(t) ==
    /\ t.kind = "New"
    /\ fs' = Made("peer", t.node)
    /\ Answer(t, TRUE, {})

\* FmsPeerFileList::echo
ServeList(t) ==
    /\ t.kind = "List"
    /\ Answer(t, Exists("peer", t.node), Children(t.node, fs["peer"]))
    /\ UNCHANGED fs

\* The whole transfer of a file: FmsUpFile::echo or FmsDownFile::echo and the
\* segments between (see FileTransfer).
ServeFile(t) ==
    /\ t.kind = "File"
    /\ fs' = IF Exists(t.side, t.node) THEN Made(Other(t.side), t.node) ELSE fs
    /\ Answer(t, Exists(t.side, t.node), {})

\* FileManServer::onRead hands the request to its handler.
Serve ==
    /\ net # <<>> /\ net[1].at = "server"
    /\ LET t == net[1].task IN ServeDel(t) \/ ServeNew(t) \/ ServeList(t) \/ ServeFile(t)
    /\ UNCHANGED <<tasks, need, localVars, rloops, radds, busy, canSend, uiVars, boundVars>>

\* The connection breaks and a new client takes over: the request is sent anew,
\* whether or not the server has carried it out.
Lose ==
    /\ losses < MaxLoss
    /\ net # <<>>
    /\ losses' = losses + 1
    /\ net' = <<>> /\ canSend' = TRUE
    /\ rloops' = rloops + 1
    /\ UNCHANGED <<fs, tasks, need, localVars, radds, busy, uiVars, asked, ops, browses>>

Answered(kinds) == /\ net # <<>> /\ net[1].at = "client"
                   /\ net[1].task.kind \in kinds
                   /\ net' = <<>>

AckOne ==
    /\ Answered({"Del", "New", "File", "List"})
    /\ Known(tasks, net[1].task)
    /\ net[1].task.kind = "List" => ~net[1].ok
    /\ tasks' = IF net[1].ok THEN RemoveTask(tasks, net[1].task)
                ELSE MarkFailed(net[1].task)
    /\ canSend' = TRUE
    /\ UNCHANGED <<fs, localVars, radds, busy, uiVars, boundVars>>

\* Mutant: USER_LOOP is not posted.
AckNoPost == AckOne /\ need' = TRUE /\ UNCHANGED rloops

\* FmcDelFile::ack, FmcNewFile::ack, the last FmcUpFile::ack or FmcDownFile::ack,
\* and a listing that failed.
Ack == AckOne /\ need' = TRUE /\ rloops' = rloops + 1

\* Any ack of a task that cleanError has taken off the list meanwhile.
AckGone ==
    /\ Answered({"Del", "New", "File", "List"})
    /\ ~Known(tasks, net[1].task)
    /\ rloops' = rloops + 1
    /\ canSend' = TRUE
    /\ UNCHANGED <<fs, tasks, need, localVars, radds, busy, uiVars, boundVars>>

\* FmcPeerFileList::ack for a panel.
AckInform ==
    /\ Answered({"List"}) /\ net[1].ok /\ Known(tasks, net[1].task)
    /\ net[1].task.after = "InformUi"
    /\ tasks' = RemoveTask(tasks, net[1].task)
    /\ uiq' = Append(uiq, [cmd |-> "list", side |-> "peer", names |-> net[1].names])
    /\ need' = TRUE
    /\ rloops' = rloops + 1
    /\ canSend' = TRUE
    /\ UNCHANGED <<fs, localVars, radds, busy, uwork, silent, rows, shown, refresh,
                   boundVars>>

\* FmcPeerFileList::ack for a folder: the task leaves the list BEFORE its
\* entries are added.
AckList ==
    /\ Answered({"List"}) /\ net[1].ok /\ Known(tasks, net[1].task)
    /\ net[1].task.after # "InformUi"
    /\ tasks' = RemoveTask(tasks, net[1].task)
    /\ busy' = TRUE
    /\ \E order \in SetToSeqs(net[1].names) : radds' = Dispatch(net[1].task, order)
    /\ UNCHANGED <<fs, need, localVars, rloops, canSend, uiVars, boundVars>>

AckAdd ==
    /\ radds # <<>>
    /\ tasks' = Put(tasks, NextAdd(radds))
    /\ radds' = LaterAdds(radds)
    /\ UNCHANGED <<fs, need, localVars, rloops, busy, canSend, net, uiVars, boundVars>>

AckListEnd ==
    /\ busy /\ radds = <<>>
    /\ busy' = FALSE
    /\ need' = TRUE
    /\ lloops' = lloops + 1 /\ rloops' = rloops + 2
    /\ canSend' = TRUE
    /\ UNCHANGED <<fs, tasks, lwork, radds, net, uiVars, boundVars>>

-----------------------------------------------------------------------------
Ui     == \/ \E s \in Sides : UiBrowse(s)
          \/ \E s \in From, op \in Operations :
                \E sel \in SUBSET shown[s] :
                   \E order \in SetToSeqs(sel) : UiOperate(s, op, order)
          \/ UiCancel
UiBusy == UiNotify \/ UiAdd \/ UiOperateEnd
Local  == \/ LocalIdle \/ LocalDel \/ LocalNew \/ LocalListFails \/ LocalInform
          \/ LocalList \/ LocalAdd \/ LocalListEnd
Timer  == LocalTimer \/ LocalTimerPush
Remote == RemoteLoop \/ Ack \/ AckGone \/ AckInform \/ AckList \/ AckAdd \/ AckListEnd

Next == Ui \/ UiBusy \/ Local \/ Timer \/ Remote \/ Serve \/ Lose

Spec == Init /\ [][Next]_vars

\* Every loop runs, the timer ticks, the server answers, the UI pumps its queue.
FairSpec == /\ Spec
            /\ WF_vars(UiBusy) /\ WF_vars(Local) /\ SF_vars(Timer)
            /\ WF_vars(Remote) /\ WF_vars(Serve)

-----------------------------------------------------------------------------
(* Properties                                                              *)

Messages == [cmd: {"refresh", "list"}, side: Sides, names: SUBSET Nodes]

\* The tasks under way, all of them in X; those that are still to be added have not
\* failed.
Fresh(X) == {t \in X : t.ok}
Batches(X) == Seq(Fresh(X)) \ {<<>>}
Works(X) == [pc: {"idle", "timer"}, task: {<<>>}, adds: {<<>>}]
            \cup [pc: {"adding"}, task: {<<t>> : t \in X}, adds: Seq(Batches(X))]
Packets(X) == [at: {"server", "client"}, task: X, ok: BOOLEAN, names: SUBSET Nodes]
Holds(X) ==
    /\ tasks \in Seq(X)
    /\ lwork \in Works(X) /\ uwork \in Works(X)
    /\ radds \in Seq(Batches(X))
    /\ net = <<>> \/ \E m \in Packets(X) : net = <<m>>

\* The types of the variables.
TypeOK ==
    /\ fs \in [Sides -> SUBSET Nodes] /\ shown \in [Sides -> SUBSET Nodes]
    /\ asked \in [Sides -> SUBSET Nodes]
    /\ Holds(Tasks)
    /\ rows \in Seq(Tasks) /\ uiq \in Seq(Messages)
    /\ refresh = <<>> \/ \E t \in Fresh(PanelTasks) : refresh = <<t>>
    /\ uwork.pc # "timer" /\ uwork.task \in Seq(Fresh(PanelTasks))
    /\ need \in BOOLEAN /\ busy \in BOOLEAN /\ canSend \in BOOLEAN /\ silent \in BOOLEAN
    /\ lloops \in Nat /\ rloops \in Nat
    /\ radds # <<>> => busy

\* Nothing is under way and nothing waits to be shown.
Settled == /\ tasks = <<>> /\ refresh = <<>> /\ lwork = Idle /\ ~busy
           /\ net = <<>> /\ uiq = <<>> /\ ~need /\ uwork = Idle

\* With a file system that refuses nothing, deleting trees meets no error: the
\* priorities see to it that every folder is empty when its rmdir comes
\* (dispatchSubList sets them, FmScheduler::add sorts by them).
NothingFails == \A i \in 1 .. Len(tasks) : tasks[i].ok

\* When everything has come to rest, the panels show what is there: the listing
\* that waits in refreshSubListTask_ is taken after the last task of the
\* operation, not before (FileManSubDlg::fmscOnRefresh).
FinalListing == Settled => \A s \in Sides : shown[s] = Children(Root, fs[s])

\* The task list on the screen is the task list whenever no refresh is due:
\* clearing needNotifyUi_ loses no change another thread has announced
\* (FmScheduler::notifyUi, onTimer).
RowsCatchUp ==
    ~need /\ uiq = <<>> /\ lwork = Idle /\ ~busy /\ uwork = Idle /\ ~silent => rows = tasks

\* Once the list is empty, every entry of the trees the user has asked to copy
\* is at the destination: none is forgotten between the two engines
\* (dispatchSubList, FmLocal::onNewFile, FmsNewFile::echo).
CopyIsWhole ==
    tasks = <<>> /\ lwork = Idle /\ ~busy /\ uwork = Idle =>
        \A s \in Sides : \A n \in asked[s] :
            {m \in Start[s] : m = n \/ n \in Above[m]} \subseteq fs[Other(s)]

\* A task that an engine could serve never waits with that engine asleep, in
\* spite of the handlers that do not post USER_LOOP again (FmLocal::onGetSubList),
\* unless a dispatchSubList is under way, which wakes both when it is done.
Quiet == lwork.pc # "adding" /\ ~busy /\ uwork = Idle /\ ~silent
LocalAwake  == Quiet /\ LocalWaits => lloops > 0 \/ ~FirstLocal.ok
RemoteAwake == Quiet /\ RemoteWaits /\ canSend => rloops > 0
NobodySleeps == LocalAwake /\ RemoteAwake

\* The list stays in the order of the priorities, whoever adds to it.
PriorityOrder == \A i, j \in 1 .. Len(tasks) : i < j => Prio(tasks[i]) <= Prio(tasks[j])

\* Every operation comes to an end, with the panels up to date, or a failed task
\* at the front of the list waits for the user.
OperationEnds ==
    ops > 0 ~> (Settled /\ FinalListing) \/ (tasks # <<>> /\ ~tasks[1].ok) \/ silent

-----------------------------------------------------------------------------
(* Inductive invariants                                                    *)

\* The users for whom FmLocal::onNewFile, which tells nobody, is never called.
NoDownloads == Operations \subseteq {"Del"} \/ From \subseteq {"local"}

\* The users who delete on this computer, and nothing else.
LocalDeletes == Operations \subseteq {"Del"} /\ From \subseteq {"local"}

\* The users who copy, and nothing else.
Copies == Operations \subseteq {"Copy"}

\* The tasks of a user who does not download.
LoudTasks == {t \in Tasks : (t.kind = "New" => t.side = "peer")
                             /\ (t.after = "DownUp" => t.side = "local")}

\* What makes RowsCatchUp inductive: a refresh is due, under way or done.
RowsInv ==
    /\ Holds(LoudTasks)
    /\ \/ need \/ rows = tasks \/ silent
       \/ lwork.pc # "idle" \/ busy \/ uwork # Idle
       \/ \E i \in 1 .. Len(uiq) : uiq[i].cmd = "refresh"

\* The tasks of a user who deletes on this computer.
LocalDelTasks == {t \in Tasks : t.after = "InformUi" \/ (t.side = "local" /\ t.kind = "Del")
                                 \/ (t.side = "local" /\ t.after = "Del")}

\* A panel is listed without an error; a folder that could not be listed is gone.
DelTasksInv ==
    /\ Holds(LocalDelTasks)
    /\ \A t \in LocalDelTasks :
          Known(tasks, t) =>
             t.ok \/ t.kind = "Del" \/ (t.after = "Del" /\ t.node \notin fs["local"])
    /\ net # <<>> =>
          /\ net[1].task = ListTask("peer", Root, "InformUi", FALSE)
          /\ net[1].at = "client" => net[1].ok /\ net[1].names = Children(Root, fs["peer"])
    /\ lwork.pc = "adding" => lwork.task[1].ok /\ lwork.task[1].after = "Del"
                              /\ Known(tasks, lwork.task[1])
    /\ ~busy

\* Deletes are under way.
Deleting == \/ lwork.pc = "adding"
            \/ \E t \in LocalDelTasks : Known(tasks, t) /\ t.after # "InformUi"

\* The panel of side s is going to be listed.
Due(s) == refresh # <<>> \/ uwork # Idle \/ Known(tasks, ListTask(s, Root, "InformUi", FALSE))

\* What the panel of side s shows when the UI has handled its messages.
Lists(s) == {i \in 1 .. Len(uiq) : uiq[i].cmd = "list" /\ uiq[i].side = s}
WillShow(s) == IF Lists(s) = {} THEN shown[s] ELSE uiq[Max(Lists(s))].names

\* What makes FinalListing inductive for a user who deletes on this computer.
PanelInv ==
    /\ {refresh, uwork.task} \subseteq {<<>>, <<ListTask("local", Root, "InformUi", FALSE)>>}
    /\ Deleting => refresh # <<>> \/ uwork # Idle
    /\ Due("local") \/ WillShow("local") = Children(Root, fs["local"])
    /\ WillShow("peer") = Children(Root, fs["peer"])

\* The tasks of a user who copies.
CopyTasks == {t \in Tasks : t.kind # "Del" /\ t.after # "Del" /\ ~t.move}

\* The tasks that are still to be added.
InAdds(adds, t) == \E i \in 1 .. Len(adds) : \E j \in 1 .. Len(adds[i]) : adds[i][j] = t
ToAdd(t) == InAdds(lwork.adds, t) \/ InAdds(radds, t) \/ InAdds(uwork.adds, t)

\* Its source is there.
Readable(t) == t.kind \in {"List", "File"} => Exists(t.side, t.node)

\* What an answer says has happened.
NetInv(m) ==
    /\ m.task.ok /\ ForPeer(m.task) /\ Readable(m.task)
    /\ m.at = "client" =>
          /\ m.ok
          /\ m.task.kind = "New" => m.task.node \in fs["peer"]
          /\ m.task.kind = "File" => m.task.node \in fs[Other(m.task.side)]
          /\ m.task.kind = "List" => /\ Children(m.task.node, Start["peer"]) \subseteq m.names
                                    /\ m.names \subseteq fs["peer"]

\* One request is out at a time, and none while its answer is handled.
OneRequest == /\ net # <<>> => ~canSend /\ ~busy
              /\ busy => ~canSend

\* Nothing is removed, what is to be read is there, and every task succeeds.
CopyTasksInv ==
    /\ Holds(CopyTasks)
    /\ OneRequest
    /\ lwork.pc = "adding" => lwork.task[1].kind = "List" /\ lwork.task[1].side = "local"
    /\ \A s \in Sides : Start[s] \subseteq fs[s] /\ shown[s] \subseteq fs[s]
    /\ \A i \in 1 .. Len(uiq) : uiq[i].names \subseteq fs[uiq[i].side]
    /\ \A i \in 1 .. Len(tasks) : tasks[i].ok /\ Readable(tasks[i])
    /\ \A t \in CopyTasks : ToAdd(t) => t.ok /\ Readable(t)
    /\ \A i \in 1 .. Len(net) : NetInv(net[i])

\* When task t has been carried out, entry m of side s is at the other side.
Brings(t, s, m) ==
    \/ t.after = "DownUp" /\ t.side = s /\ (m = t.node \/ t.node \in Above[m])
    \/ t.kind = "New" /\ t.side = Other(s) /\ m = t.node
    \/ t.kind = "File" /\ t.side = s /\ m = t.node

\* Entry m of side s is at the other side, or a task will bring it there; the task
\* that is being listed does not count.
Covered(s, m) ==
    \/ m \in fs[Other(s)]
    \/ \E t \in CopyTasks :
          /\ Brings(t, s, m) /\ lwork.task # <<t>>
          /\ ToAdd(t) \/ Known(tasks, t)

\* Entry m of side s has to be copied: the user has asked for it, or the folder
\* that is being listed holds it.
Wanted(s, m) ==
    \/ \E n \in asked[s] : m = n \/ n \in Above[m]
    \/ \E t \in CopyTasks : lwork.task = <<t>> /\ Brings(t, s, m)

\* What makes CopyIsWhole inductive for a user who copies.
CoverInv == \A s \in Sides : \A m \in Start[s] : Wanted(s, m) => Covered(s, m)
=============================================================================
