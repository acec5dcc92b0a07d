------------------------------- MODULE TcpLink -------------------------------
(***************************************************************************)
(* JyTcpServer and its JyTcpClients: listening and connecting, the sockets  *)
(* a selector thread watches (socks_), the messages it posts to the loop    *)
(* of its endpoint, the two exchanges that switch a connection from clear   *)
(* to asymmetric to symmetric ciphers, and a request-answer protocol on     *)
(* top, the file download of SimpleFileClient and SimpleFileServer.         *)
(*                                                                         *)
(* Each endpoint has two threads: the message loop, whose handlers are the  *)
(* actions named after them, and the selector (SrvAccept, SrvRecv, ...).    *)
(* A client object makes one connection, so a connection is named after     *)
(* its client.  The server's socket handles are few and are used again.     *)
(* Packets arrive whole, or torn when Tears is set.                         *)
(***************************************************************************)
EXTENDS Naturals, Sequences

CONSTANTS
    Clients,    \* the client objects
    FileMan,    \* the clients whose sym answer FileManClient handles
    Knows,      \* the clients that have the server's visit code
    Handles,    \* socket handles of the server process
    Secure,     \* the clients with isSecure_, which begin with the exchanges
    Certs,      \* certificates a new listener may find in the server's ini table: 1, or 0 (none)
    Tears,      \* less than seven bytes of a packet may arrive first
    Quits,      \* the endpoints that may be stopped
    Segments,   \* length of the file, in requests
    MaxFaults,  \* bound: refused binds and connects, reset connections
    MaxDisc,    \* bound: disconnects waiting in one queue
    None

-----------------------------------------------------------------------------
(* Ciphers, packets, messages                                              *)

Clear       == <<"clear">>
Asym(owner) == <<"asym", owner>>          \* the certificate of owner
Random      == <<"random">>
SrvCode     == "code of the server"
Code(c)     == IF c \in Knows THEN SrvCode ELSE "another code"

\* The two buffers a client draws, combined with the visit code.
SymKey(way, c, code) == <<"sym", way, c, code>>

Ciphers == {Clear, Random} \cup ({"asym"} \X (Clients \cup {"server"}))
    \cup ({"sym"} \X {"up", "down"} \X Clients \X {SrvCode, "another code"})

Packets == [type : {"asym", "sym", "user", "rubbish"}, cipher : Ciphers,
            res : {"ok", "end", "bad"}, n : Nat]
Packet(type, cipher, res, n) ==
    [type |-> type, cipher |-> cipher, res |-> res, n |-> n]

\* What is left of a packet after its first bytes were thrown away.
Torn(q) == IF Head(q).type = "rubbish" THEN Tail(q)
           ELSE <<Packet("rubbish", Clear, "bad", 0)>> \o Tail(q)

SrvCmds == {"LISTEN", "ACCEPT", "READ", "DISCONNECT", "FINI"}
CliCmds == {"CONNECT_BEGIN", "CONNECT_END", "CONNECT_FAILED", "EX_ASYM", "EX_SYM",
            "USER_START", "USER_REQ", "READ", "DISCONNECT", "FINI"}
SrvMsg(cmd, h, c, p) == [cmd |-> cmd, sock |-> h, of |-> c, pkt |-> p]
CliMsg(cmd, p)       == [cmd |-> cmd, pkt |-> p]
Note(cmd)            == CliMsg(cmd, None)

SrvMsgs == {m \in [cmd : SrvCmds, sock : Handles \cup {None}, of : Clients \cup {None},
                   pkt : Packets \cup {None}] :
    /\ m.cmd \in {"ACCEPT", "READ", "DISCONNECT"} => m.sock \in Handles /\ m.of \in Clients
    /\ m.cmd \in {"LISTEN", "FINI"} => m.sock = None
    /\ m.cmd = "READ" => m.pkt \in Packets}
CliMsgs == {m \in [cmd : CliCmds, pkt : Packets \cup {None}] : m.cmd = "READ" => m.pkt \in Packets}

\* A JyTcpListener; a new one speaks in clear.
Listeners      == [of : Clients, enc : Ciphers, dec : Ciphers]
NewListener(c) == [of |-> c, enc |-> Clear, dec |-> Clear]

\* JyTcpEndpoint::onSockRead refuses what the certificate cannot open; the
\* other ciphers open everything, to rubbish when the keys differ.
Refused(l, p) == l.dec # Clear /\ l.dec[1] = "asym" /\ p.cipher # l.dec
Legible(l, p) == p.cipher = l.dec

ASSUME LinkAssumption ==
    /\ FileMan \subseteq Clients /\ Knows \subseteq Clients /\ Certs \subseteq {0, 1}
    /\ Quits \subseteq Clients \cup {"server"}
    /\ Secure \subseteq Clients /\ Tears \in BOOLEAN
    /\ Segments \in Nat \ {0} /\ MaxFaults \in Nat /\ MaxDisc \in Nat
    /\ None \notin Clients /\ None \notin Handles /\ None \notin Listeners
    /\ "port" \notin Handles

VARIABLES
    listening,  \* the server's port is open
    backlog,    \* connections the server has not accepted
    conn,       \* server: the connection behind an open handle
    socks,      \* server: socks_, the listener of a handle
    sq,         \* server: the message queue
    slife,      \* server: run, stopping (FINI posted), gone (selector_ reset), dead
    ready,      \* server's selector thread: what select() reported and onRead has not come to
    dropped,    \* handles del has closed while select() may be watching them
    strays,     \* history: connections that onRead gave up although nothing was wrong with them
    csocks,     \* client: the listener of its socket
    csock,      \* client: sock_ is valid
    cq,         \* client: the message queue
    clife,      \* client: as slife
    begun,      \* client: inside addConnect, between add and postMsg
    up,         \* packets on the way to the server
    down,       \* packets on the way to the client
    copen,      \* connections whose client end is open
    sclosed,    \* connections whose server end has been closed
    reset,      \* connections the network has broken
    filePos,    \* client: filePos_, in segments
    got,        \* client: the local file, as the segments appended to it
    short,      \* history: clients whose fwrite stored less than it was given
    outcome,    \* client: how the download ended
    faults

selector == <<ready, dropped, strays>>
server == <<listening, backlog, conn, socks, sq, slife, selector>>
file   == <<filePos, got, short>>
client == <<csocks, csock, cq, clife, begun, file, outcome>>
net    == <<up, down, copen, sclosed, reset>>
vars   == <<server, client, net, faults>>

Disconnects(q) == Len(SelectSeq(q, LAMBDA m : m.cmd = "DISCONNECT"))

Init ==
    /\ listening = FALSE /\ backlog = <<>>
    /\ conn = [h \in Handles |-> None] /\ socks = [h \in Handles |-> None]
    /\ sq = <<SrvMsg("LISTEN", None, None, None)>> /\ slife = "run"
    /\ ready = {} /\ dropped = {} /\ strays = {}
    /\ csocks = [c \in Clients |-> None] /\ csock = [c \in Clients |-> FALSE]
    /\ cq = [c \in Clients |-> <<Note("CONNECT_BEGIN")>>]
    /\ clife = [c \in Clients |-> "run"] /\ begun = {}
    /\ up = [c \in Clients |-> <<>>] /\ down = [c \in Clients |-> <<>>]
    /\ copen = {} /\ sclosed = {} /\ reset = {}
    /\ filePos = [c \in Clients |-> 0] /\ got = [c \in Clients |-> <<>>] /\ short = {}
    /\ outcome = [c \in Clients |-> "none"]
    /\ faults = 0

-----------------------------------------------------------------------------
(* The network                                                             *)

\* A connection is reset: what has not been read is lost or, if it has arrived,
\* can still be read; both ends find out when they use the connection.
Reset(c) ==
    /\ faults < MaxFaults
    /\ c \in copen /\ c \notin reset
    /\ reset' = reset \cup {c} /\ faults' = faults + 1
    /\ \E q \in {up[c], <<>>} : up' = [up EXCEPT ![c] = q]
    /\ \E q \in {down[c], <<>>} : down' = [down EXCEPT ![c] = q]
    /\ UNCHANGED <<server, client, copen, sclosed>>

\* recv and send fail once the connection is reset or the peer has closed; a
\* send may still succeed into a buffer nobody will read.
CliCut(c) == c \in reset \cup sclosed
SrvCut(c) == c \in reset \/ c \notin copen

-----------------------------------------------------------------------------
(* The server's selector thread                                            *)

SrvSelects == slife \in {"run", "stopping"}

\* The accepting socket, among the sockets that select() watches.
Port == "port"

\* What select() finds: something to read, or the end of a connection.
Found == {h \in Handles : socks[h] # None /\ (up[conn[h]] # <<>> \/ SrvCut(conn[h]))}
         \cup (IF listening /\ backlog # <<>> THEN {Port} ELSE {})

\* JySockSelector::workProc: select() runs without the mutex, on what was copied
\* under it.  It may still report a socket that del has closed meanwhile.
SrvPoll ==
    /\ SrvSelects /\ ready = {}
    /\ \E S \in SUBSET dropped : ready' = Found \cup S
    /\ ready' # {} /\ dropped' = {}
    /\ UNCHANGED <<listening, backlog, conn, socks, sq, slife, strays, client, net, faults>>

\* The sockets it reported are then read one by one, by handle.
Visits(s) == SrvSelects /\ s \in ready /\ ready' = ready \ {s} /\ UNCHANGED dropped

\* JyTcpSelector::onRead on the accepting socket: socks_ does not have the new
\* handle until the loop handles ACCEPT.
SrvAccept(h) ==
    /\ Visits(Port) /\ backlog # <<>> /\ conn[h] = None
    /\ conn' = [conn EXCEPT ![h] = Head(backlog)]
    /\ backlog' = Tail(backlog)
    /\ sq' = Append(sq, SrvMsg("ACCEPT", h, Head(backlog), None))
    /\ UNCHANGED <<listening, socks, slife, strays, client, net, faults>>

\* The process has no handle left: accept fails.
SrvAcceptFails ==
    /\ Visits(Port) /\ \A h \in Handles : conn[h] # None
    /\ UNCHANGED <<listening, backlog, conn, socks, sq, slife, strays, client, net, faults>>

\* "can't find reading sock": the handle has been closed since.
SrvReadGone(h) ==
    /\ Visits(h) /\ socks[h] = None
    /\ UNCHANGED <<listening, backlog, conn, socks, sq, slife, strays, client, net, faults>>

\* JyTcpSelector::onRead on a connection: a packet is posted.
SrvRecv(h) ==
    /\ Visits(h) /\ socks[h] # None
    /\ LET c == conn[h] IN
       /\ up[c] # <<>>
       /\ up' = [up EXCEPT ![c] = Tail(@)]
       /\ sq' = Append(sq, SrvMsg("READ", h, c, Head(up[c])))
    /\ UNCHANGED <<listening, backlog, conn, socks, slife, strays, client, down, copen, sclosed, reset, faults>>

\* Mutant: the selector thread closes the handle itself.
SrvRecvFailsAndCloses(h) ==
    /\ Visits(h) /\ socks[h] # None
    /\ SrvCut(conn[h]) /\ up[conn[h]] = <<>> /\ Disconnects(sq) < MaxDisc
    /\ sq' = Append(sq, SrvMsg("DISCONNECT", h, conn[h], None))
    /\ sclosed' = sclosed \cup {conn[h]}
    /\ conn' = [conn EXCEPT ![h] = None]
    /\ UNCHANGED <<listening, backlog, socks, slife, strays, client, up, down, copen, reset, faults>>

\* JyTcpSelector::onRead: recv fails, again and again until the loop calls del; or
\* the handle now belongs to a connection that has nothing to read, and recv
\* fails with EWOULDBLOCK, which onRead does not tell from an error.
SrvRecvFails(h) ==
    /\ Visits(h) /\ socks[h] # None
    /\ up[conn[h]] = <<>> /\ Disconnects(sq) < MaxDisc
    /\ sq' = Append(sq, SrvMsg("DISCONNECT", h, conn[h], None))
    /\ strays' = IF SrvCut(conn[h]) THEN strays ELSE strays \cup {conn[h]}
    /\ UNCHANGED <<listening, backlog, conn, socks, slife, client, net, faults>>

\* JyTcpListener::hasWholePacket takes a short first segment for a bad packet:
\* it is thrown away and DISCONNECT posted, while the rest is still to come.
SrvRecvBad(h) ==
    /\ Tears /\ faults < MaxFaults /\ faults' = faults + 1
    /\ Visits(h) /\ socks[h] # None
    /\ LET c == conn[h] IN
       /\ up[c] # <<>>
       /\ up' = [up EXCEPT ![c] = Torn(@)]
       /\ sq' = Append(sq, SrvMsg("DISCONNECT", h, c, None))
    /\ UNCHANGED <<listening, backlog, conn, socks, slife, strays, client, down, copen, sclosed, reset>>

-----------------------------------------------------------------------------
(* The server's message loop                                               *)

SrvHas(cmd) == slife # "dead" /\ sq # <<>> /\ Head(sq).cmd = cmd
Pop         == Tail(sq)

\* JyTcpServer::onListen: a port that cannot be bound is tried again.
OnListen ==
    /\ SrvHas("LISTEN")
    /\ \/ /\ slife = "gone" /\ sq' = Pop /\ UNCHANGED <<listening, faults>>
       \/ /\ slife # "gone" /\ listening' = TRUE /\ sq' = Pop /\ UNCHANGED faults
       \/ /\ slife # "gone" /\ faults < MaxFaults /\ faults' = faults + 1
          /\ sq' = Append(Pop, Head(sq)) /\ UNCHANGED listening
    /\ UNCHANGED <<backlog, conn, socks, slife, selector, client, net>>

\* JyTcpServer::onSockAccept, JyTcpSelector::add.
OnSockAccept ==
    /\ SrvHas("ACCEPT")
    /\ sq' = Pop
    /\ socks' = IF slife = "gone" THEN socks
                ELSE [socks EXCEPT ![Head(sq).sock] = NewListener(conn[Head(sq).sock])]
    /\ UNCHANGED <<listening, backlog, conn, slife, selector, client, net, faults>>

\* Mutant: del closes the handle whether socks_ has it or not.
SrvOnDisconnectBlind ==
    /\ SrvHas("DISCONNECT")
    /\ sq' = Pop
    /\ LET h == Head(sq).sock IN
       /\ socks' = [socks EXCEPT ![h] = None]
       /\ conn' = [conn EXCEPT ![h] = None]
       /\ sclosed' = sclosed \cup {conn[h]}
    /\ UNCHANGED <<listening, backlog, slife, selector, client, up, down, copen, reset, faults>>

\* JyTcpServer::onDisconnect, JyTcpSelector::del: only a handle socks_ has is
\* closed.
SrvOnDisconnect ==
    /\ SrvHas("DISCONNECT")
    /\ sq' = Pop
    /\ LET h == Head(sq).sock IN
       IF slife # "gone" /\ socks[h] # None
       THEN /\ socks' = [socks EXCEPT ![h] = None]
            /\ conn' = [conn EXCEPT ![h] = None]
            /\ sclosed' = sclosed \cup {conn[h]}
            /\ dropped' = IF ready = {} THEN dropped \cup {h} ELSE dropped
       ELSE UNCHANGED <<socks, conn, sclosed, dropped>>
    /\ UNCHANGED <<listening, backlog, slife, ready, strays, client, up, down, copen, reset, faults>>

\* JyTcpServer::onFini: the selector thread is joined, its sockets are closed.
SrvOnFini ==
    /\ SrvHas("FINI")
    /\ sq' = Pop /\ slife' = "gone"
    /\ listening' = FALSE /\ backlog' = <<>>
    /\ sclosed' = sclosed \cup {backlog[i] : i \in DOMAIN backlog}
                          \cup {conn[h] : h \in {k \in Handles : socks[k] # None}}
    /\ conn' = [h \in Handles |-> IF socks[h] # None THEN None ELSE conn[h]]
    /\ socks' = [h \in Handles |-> None]
    /\ ready' = {} /\ dropped' = {}
    /\ UNCHANGED <<strays, client, up, down, copen, reset, faults>>

\* A READ the loop handles: the listener is looked up by the handle.
SrvReads(type) ==
    /\ SrvHas("READ") /\ slife # "gone"
    /\ LET l == socks[Head(sq).sock] IN
       l # None /\ ~Refused(l, Head(sq).pkt) /\ Head(sq).pkt.type = type

\* JyTcpEndpoint::send, JyTcpSelector::onWrite: a failed send posts DISCONNECT.
SrvAnswers(p) ==
    LET h == Head(sq).sock
        c == conn[h]
    IN  \/ /\ sq' = Pop
           /\ down' = IF SrvCut(c) THEN down ELSE [down EXCEPT ![c] = Append(@, p)]
        \/ /\ SrvCut(c) /\ UNCHANGED down
           /\ sq' = Append(Pop, SrvMsg("DISCONNECT", h, c, None))

\* JyTcpEndpoint::onSockRead: after FINI the packet is dropped; a certificate
\* that cannot open it closes the connection.  A type no handler knows is ignored.
SrvDropRead ==
    /\ SrvHas("READ")
    /\ \/ (slife = "gone" \/ SrvReads("rubbish")) /\ sq' = Pop
       \/ /\ slife # "gone"
          /\ LET h == Head(sq).sock IN
             /\ socks[h] # None /\ Refused(socks[h], Head(sq).pkt)
             /\ sq' = Append(Pop, SrvMsg("DISCONNECT", h, conn[h], None))
    /\ UNCHANGED <<listening, backlog, conn, socks, slife, selector, client, net, faults>>

\* JyTcpEndpoint::onSockRead uses getListener's answer unchecked.
SrvNoListener ==
    /\ SrvHas("READ") /\ slife # "gone" /\ socks[Head(sq).sock] = None
    /\ slife' = "dead"
    /\ UNCHANGED <<listening, backlog, conn, socks, sq, selector, client, net, faults>>

\* Mutant: the ciphers are switched before the answer is sent.
SrvReadAsymSwitchFirst ==
    /\ SrvReads("asym")
    /\ LET h == Head(sq).sock IN
       /\ \E n \in Certs : SrvAnswers(Packet("asym", Asym(socks[h].of), "ok", n))
       /\ socks' = [socks EXCEPT ![h].enc = Asym(socks[h].of), ![h].dec = Asym("server")]
    /\ UNCHANGED <<listening, backlog, conn, slife, selector, client, up, copen, sclosed, reset, faults>>

\* JyTcpServer::onReadExchangeAsymSecurity: the answer goes out under the old
\* cipher, then both directions switch.
SrvReadAsym ==
    /\ SrvReads("asym")
    /\ LET h == Head(sq).sock IN
       /\ \E n \in Certs : SrvAnswers(Packet("asym", socks[h].enc, "ok", n))
       /\ socks' = [socks EXCEPT ![h].enc = Asym(socks[h].of), ![h].dec = Asym("server")]
    /\ UNCHANGED <<listening, backlog, conn, slife, selector, client, up, copen, sclosed, reset, faults>>

\* JyTcpServer::onReadExchangeSymSecurity: with another visit code the server
\* answers so and reads with a random key from then on.
SrvReadSym ==
    /\ SrvReads("sym")
    /\ LET h == Head(sq).sock
           c == socks[h].of
           match == Code(c) = SrvCode
       IN
       /\ SrvAnswers(Packet("sym", socks[h].enc, IF match THEN "ok" ELSE "bad", 0))
       /\ socks' = [socks EXCEPT ![h].enc = SymKey("down", c, SrvCode),
                                 ![h].dec = IF match THEN SymKey("up", c, SrvCode) ELSE Random]
    /\ UNCHANGED <<listening, backlog, conn, slife, selector, client, up, copen, sclosed, reset, faults>>

\* Mutant: the last segment but one is marked.
sfReadFileEarly(n) == IF n >= Segments THEN "bad" ELSE IF n + 2 >= Segments THEN "end" ELSE "ok"

\* sfReadFile: the last segment is marked, a place behind it is refused.
sfReadFile(n) == IF n >= Segments THEN "bad" ELSE IF n + 1 = Segments THEN "end" ELSE "ok"

\* SimpleFileServer::onRecvFileReq; a request that is rubbish names no file.
SrvReadUser ==
    /\ SrvReads("user")
    /\ LET h == Head(sq).sock
           p == Head(sq).pkt
       IN SrvAnswers(Packet("user", socks[h].enc,
                            IF Legible(socks[h], p) THEN sfReadFile(p.n) ELSE "bad", p.n))
    /\ UNCHANGED <<listening, backlog, conn, socks, slife, selector, client, up, copen, sclosed, reset, faults>>

\* JyMsgLoop::stop of the server.
SrvStop ==
    /\ "server" \in Quits /\ slife = "run"
    /\ slife' = "stopping"
    /\ sq' = Append(sq, SrvMsg("FINI", None, None, None))
    /\ UNCHANGED <<listening, backlog, conn, socks, selector, client, net, faults>>

-----------------------------------------------------------------------------
(* A client's selector thread                                              *)

CliSelects(c) == clife[c] \in {"run", "stopping"} /\ csocks[c] # None

\* JyTcpSelector::onRead in the client.
CliRecv(c) ==
    /\ CliSelects(c) /\ down[c] # <<>>
    /\ down' = [down EXCEPT ![c] = Tail(@)]
    /\ cq' = [cq EXCEPT ![c] = Append(@, CliMsg("READ", Head(down[c])))]
    /\ UNCHANGED <<server, csocks, csock, clife, begun, file, outcome, up, copen, sclosed, reset, faults>>

CliRecvFails(c) ==
    /\ CliSelects(c) /\ Disconnects(cq[c]) < MaxDisc
    /\ CliCut(c) /\ down[c] = <<>>
    /\ cq' = [cq EXCEPT ![c] = Append(@, Note("DISCONNECT"))]
    /\ UNCHANGED <<server, csocks, csock, clife, begun, file, outcome, net, faults>>

CliRecvBad(c) ==
    /\ Tears /\ faults < MaxFaults /\ faults' = faults + 1
    /\ CliSelects(c) /\ down[c] # <<>>
    /\ down' = [down EXCEPT ![c] = Torn(@)]
    /\ cq' = [cq EXCEPT ![c] = Append(@, Note("DISCONNECT"))]
    /\ UNCHANGED <<server, csocks, csock, clife, begun, file, outcome, up, copen, sclosed, reset>>

-----------------------------------------------------------------------------
(* A client's message loop                                                 *)

CliHas(c, cmd) == clife[c] # "dead" /\ c \notin begun /\ cq[c] # <<>> /\ Head(cq[c]).cmd = cmd
Rest(c)        == Tail(cq[c])
Posts(c, q)    == cq' = [cq EXCEPT ![c] = Rest(c) \o q]

\* JyTcpEndpoint::canSend(sock_).
CanSend(c) == clife[c] # "gone" /\ csock[c]

\* JyTcpClient::onConnectBegin, JyTcpSelector::addConnect up to add(): the
\* selector thread watches the socket from here on.
OnConnectBegin(c) ==
    /\ CliHas(c, "CONNECT_BEGIN") /\ clife[c] # "gone" /\ listening
    /\ csocks' = [csocks EXCEPT ![c] = NewListener(c)]
    /\ copen' = copen \cup {c} /\ backlog' = Append(backlog, c)
    /\ begun' = begun \cup {c} /\ Posts(c, <<>>)
    /\ UNCHANGED <<listening, conn, socks, sq, slife, selector, csock, clife, file, outcome, up, down, sclosed, reset, faults>>

\* JyTcpSelector::addConnect after add().
OnConnectAdded(c) ==
    /\ c \in begun /\ begun' = begun \ {c}
    /\ cq' = [cq EXCEPT ![c] = Append(@, Note("CONNECT_END"))]
    /\ UNCHANGED <<server, csocks, csock, clife, file, outcome, net, faults>>

\* JyTcpSelector::addConnect: connect() fails, before selector_ is used.
OnConnectRefused(c) ==
    /\ CliHas(c, "CONNECT_BEGIN")
    /\ IF listening THEN faults < MaxFaults /\ faults' = faults + 1 ELSE UNCHANGED faults
    /\ Posts(c, <<Note("CONNECT_FAILED")>>)
    /\ UNCHANGED <<server, csocks, csock, clife, begun, file, outcome, net>>

\* Mutant: a refused connect is not tried again.
OnConnectFailedGivesUp(c) ==
    /\ CliHas(c, "CONNECT_FAILED")
    /\ Posts(c, <<>>)
    /\ UNCHANGED <<server, csocks, csock, clife, begun, file, outcome, net, faults>>

\* JyTcpClient::onConnectEnd with no socket: try again.
OnConnectFailed(c) ==
    /\ CliHas(c, "CONNECT_FAILED")
    /\ Posts(c, IF clife[c] = "gone" THEN <<>> ELSE <<Note("CONNECT_BEGIN")>>)
    /\ UNCHANGED <<server, csocks, csock, clife, begun, file, outcome, net, faults>>

\* JyTcpClient::onConnectEnd.
OnConnectEnd(c) ==
    /\ CliHas(c, "CONNECT_END")
    /\ csock' = [csock EXCEPT ![c] = TRUE]
    /\ Posts(c, <<Note(IF c \in Secure THEN "EX_ASYM" ELSE "USER_START")>>)
    /\ UNCHANGED <<server, csocks, clife, begun, file, outcome, net, faults>>

\* JyTcpEndpoint::send in the client.
CliSends(c, type, n) ==
    \/ /\ Posts(c, <<>>)
       /\ up' = IF CliCut(c) THEN up
                ELSE [up EXCEPT ![c] = Append(@, Packet(type, csocks[c].enc, "ok", n))]
    \/ /\ CliCut(c) /\ UNCHANGED up
       /\ Posts(c, <<Note("DISCONNECT")>>)

CliMaySend(c, cmd) == CliHas(c, cmd) /\ CanSend(c) /\ csocks[c] # None

\* JyTcpClient::onExchangeAsymSecurity, onExchangeSymSecurity.
OnExchange(c) ==
    /\ \/ CliMaySend(c, "EX_ASYM") /\ CliSends(c, "asym", 1)
       \/ CliMaySend(c, "EX_SYM") /\ CliSends(c, "sym", 0)
    /\ UNCHANGED <<server, csocks, csock, clife, begun, file, outcome, down, copen, sclosed, reset, faults>>

\* Mutant: two requests are started at once.
OnUserStartTwice(c) ==
    /\ CliHas(c, "USER_START") /\ CanSend(c)
    /\ got' = [got EXCEPT ![c] = <<>>]
    /\ Posts(c, <<Note("USER_REQ"), Note("USER_REQ")>>)
    /\ UNCHANGED <<server, csocks, csock, clife, begun, filePos, short, outcome, net, faults>>

\* SimpleFileClient::onUserStart: a local file left over is unlinked.
OnUserStart(c) ==
    /\ CliHas(c, "USER_START") /\ CanSend(c)
    /\ got' = [got EXCEPT ![c] = <<>>]
    /\ Posts(c, <<Note("USER_REQ")>>)
    /\ UNCHANGED <<server, csocks, csock, clife, begun, filePos, short, outcome, net, faults>>

\* SimpleFileClient::onRecvFileReq
OnRecvFileReq(c) ==
    /\ CliMaySend(c, "USER_REQ") /\ CliSends(c, "user", filePos[c])
    /\ UNCHANGED <<server, csocks, csock, clife, begun, file, outcome, down, copen, sclosed, reset, faults>>

\* The same handlers once the socket is gone.
CliSkips(c) ==
    /\ \E cmd \in {"EX_ASYM", "EX_SYM", "USER_START", "USER_REQ"} : CliHas(c, cmd)
    /\ ~CanSend(c)
    /\ Posts(c, <<>>)
    /\ UNCHANGED <<server, csocks, csock, clife, begun, file, outcome, net, faults>>

\* A READ the client's loop handles.
CliReads(c, type) ==
    /\ CliHas(c, "READ") /\ clife[c] # "gone" /\ csocks[c] # None
    /\ ~Refused(csocks[c], Head(cq[c]).pkt) /\ Head(cq[c]).pkt.type = type

\* JyTcpEndpoint::onSockRead in the client; a type no handler knows is ignored.
CliDropRead(c) ==
    /\ CliHas(c, "READ")
    /\ \/ (clife[c] = "gone" \/ CliReads(c, "rubbish")) /\ Posts(c, <<>>)
       \/ /\ clife[c] # "gone" /\ csocks[c] # None /\ Refused(csocks[c], Head(cq[c]).pkt)
          /\ Posts(c, <<Note("DISCONNECT")>>)
    /\ UNCHANGED <<server, csocks, csock, clife, begun, file, outcome, net, faults>>

\* JyTcpClient::onReadExchangeAsymSecurity: a certificate that is too short
\* closes the connection.
CliReadAsym(c) ==
    /\ CliReads(c, "asym")
    /\ IF ~CanSend(c) THEN Posts(c, <<>>) /\ UNCHANGED csocks
       ELSE IF Head(cq[c]).pkt.n = 0 THEN Posts(c, <<Note("DISCONNECT")>>) /\ UNCHANGED csocks
       ELSE /\ csocks' = [csocks EXCEPT ![c].enc = Asym("server"), ![c].dec = Asym(c)]
            /\ Posts(c, <<Note("EX_SYM")>>)
    /\ UNCHANGED <<server, csock, clife, begun, file, outcome, net, faults>>

\* JyTcpClient::onReadExchangeSymSecurity, and FileManClient's, which closes
\* the connection when the visit code was wrong.
CliReadSym(c) ==
    /\ CliReads(c, "sym")
    /\ IF ~CanSend(c) THEN Posts(c, <<>>) /\ UNCHANGED csocks
       ELSE /\ csocks' = [csocks EXCEPT ![c].enc = SymKey("up", c, Code(c)),
                                        ![c].dec = SymKey("down", c, Code(c))]
            /\ Posts(c, IF c \in FileMan /\ Head(cq[c]).pkt.res = "bad"
                        THEN <<Note("DISCONNECT"), Note("USER_START")>>
                        ELSE <<Note("USER_START")>>)
    /\ UNCHANGED <<server, csock, clife, begun, file, outcome, net, faults>>

\* What onRecvFileAck makes of an answer: rubbish names no result.
Result(c) == LET p == Head(cq[c]).pkt IN IF Legible(csocks[c], p) THEN p.res ELSE "bad"

\* sfWriteFile: the segment is appended, or some of it; what fwrite says is not
\* looked at.
SfWrites(c, n) ==
    \/ got' = [got EXCEPT ![c] = Append(@, n)] /\ UNCHANGED <<short, faults>>
    \/ /\ faults < MaxFaults /\ faults' = faults + 1
       /\ short' = short \cup {c} /\ UNCHANGED got

\* SimpleFileClient::onRecvFileAck: filePos_ goes on by the length of the answer.
CliReadUser(c) ==
    /\ CliReads(c, "user")
    /\ IF Result(c) = "bad" THEN UNCHANGED <<got, short, faults>>
       ELSE SfWrites(c, Head(cq[c]).pkt.n)
    /\ filePos' = IF Result(c) = "ok" THEN [filePos EXCEPT ![c] = @ + 1] ELSE filePos
    /\ outcome' = [outcome EXCEPT ![c] =
          CASE Result(c) = "end" -> "done" [] Result(c) = "bad" -> "failed" [] OTHER -> @]
    /\ Posts(c, IF Result(c) = "ok" THEN <<Note("USER_REQ")>> ELSE <<>>)
    /\ UNCHANGED <<server, csocks, csock, clife, begun, net>>

\* sfWriteFile hands what fopen returned to fwrite, NULL when the local file
\* cannot be opened.
CliNoFile(c) ==
    /\ CliReads(c, "user") /\ Result(c) # "bad"
    /\ faults < MaxFaults /\ faults' = faults + 1
    /\ clife' = [clife EXCEPT ![c] = "dead"]
    /\ outcome' = [outcome EXCEPT ![c] = "crashed"]
    /\ UNCHANGED <<server, csocks, csock, cq, begun, file, net>>

\* JyTcpClient::onDisconnect.
CliOnDisconnect(c) ==
    /\ CliHas(c, "DISCONNECT") /\ clife[c] # "gone"
    /\ csocks' = [csocks EXCEPT ![c] = None]
    /\ copen' = copen \ {c}
    /\ csock' = [csock EXCEPT ![c] = FALSE]
    /\ Posts(c, <<>>)
    /\ UNCHANGED <<server, clife, begun, file, outcome, up, down, sclosed, reset, faults>>

\* JyTcpClient::onFini.
CliOnFini(c) ==
    /\ CliHas(c, "FINI")
    /\ clife' = [clife EXCEPT ![c] = "gone"]
    /\ csocks' = [csocks EXCEPT ![c] = None] /\ copen' = copen \ {c}
    /\ Posts(c, <<>>)
    /\ UNCHANGED <<server, csock, begun, file, outcome, up, down, sclosed, reset, faults>>

\* Handlers that use selector_ or a listener without looking: onDisconnect, and
\* onConnectBegin when connect() succeeds, after FINI; a send or a READ after the
\* socket left socks_.
CliNullPointer(c) ==
    /\ \/ clife[c] = "gone" /\ (CliHas(c, "DISCONNECT") \/ (listening /\ CliHas(c, "CONNECT_BEGIN")))
       \/ /\ clife[c] # "gone" /\ csocks[c] = None
          /\ \/ CliHas(c, "READ")
             \/ csock[c] /\ \E cmd \in {"EX_ASYM", "EX_SYM", "USER_REQ"} : CliHas(c, cmd)
    /\ clife' = [clife EXCEPT ![c] = "dead"]
    /\ UNCHANGED <<server, csocks, csock, cq, begun, file, outcome, net, faults>>

\* JyMsgLoop::stop of a client.
CliStop(c) ==
    /\ c \in Quits /\ clife[c] = "run"
    /\ clife' = [clife EXCEPT ![c] = "stopping"]
    /\ cq' = [cq EXCEPT ![c] = Append(@, Note("FINI"))]
    /\ UNCHANGED <<server, csocks, csock, begun, file, outcome, net, faults>>

-----------------------------------------------------------------------------
SrvLoop == OnListen \/ OnSockAccept \/ SrvOnDisconnect \/ SrvOnFini \/ SrvDropRead
    \/ SrvNoListener \/ SrvReadAsym \/ SrvReadSym \/ SrvReadUser
SrvSelect(h) == SrvAccept(h) \/ SrvReadGone(h) \/ SrvRecv(h) \/ SrvRecvFails(h) \/ SrvRecvBad(h)
SrvSelector  == SrvPoll \/ SrvAcceptFails \/ \E h \in Handles : SrvSelect(h)

CliLoop(c) == OnConnectBegin(c) \/ OnConnectAdded(c) \/ OnConnectRefused(c) \/ OnConnectFailed(c)
    \/ OnConnectEnd(c) \/ OnExchange(c) \/ OnUserStart(c) \/ OnRecvFileReq(c) \/ CliSkips(c)
    \/ CliDropRead(c) \/ CliReadAsym(c) \/ CliReadSym(c) \/ CliReadUser(c)
    \/ CliNoFile(c)
    \/ CliOnDisconnect(c) \/ CliOnFini(c) \/ CliNullPointer(c)
CliSelect(c) == CliRecv(c) \/ CliRecvFails(c) \/ CliRecvBad(c)

Next ==
    \/ SrvLoop \/ SrvStop \/ SrvSelector
    \/ \E c \in Clients : CliLoop(c) \/ CliSelect(c) \/ CliStop(c) \/ Reset(c)

Spec == Init /\ [][Next]_vars

\* Every thread runs; nobody has to stop an endpoint or break a connection.
FairSpec ==
    /\ Spec
    /\ WF_vars(SrvLoop) /\ WF_vars(SrvSelector)
    /\ \A c \in Clients : WF_vars(CliLoop(c)) /\ WF_vars(CliSelect(c))

-----------------------------------------------------------------------------
(* Properties                                                              *)

Lives == {"run", "stopping", "gone", "dead"}

\* Every variable holds a value of its type; a READ carries a packet.
TypeOK ==
    /\ listening \in BOOLEAN /\ backlog \in Seq(Clients)
    /\ conn \in [Handles -> Clients \cup {None}]
    /\ socks \in [Handles -> Listeners \cup {None}]
    /\ sq \in Seq(SrvMsgs) /\ slife \in Lives
    /\ ready \subseteq Handles \cup {Port} /\ dropped \subseteq Handles /\ strays \subseteq Clients
    /\ csocks \in [Clients -> Listeners \cup {None}] /\ csock \in [Clients -> BOOLEAN]
    /\ cq \in [Clients -> Seq(CliMsgs)] /\ clife \in [Clients -> Lives]
    /\ begun \subseteq Clients
    /\ up \in [Clients -> Seq(Packets)] /\ down \in [Clients -> Seq(Packets)]
    /\ copen \subseteq Clients /\ sclosed \subseteq Clients /\ reset \subseteq Clients
    /\ filePos \in [Clients -> Nat] /\ got \in [Clients -> Seq(Nat)] /\ short \subseteq Clients
    /\ outcome \in [Clients -> {"none", "done", "failed", "crashed"}] /\ faults \in Nat

\* A packet or a disconnect that is still queued when its handle is closed and
\* given to the next connection never meets that connection's listener: onRead
\* and onDisconnect look listeners up by handle alone.
HandlesNotConfused ==
    \A i \in DOMAIN sq :
        sq[i].cmd \in {"READ", "DISCONNECT"} /\ socks[sq[i].sock] # None
        => socks[sq[i].sock].of = sq[i].of

\* Why it holds: a handle is accepted only when it is closed, and ACCEPT is the
\* last message about it, since the selector posts nothing for a handle that is
\* not in socks_.
HandleInv ==
    /\ \A h \in Handles : socks[h] # None => conn[h] = socks[h].of
    /\ \A i \in DOMAIN sq : sq[i].cmd = "ACCEPT" =>
        /\ socks[sq[i].sock] = None /\ conn[sq[i].sock] = sq[i].of
        /\ \A j \in DOMAIN sq : j > i => sq[j].sock # sq[i].sock
    /\ HandlesNotConfused

\* Both ends switch ciphers in step: whatever packet is handled was encrypted
\* with what its reader decrypts with (JyTcpServer and JyTcpClient
\* onReadExchangeAsymSecurity, onReadExchangeSymSecurity), except the user
\* packets of a client with another visit code and what a torn packet leaves.
InStep(c, l, p) == \/ Legible(l, p)
                   \/ c \notin Knows /\ p.type = "user"
                   \/ p.type = "rubbish"

CiphersInStep ==
    /\ sq # <<>> /\ Head(sq).cmd = "READ" /\ socks[Head(sq).sock] # None =>
        InStep(Head(sq).of, socks[Head(sq).sock], Head(sq).pkt)
    /\ \A c \in Clients :
        cq[c] # <<>> /\ Head(cq[c]).cmd = "READ" /\ csocks[c] # None =>
        InStep(c, csocks[c], Head(cq[c]).pkt)

\* No order of resets, closes, stops and queued packets makes the server use the
\* listener of a socket that is no longer in socks_ (JyTcpEndpoint::onSockRead), but
\* for a packet of a connection that a stale answer of select() has disconnected.
ServerSurvives == slife = "dead" => sq # <<>> /\ Head(sq).of \in strays

\* A client that reports "recv file ok" has every segment, once and in order,
\* although sfWriteFile appends and ignores the position in the packet; unless its
\* disk was full, which sfWriteFile ignores too.
DownloadWhole ==
    \A c \in Clients \ short : outcome[c] = "done" => got[c] = [i \in 1..Segments |-> i - 1]

\* A client that has the visit code or needs none gets the file, however often
\* binding and connecting fail first, unless its connection breaks, a stale answer
\* of select() disconnects it or ends the server, one of the two ends is stopped, or
\* its local file cannot be opened.
DownloadEnds ==
    \A c \in Knows \cup (Clients \ Secure) :
        <>(\/ outcome[c] \in {"done", "crashed"} \/ c \in reset \cup strays
           \/ slife = "dead" /\ strays # {}
           \/ "server" \in Quits /\ slife \in {"stopping", "gone"}
           \/ c \in Quits /\ clife[c] # "run")

\* "visit code mismatch, will close client" (JyTcpServer::onReadExchangeSymSecurity):
\* the server's end of such a connection is closed in the end.
MismatchCloses ==
    \A c \in Clients \ Knows :
        (\E h \in Handles : socks[h] # None /\ socks[h].of = c /\ socks[h].dec = Random)
        ~> c \in sclosed
-----------------------------------------------------------------------------
(* The inductive invariant                                                 *)

\* What keeps a connection going is one token per client: a note that makes it
\* send, or a packet on its way to either loop.
UpTokens      == {p \in Packets : p.type # "rubbish"}
SrvTokens(c)  == {m \in SrvMsgs : m.cmd = "READ" /\ m.of = c /\ m.pkt.type # "rubbish"}
CliTokens     == {m \in CliMsgs : /\ m.cmd \notin {"DISCONNECT", "FINI"}
                                  /\ m.cmd = "READ" => m.pkt.type # "rubbish"}
Holds(q, S)   == \E i \in DOMAIN q : q[i] \in S
AtMost1(q, S) == \A i, j \in DOMAIN q : q[i] \in S /\ q[j] \in S => i = j

OneToken(c) ==
    /\ AtMost1(cq[c], CliTokens) /\ AtMost1(up[c], UpTokens)
    /\ AtMost1(sq, SrvTokens(c)) /\ AtMost1(down[c], UpTokens)
    /\ c \in begun => ~Holds(cq[c], CliTokens)
    /\ c \in begun \/ Holds(cq[c], CliTokens) =>
        ~Holds(up[c], UpTokens) /\ ~Holds(sq, SrvTokens(c)) /\ ~Holds(down[c], UpTokens)
    /\ Holds(up[c], UpTokens) => ~Holds(sq, SrvTokens(c)) /\ ~Holds(down[c], UpTokens)
    /\ Holds(sq, SrvTokens(c)) => ~Holds(down[c], UpTokens)

\* The token tells how far the exchanges are, and with that the ciphers of both
\* listeners: "new", "open", then "asking", "half asym", "asym", "half sym" for
\* the clients with the exchanges, and "user".
SrvCiphers(c, stage) ==
    IF stage \in {"new", "open", "asking"} \/ c \notin Secure THEN [enc |-> Clear, dec |-> Clear]
    ELSE IF stage \in {"half asym", "asym"} THEN [enc |-> Asym(c), dec |-> Asym("server")]
    ELSE [enc |-> SymKey("down", c, SrvCode),
          dec |-> IF Code(c) = SrvCode THEN SymKey("up", c, SrvCode) ELSE Random]

CliCiphers(c, stage) ==
    IF stage \in {"new", "open", "asking", "half asym"} \/ c \notin Secure THEN [enc |-> Clear, dec |-> Clear]
    ELSE IF stage \in {"asym", "half sym"} THEN [enc |-> Asym("server"), dec |-> Asym(c)]
    ELSE [enc |-> SymKey("up", c, Code(c)), dec |-> SymKey("down", c, Code(c))]

\* The server has no listener yet, but will.
Waiting(c) == \/ \E i \in DOMAIN backlog : backlog[i] = c
              \/ \E h \in Handles : conn[h] = c /\ socks[h] = None

\* Nothing has been downloaded.
Unread(c) == filePos[c] = 0

Reached(c, stage) ==
    /\ \A h \in Handles : conn[h] = c /\ socks[h] # None =>
        socks[h].enc = SrvCiphers(c, stage).enc /\ socks[h].dec = SrvCiphers(c, stage).dec
    /\ csocks[c] # None =>
        csocks[c].enc = CliCiphers(c, stage).enc /\ csocks[c].dec = CliCiphers(c, stage).dec
    /\ stage = "new" => ~Waiting(c) /\ \A h \in Handles : conn[h] # c
    /\ stage \in {"asking", "half asym", "asym", "half sym"} => c \in Secure
    /\ stage \notin {"new", "open", "asking"} /\ c \in Secure => ~Waiting(c)
    /\ stage # "user" => Unread(c)

UpFits(c, p) ==
    /\ p.type = "asym" => Reached(c, "asking") /\ p.cipher = Clear
    /\ p.type = "sym"  => Reached(c, "asym") /\ p.cipher = Asym("server")
    /\ p.type = "user" => /\ Reached(c, "user") /\ p.cipher = CliCiphers(c, "user").enc
                          /\ p.n = filePos[c]

DownFits(c, p) ==
    /\ p.type = "asym" => Reached(c, "half asym") /\ p.cipher = Clear
    /\ p.type = "sym"  => Reached(c, "half sym") /\ p.cipher = Asym(c)
    /\ p.type = "user" => /\ Reached(c, "user") /\ p.cipher = SrvCiphers(c, "user").enc
                          /\ p.n = filePos[c] /\ (p.res = "end" => p.n + 1 = Segments)

NoteFits(c, m) ==
    /\ m.cmd \in {"CONNECT_BEGIN", "CONNECT_FAILED"} => Reached(c, "new")
    /\ m.cmd = "CONNECT_END" => Reached(c, "open")
    /\ m.cmd = "EX_ASYM" => Reached(c, "asking")
    /\ m.cmd = "EX_SYM"  => Reached(c, "asym")
    /\ m.cmd \in {"USER_START", "USER_REQ"} => Reached(c, "user")
    /\ m.cmd = "USER_START" => Unread(c)
    /\ m.cmd = "READ" => DownFits(c, m.pkt)

TokenFits(c) ==
    /\ c \in begun => Reached(c, "open")
    /\ \A i \in DOMAIN cq[c] : NoteFits(c, cq[c][i])
    /\ \A i \in DOMAIN up[c] : UpFits(c, up[c][i])
    /\ \A i \in DOMAIN sq : sq[i].cmd = "READ" /\ sq[i].of = c => UpFits(c, sq[i].pkt)
    /\ \A i \in DOMAIN down[c] : DownFits(c, down[c][i])

\* What is downloaded is the beginning of the file, up to filePos_; no token is left
\* at its end.
Downloaded(c) ==
    /\ c \notin short => /\ got[c] = [i \in 1 .. Len(got[c]) |-> i - 1]
                         /\ Len(got[c]) = IF outcome[c] = "done" THEN Segments ELSE filePos[c]
    /\ outcome[c] = "done" =>
        /\ c \notin begun /\ ~Holds(cq[c], CliTokens) /\ ~Holds(up[c], UpTokens)
        /\ ~Holds(sq, SrvTokens(c)) /\ ~Holds(down[c], UpTokens)

\* A client is at one place of the server.
OncePerClient ==
    /\ \A h, k \in Handles : conn[h] # None /\ conn[h] = conn[k] => h = k
    /\ \A i, j \in DOMAIN backlog : backlog[i] = backlog[j] => i = j
    /\ \A i \in DOMAIN backlog, h \in Handles : conn[h] # backlog[i]

ClientInv(c) == OneToken(c) /\ TokenFits(c) /\ Downloaded(c)
TokenInv == OncePerClient /\ \A c \in Clients : ClientInv(c)

\* Without torn packets a queued DISCONNECT means that nothing more will come from
\* the connection, so that no READ stands behind it; unless it comes from a stale
\* answer of select().
CutInv ==
    /\ \A c \in Clients : /\ \A i \in DOMAIN up[c] : up[c][i].type # "rubbish"
                          /\ \A i \in DOMAIN down[c] : down[c][i].type # "rubbish"
                          /\ csocks[c] # None => c \in copen
    /\ \A i \in DOMAIN sq :
        /\ sq[i].cmd = "READ" =>
            /\ sq[i].pkt.type # "rubbish"
            /\ slife # "gone" => socks[sq[i].sock] # None \/ sq[i].of \in strays
        /\ sq[i].cmd = "DISCONNECT" /\ sq[i].of \notin strays =>
            /\ \A j \in DOMAIN sq : j > i /\ sq[j].cmd = "READ" => sq[j].sock # sq[i].sock
            /\ socks[sq[i].sock] # None =>
                SrvCut(conn[sq[i].sock]) /\ up[conn[sq[i].sock]] = <<>>
    /\ ServerSurvives

LinkInv == TypeOK /\ HandleInv /\ TokenInv /\ (Tears \/ CutInv)
=============================================================================
