---------------------------- MODULE TcpLinkProofs ----------------------------
(***************************************************************************)
(* Theorems about TcpLink, for any number of clients and handles and under   *)
(* every fault of the model: types; nothing queued for a closed connection  *)
(* reaches the connection that gets its handle next; both ends switch       *)
(* ciphers in step; a finished download is the whole file, unless a write    *)
(* stored less; and, where packets arrive whole, the server outlives every   *)
(* order of closing, unless a stale answer of select() has disconnected a    *)
(* connection that works.                                                   *)
(*                                                                         *)
(* The last three rest on one idea: a client has at most one token, a note  *)
(* or a packet that keeps its connection going, and the token tells how far *)
(* the exchanges are.  The lemmas say what a step does to a token: it is    *)
(* lost (Loses), taken from its place (TakesNote, TakesUp, TakesRead,       *)
(* TakesDown) or put into the next one (PutsNote, ...).                     *)
(***************************************************************************)
EXTENDS TcpLink, SequenceTheorems, TLAPS

-----------------------------------------------------------------------------
(* Types of what is built                                                  *)

\* Every cipher the exchanges install is a cipher.
LEMMA CipherTypes ==
    /\ Clear \in Ciphers /\ Random \in Ciphers /\ Asym("server") \in Ciphers
    /\ \A c \in Clients : Asym(c) \in Ciphers
    /\ \A c \in Clients : SymKey("up", c, SrvCode) \in Ciphers /\ SymKey("down", c, SrvCode) \in Ciphers
    /\ \A c \in Clients : SymKey("up", c, Code(c)) \in Ciphers /\ SymKey("down", c, Code(c)) \in Ciphers
<1>1. \A c \in Clients : Code(c) \in {SrvCode, "another code"} BY DEF Code
<1>2. \A c \in Clients \cup {"server"} : Asym(c) \in {"asym"} \X (Clients \cup {"server"}) BY DEF Asym
<1>3. \A w \in {"up", "down"}, c \in Clients, d \in {SrvCode, "another code"} :
        SymKey(w, c, d) \in {"sym"} \X {"up", "down"} \X Clients \X {SrvCode, "another code"}
  BY DEF SymKey
<1>4. Clear \in Ciphers /\ Random \in Ciphers BY DEF Ciphers
<1>5. \A c \in Clients \cup {"server"} : Asym(c) \in Ciphers BY <1>2 DEF Ciphers
<1>6. \A w \in {"up", "down"}, c \in Clients, d \in {SrvCode, "another code"} : SymKey(w, c, d) \in Ciphers
  BY <1>3 DEF Ciphers
<1> QED BY <1>1, <1>4, <1>5, <1>6

\* Messages of the server's queue.
LEMMA SrvMsgTypes ==
    /\ \A h \in Handles, c \in Clients :
        /\ SrvMsg("ACCEPT", h, c, None) \in SrvMsgs
        /\ SrvMsg("DISCONNECT", h, c, None) \in SrvMsgs
        /\ \A p \in Packets : SrvMsg("READ", h, c, p) \in SrvMsgs
    /\ SrvMsg("LISTEN", None, None, None) \in SrvMsgs
    /\ SrvMsg("FINI", None, None, None) \in SrvMsgs
BY DEF SrvMsg, SrvMsgs, SrvCmds

\* Messages of a client's queue.
LEMMA CliMsgTypes ==
    /\ \A cmd \in CliCmds \ {"READ"} : Note(cmd) \in CliMsgs
    /\ \A p \in Packets : CliMsg("READ", p) \in CliMsgs
BY DEF Note, CliMsg, CliMsgs, CliCmds

\* Packets.
LEMMA PacketTypes ==
    ASSUME NEW t \in {"asym", "sym", "user", "rubbish"}, NEW k \in Ciphers,
           NEW r \in {"ok", "end", "bad"}, NEW n \in Nat
    PROVE  Packet(t, k, r, n) \in Packets
BY DEF Packet, Packets

\* A torn stream is a stream.
LEMMA TornType ==
    ASSUME NEW q \in Seq(Packets), q # <<>>
    PROVE  Torn(q) \in Seq(Packets)
<1>1. Tail(q) \in Seq(Packets) OBVIOUS
<1>2. Packet("rubbish", Clear, "bad", 0) \in Packets BY PacketTypes, CipherTypes
<1>3. <<Packet("rubbish", Clear, "bad", 0)>> \in Seq(Packets) BY <1>2
<1>4. <<Packet("rubbish", Clear, "bad", 0)>> \o Tail(q) \in Seq(Packets) BY <1>1, <1>3
<1> QED BY <1>1, <1>4 DEF Torn

\* The head and the rest of the server's queue.
LEMMA SrvHead ==
    ASSUME TypeOK, sq # <<>>
    PROVE  /\ Head(sq) \in SrvMsgs /\ Pop \in Seq(SrvMsgs)
           /\ Head(sq).cmd \in {"ACCEPT", "READ", "DISCONNECT"}
              => Head(sq).sock \in Handles /\ Head(sq).of \in Clients
           /\ Head(sq).cmd = "READ" => Head(sq).pkt \in Packets
<1>1. Head(sq) \in SrvMsgs /\ Pop \in Seq(SrvMsgs) BY DEF TypeOK, Pop
<1> QED BY <1>1 DEF SrvMsgs

\* The queue of a client after its head was handled and a few notes posted.
LEMMA PostsType ==
    ASSUME TypeOK, NEW c \in Clients, cq[c] # <<>>, NEW q \in Seq(CliMsgs), Posts(c, q)
    PROVE  cq' \in [Clients -> Seq(CliMsgs)]
<1>1. Tail(cq[c]) \in Seq(CliMsgs) BY DEF TypeOK
<1>2. Tail(cq[c]) \o q \in Seq(CliMsgs) BY <1>1
<1> QED BY <1>2 DEF Posts, Rest, TypeOK

\* The notes the handlers post.
LEMMA NoteTypes ==
    /\ <<>> \in Seq(CliMsgs)
    /\ \A cmd \in CliCmds \ {"READ"} : <<Note(cmd)>> \in Seq(CliMsgs)
    /\ <<Note("DISCONNECT"), Note("USER_START")>> \in Seq(CliMsgs)
<1>1. Note("DISCONNECT") \in CliMsgs /\ Note("USER_START") \in CliMsgs BY CliMsgTypes DEF CliCmds
<1> QED BY <1>1, CliMsgTypes

-----------------------------------------------------------------------------
(* Type correctness                                                        *)

\* The server's selector thread and the network.
LEMMA SelectTypes ==
    ASSUME TypeOK, HandleInv, NEW h \in Handles, SrvSelect(h)
    PROVE  TypeOK'
<1>0. /\ ready' \subseteq Handles \cup {Port} /\ dropped' \subseteq Handles
      /\ SrvReadGone(h) => strays' \subseteq Clients
  BY DEF SrvSelect, SrvAccept, SrvReadGone, SrvRecv, SrvRecvFails, SrvRecvBad, Visits, TypeOK
<1>1. CASE SrvAccept(h)
  <2>1. Head(backlog) \in Clients /\ Tail(backlog) \in Seq(Clients) BY <1>1 DEF SrvAccept, TypeOK
  <2>2. sq' \in Seq(SrvMsgs) BY <1>1, <2>1, SrvMsgTypes DEF SrvAccept, TypeOK
  <2> QED BY <1>0, <1>1, <2>1, <2>2 DEF SrvAccept, TypeOK, client, file, net, selector
<1>2. ASSUME socks[h] # None PROVE conn[h] \in Clients
  BY <1>2 DEF TypeOK, HandleInv, Listeners
<1>3. CASE SrvRecv(h)
  <2> DEFINE c == conn[h]
  <2>1. c \in Clients BY <1>2, <1>3 DEF SrvRecv
  <2>2. Head(up[c]) \in Packets /\ Tail(up[c]) \in Seq(Packets) BY <1>3, <2>1 DEF SrvRecv, TypeOK
  <2>3. sq' \in Seq(SrvMsgs) BY <1>3, <2>1, <2>2, SrvMsgTypes DEF SrvRecv, TypeOK
  <2>4. up' \in [Clients -> Seq(Packets)] BY <1>3, <2>1, <2>2 DEF SrvRecv, TypeOK
  <2> QED BY <1>0, <1>3, <2>3, <2>4 DEF SrvRecv, TypeOK, client, file, selector
<1>4. CASE SrvRecvFails(h)
  <2>1. conn[h] \in Clients BY <1>2, <1>4 DEF SrvRecvFails
  <2>2. sq' \in Seq(SrvMsgs) BY <1>4, <2>1, SrvMsgTypes DEF SrvRecvFails, TypeOK
  <2>3. strays' \subseteq Clients BY <1>4, <2>1 DEF SrvRecvFails, TypeOK
  <2> QED BY <1>0, <1>4, <2>2, <2>3 DEF SrvRecvFails, TypeOK, client, file, net, selector
<1>5. CASE SrvRecvBad(h)
  <2> DEFINE c == conn[h]
  <2>1. c \in Clients BY <1>2, <1>5 DEF SrvRecvBad
  <2>2. Torn(up[c]) \in Seq(Packets) BY <1>5, <2>1, TornType DEF SrvRecvBad, TypeOK
  <2>3. sq' \in Seq(SrvMsgs) BY <1>5, <2>1, SrvMsgTypes DEF SrvRecvBad, TypeOK
  <2>4. up' \in [Clients -> Seq(Packets)] BY <1>5, <2>1, <2>2 DEF SrvRecvBad, TypeOK
  <2>5. faults' \in Nat BY <1>5 DEF SrvRecvBad, TypeOK
  <2> QED BY <1>0, <1>5, <2>3, <2>4, <2>5 DEF SrvRecvBad, TypeOK, client, file, selector
<1>6. CASE SrvReadGone(h)
  BY <1>0, <1>6 DEF SrvReadGone, TypeOK, client, file, net
<1> QED BY <1>1, <1>3, <1>4, <1>5, <1>6 DEF SrvSelect

\* select(), and accept that fails.
LEMMA PollTypes ==
    ASSUME TypeOK, SrvPoll \/ SrvAcceptFails
    PROVE  TypeOK'
<1>1. /\ ready' \subseteq Handles \cup {Port} /\ dropped' \subseteq Handles
      /\ UNCHANGED <<listening, backlog, conn, socks, sq, slife, strays, client, net, faults>>
  BY DEF SrvPoll, SrvAcceptFails, Visits, Found, TypeOK
<1> QED BY <1>1 DEF TypeOK, client, file, net

\* An answer of the server: what was built, or DISCONNECT in its queue.
LEMMA AnswerTypes ==
    ASSUME TypeOK, SrvHas("READ"), conn[Head(sq).sock] \in Clients, NEW p \in Packets, SrvAnswers(p)
    PROVE  sq' \in Seq(SrvMsgs) /\ down' \in [Clients -> Seq(Packets)]
<1> DEFINE h == Head(sq).sock
           c == conn[h]
<1>1. h \in Handles /\ Pop \in Seq(SrvMsgs) BY SrvHead DEF SrvHas
<1>2. SrvMsg("DISCONNECT", h, c, None) \in SrvMsgs BY <1>1, SrvMsgTypes
<1>3. Append(Pop, SrvMsg("DISCONNECT", h, c, None)) \in Seq(SrvMsgs) BY <1>1, <1>2
<1>4. Append(down[c], p) \in Seq(Packets) BY DEF TypeOK
<1>5. [down EXCEPT ![c] = Append(@, p)] \in [Clients -> Seq(Packets)] BY <1>4 DEF TypeOK
<1> QED BY <1>1, <1>3, <1>5 DEF SrvAnswers, TypeOK

\* A READ that is handled: its handle, its listener, its connection.
LEMMA ReadFacts ==
    ASSUME TypeOK, HandleInv, SrvHas("READ"), socks[Head(sq).sock] # None
    PROVE  /\ Head(sq).sock \in Handles /\ socks[Head(sq).sock] \in Listeners
           /\ conn[Head(sq).sock] \in Clients /\ conn[Head(sq).sock] = socks[Head(sq).sock].of
           /\ Head(sq).pkt \in Packets
<1>1. Head(sq).sock \in Handles /\ Head(sq).pkt \in Packets BY SrvHead DEF SrvHas
<1>2. socks[Head(sq).sock] \in Listeners BY <1>1 DEF TypeOK
<1>3. conn[Head(sq).sock] = socks[Head(sq).sock].of BY <1>1 DEF HandleInv
<1> QED BY <1>1, <1>2, <1>3 DEF Listeners

\* The server's handlers.
LEMMA LoopTypes ==
    ASSUME TypeOK, HandleInv, SrvLoop
    PROVE  TypeOK'
<1> DEFINE h == Head(sq).sock
           c == socks[h].of
<1>1. CASE OnListen
  <2>1. Head(sq) \in SrvMsgs /\ Pop \in Seq(SrvMsgs) BY <1>1, SrvHead DEF OnListen, SrvHas
  <2>2. Append(Pop, Head(sq)) \in Seq(SrvMsgs) BY <2>1
  <2>3. sq' \in Seq(SrvMsgs) BY <1>1, <2>1, <2>2 DEF OnListen
  <2>4. listening' \in BOOLEAN BY <1>1 DEF OnListen, TypeOK
  <2>5. faults' \in Nat BY <1>1 DEF OnListen, TypeOK
  <2> QED BY <1>1, <2>3, <2>4, <2>5 DEF OnListen, TypeOK, client, file, net, selector
<1>2. CASE OnSockAccept
  <2>1. sq # <<>> /\ Head(sq).cmd = "ACCEPT" BY <1>2 DEF OnSockAccept, SrvHas
  <2>2. h \in Handles /\ Head(sq).of \in Clients /\ Pop \in Seq(SrvMsgs) BY <2>1, SrvHead
  <2>3. 1 \in DOMAIN sq /\ Head(sq) = sq[1] BY <2>1 DEF TypeOK
  <2>4. conn[h] \in Clients BY <2>1, <2>2, <2>3 DEF HandleInv
  <2>5. NewListener(conn[h]) \in Listeners BY <2>4, CipherTypes DEF NewListener, Listeners
  <2>6. socks' \in [Handles -> Listeners \cup {None}] BY <1>2, <2>2, <2>5 DEF OnSockAccept, TypeOK
  <2> QED BY <1>2, <2>2, <2>6 DEF OnSockAccept, TypeOK, client, file, net, selector
<1>3. CASE SrvOnDisconnect
  <2>1. h \in Handles /\ Pop \in Seq(SrvMsgs) BY <1>3, SrvHead DEF SrvOnDisconnect, SrvHas
  <2>2. socks[h] # None => conn[h] \in Clients BY <2>1 DEF HandleInv, TypeOK, Listeners
  <2>3. socks' \in [Handles -> Listeners \cup {None}] BY <1>3, <2>1 DEF SrvOnDisconnect, TypeOK
  <2>4. conn' \in [Handles -> Clients \cup {None}] BY <1>3, <2>1 DEF SrvOnDisconnect, TypeOK
  <2>5. sclosed' \subseteq Clients BY <1>3, <2>2 DEF SrvOnDisconnect, TypeOK
  <2>6. dropped' \subseteq Handles BY <1>3, <2>1 DEF SrvOnDisconnect, TypeOK
  <2> QED BY <1>3, <2>1, <2>3, <2>4, <2>5, <2>6 DEF SrvOnDisconnect, TypeOK, client, file, selector
<1>4. CASE SrvOnFini
  <2>1. Pop \in Seq(SrvMsgs) BY <1>4, SrvHead DEF SrvOnFini, SrvHas
  <2>2. \A k \in Handles : socks[k] # None => conn[k] \in Clients BY DEF HandleInv, TypeOK, Listeners
  <2>3. \A i \in DOMAIN backlog : backlog[i] \in Clients BY DEF TypeOK
  <2>4. sclosed' \subseteq Clients BY <1>4, <2>2, <2>3 DEF SrvOnFini, TypeOK
  <2>5. conn' \in [Handles -> Clients \cup {None}] BY <1>4 DEF SrvOnFini, TypeOK
  <2>6. socks' \in [Handles -> Listeners \cup {None}] BY <1>4 DEF SrvOnFini
  <2>7. backlog' \in Seq(Clients) /\ slife' \in Lives BY <1>4 DEF SrvOnFini, Lives
  <2> QED BY <1>4, <2>1, <2>4, <2>5, <2>6, <2>7 DEF SrvOnFini, TypeOK, client, file, selector
<1>5. CASE SrvDropRead
  <2>1. Pop \in Seq(SrvMsgs) BY <1>5, SrvHead DEF SrvDropRead, SrvHas
  <2>2. ASSUME socks[h] # None PROVE Append(Pop, SrvMsg("DISCONNECT", h, conn[h], None)) \in Seq(SrvMsgs)
    BY <1>5, <2>1, <2>2, ReadFacts, SrvMsgTypes DEF SrvDropRead
  <2>3. sq' \in Seq(SrvMsgs) BY <1>5, <2>1, <2>2 DEF SrvDropRead
  <2> QED BY <1>5, <2>3 DEF SrvDropRead, TypeOK, client, file, net, selector
<1>6. CASE SrvNoListener
  <2>1. slife' \in Lives BY <1>6 DEF SrvNoListener, Lives
  <2> QED BY <1>6, <2>1 DEF SrvNoListener, TypeOK, client, file, net, selector
<1>7. CASE SrvReadAsym
  <2>1. SrvHas("READ") /\ socks[h] # None BY <1>7 DEF SrvReadAsym, SrvReads
  <2>2. h \in Handles /\ socks[h] \in Listeners /\ conn[h] \in Clients /\ c \in Clients BY <2>1, ReadFacts
  <2>3. PICK n \in Certs : SrvAnswers(Packet("asym", socks[h].enc, "ok", n)) BY <1>7 DEF SrvReadAsym
  <2>6. Packet("asym", socks[h].enc, "ok", n) \in Packets
    <3>1. n \in Nat BY LinkAssumption
    <3>2. socks[h].enc \in Ciphers BY <2>2 DEF Listeners
    <3> QED BY <3>1, <3>2, PacketTypes
  <2>4. sq' \in Seq(SrvMsgs) /\ down' \in [Clients -> Seq(Packets)]
    BY <2>1, <2>2, <2>3, <2>6, AnswerTypes
  <2>7. [socks[h] EXCEPT !.enc = Asym(c), !.dec = Asym("server")] \in Listeners
    BY <2>2, CipherTypes DEF Listeners
  <2>5. socks' \in [Handles -> Listeners \cup {None}]
    BY <1>7, <2>2, <2>7 DEF SrvReadAsym, TypeOK
  <2> QED BY <1>7, <2>4, <2>5 DEF SrvReadAsym, TypeOK, client, file, selector
<1>8. CASE SrvReadSym
  <2>1. SrvHas("READ") /\ socks[h] # None BY <1>8 DEF SrvReadSym, SrvReads
  <2>2. h \in Handles /\ socks[h] \in Listeners /\ conn[h] \in Clients /\ c \in Clients BY <2>1, ReadFacts
  <2>3. Packet("sym", socks[h].enc, IF Code(c) = SrvCode THEN "ok" ELSE "bad", 0) \in Packets
    BY <2>2, PacketTypes DEF Listeners
  <2>4. sq' \in Seq(SrvMsgs) /\ down' \in [Clients -> Seq(Packets)]
    BY <1>8, <2>1, <2>2, <2>3, AnswerTypes DEF SrvReadSym
  <2>5. socks' \in [Handles -> Listeners \cup {None}]
    BY <1>8, <2>2, CipherTypes DEF SrvReadSym, TypeOK, Listeners
  <2> QED BY <1>8, <2>4, <2>5 DEF SrvReadSym, TypeOK, client, file, selector
<1>9. CASE SrvReadUser
  <2> DEFINE p == Head(sq).pkt
             r == IF Legible(socks[h], p) THEN sfReadFile(p.n) ELSE "bad"
  <2>1. SrvHas("READ") /\ socks[h] # None BY <1>9 DEF SrvReadUser, SrvReads
  <2>2. h \in Handles /\ socks[h] \in Listeners /\ conn[h] \in Clients /\ p \in Packets BY <2>1, ReadFacts
  <2>3. p.n \in Nat /\ r \in {"ok", "end", "bad"} BY <2>2 DEF Packets, sfReadFile
  <2>4. socks[h].enc \in Ciphers BY <2>2 DEF Listeners
  <2> HIDE DEF r
  <2>5. Packet("user", socks[h].enc, r, p.n) \in Packets BY <2>3, <2>4, PacketTypes
  <2>6. SrvAnswers(Packet("user", socks[h].enc, r, p.n)) BY <1>9 DEF SrvReadUser, r
  <2>7. sq' \in Seq(SrvMsgs) /\ down' \in [Clients -> Seq(Packets)]
    BY <2>1, <2>2, <2>5, <2>6, AnswerTypes
  <2> QED BY <1>9, <2>7 DEF SrvReadUser, TypeOK, client, file, selector
<1> QED BY <1>1, <1>2, <1>3, <1>4, <1>5, <1>6, <1>7, <1>8, <1>9 DEF SrvLoop

\* A client's send: a packet on the way, or DISCONNECT in its queue.
LEMMA SendTypes ==
    ASSUME TypeOK, NEW c \in Clients, cq[c] # <<>>, csocks[c] # None,
           NEW t \in {"asym", "sym", "user"}, NEW n \in Nat, CliSends(c, t, n)
    PROVE  up' \in [Clients -> Seq(Packets)] /\ cq' \in [Clients -> Seq(CliMsgs)]
<1> DEFINE p == Packet(t, csocks[c].enc, "ok", n)
<1>1. csocks[c].enc \in Ciphers BY DEF TypeOK, Listeners
<1>2. p \in Packets BY <1>1, PacketTypes
<1> HIDE DEF p
<1>3. [up EXCEPT ![c] = Append(@, p)] \in [Clients -> Seq(Packets)] BY <1>2 DEF TypeOK
<1>4. up' \in [Clients -> Seq(Packets)] BY <1>3 DEF CliSends, TypeOK, p
<1>5. <<Note("DISCONNECT")>> \in Seq(CliMsgs) BY NoteTypes DEF CliCmds
<1>6. cq' \in [Clients -> Seq(CliMsgs)] BY <1>5, NoteTypes, PostsType DEF CliSends
<1> QED BY <1>4, <1>6

\* A client's connecting handlers.
LEMMA ConnectTypes ==
    ASSUME TypeOK, NEW c \in Clients,
           OnConnectBegin(c) \/ OnConnectAdded(c) \/ OnConnectRefused(c) \/ OnConnectFailed(c)
           \/ OnConnectEnd(c)
    PROVE  TypeOK'
<1>0. \A cmd \in {"CONNECT_BEGIN", "CONNECT_FAILED", "CONNECT_END", "EX_ASYM", "USER_START"} :
        <<Note(cmd)>> \in Seq(CliMsgs) /\ Note(cmd) \in CliMsgs
  BY NoteTypes, CliMsgTypes DEF CliCmds
<1>1. CASE OnConnectBegin(c)
  <2>1. cq' \in [Clients -> Seq(CliMsgs)] BY <1>1, NoteTypes, PostsType DEF OnConnectBegin, CliHas
  <2>2. NewListener(c) \in Listeners BY CipherTypes DEF NewListener, Listeners
  <2>3. csocks' \in [Clients -> Listeners \cup {None}] BY <1>1, <2>2 DEF OnConnectBegin, TypeOK
  <2>4. backlog' \in Seq(Clients) BY <1>1 DEF OnConnectBegin, TypeOK
  <2> QED BY <1>1, <2>1, <2>3, <2>4 DEF OnConnectBegin, TypeOK, selector, file
<1>2. CASE OnConnectAdded(c)
  <2>1. cq' \in [Clients -> Seq(CliMsgs)] BY <1>0, <1>2 DEF OnConnectAdded, TypeOK
  <2> QED BY <1>2, <2>1 DEF OnConnectAdded, TypeOK, server, selector, net, file
<1>3. CASE OnConnectRefused(c)
  <2>1. cq' \in [Clients -> Seq(CliMsgs)] BY <1>0, <1>3, PostsType DEF OnConnectRefused, CliHas
  <2>2. faults' \in Nat BY <1>3 DEF OnConnectRefused, TypeOK
  <2> QED BY <1>3, <2>1, <2>2 DEF OnConnectRefused, TypeOK, server, selector, net, file
<1>4. CASE OnConnectFailed(c)
  <2>1. cq' \in [Clients -> Seq(CliMsgs)] BY <1>0, <1>4, NoteTypes, PostsType DEF OnConnectFailed, CliHas
  <2> QED BY <1>4, <2>1 DEF OnConnectFailed, TypeOK, server, selector, net, file
<1>5. CASE OnConnectEnd(c)
  <2>1. cq' \in [Clients -> Seq(CliMsgs)] BY <1>0, <1>5, PostsType DEF OnConnectEnd, CliHas
  <2>2. csock' \in [Clients -> BOOLEAN] BY <1>5 DEF OnConnectEnd, TypeOK
  <2> QED BY <1>5, <2>1, <2>2 DEF OnConnectEnd, TypeOK, server, selector, net, file
<1> QED BY <1>1, <1>2, <1>3, <1>4, <1>5

\* A client's handlers that send, and those that find nothing to do.
LEMMA SendingTypes ==
    ASSUME TypeOK, NEW c \in Clients,
           OnExchange(c) \/ OnUserStart(c) \/ OnRecvFileReq(c) \/ CliSkips(c) \/ CliDropRead(c)
    PROVE  TypeOK'
<1>0. <<Note("USER_REQ")>> \in Seq(CliMsgs) /\ <<Note("DISCONNECT")>> \in Seq(CliMsgs)
  BY NoteTypes DEF CliCmds
<1>1. CASE OnExchange(c)
  <2>1. PICK t \in {"asym", "sym"}, n \in {0, 1} : CliSends(c, t, n)
    BY <1>1 DEF OnExchange
  <2>2. cq[c] # <<>> /\ csocks[c] # None BY <1>1 DEF OnExchange, CliMaySend, CliHas
  <2>3. up' \in [Clients -> Seq(Packets)] /\ cq' \in [Clients -> Seq(CliMsgs)]
    BY <2>1, <2>2, SendTypes
  <2> QED BY <1>1, <2>3 DEF OnExchange, TypeOK, server, selector, file
<1>2. CASE OnUserStart(c)
  <2>1. cq' \in [Clients -> Seq(CliMsgs)] BY <1>0, <1>2, PostsType DEF OnUserStart, CliHas
  <2>2. got' \in [Clients -> Seq(Nat)] BY <1>2 DEF OnUserStart, TypeOK
  <2> QED BY <1>2, <2>1, <2>2 DEF OnUserStart, TypeOK, server, selector, net, file
<1>3. CASE OnRecvFileReq(c)
  <2>1. filePos[c] \in Nat BY DEF TypeOK
  <2>2. cq[c] # <<>> /\ csocks[c] # None /\ CliSends(c, "user", filePos[c])
    BY <1>3 DEF OnRecvFileReq, CliMaySend, CliHas
  <2>3. up' \in [Clients -> Seq(Packets)] /\ cq' \in [Clients -> Seq(CliMsgs)]
    BY <2>1, <2>2, SendTypes
  <2> QED BY <1>3, <2>3 DEF OnRecvFileReq, TypeOK, server, selector, file
<1>4. CASE CliSkips(c)
  <2>1. cq' \in [Clients -> Seq(CliMsgs)] BY <1>4, NoteTypes, PostsType DEF CliSkips, CliHas
  <2> QED BY <1>4, <2>1 DEF CliSkips, TypeOK, server, selector, net, file
<1>5. CASE CliDropRead(c)
  <2>1. cq' \in [Clients -> Seq(CliMsgs)] BY <1>0, <1>5, NoteTypes, PostsType DEF CliDropRead, CliHas
  <2> QED BY <1>5, <2>1 DEF CliDropRead, TypeOK, server, selector, net, file
<1> QED BY <1>1, <1>2, <1>3, <1>4, <1>5

\* A client's handlers of packets.
LEMMA ReadingTypes ==
    ASSUME TypeOK, NEW c \in Clients,
           CliReadAsym(c) \/ CliReadSym(c) \/ CliReadUser(c) \/ CliNoFile(c)
    PROVE  TypeOK'
<1>0. \A cmd \in {"DISCONNECT", "EX_SYM", "USER_START", "USER_REQ"} : <<Note(cmd)>> \in Seq(CliMsgs)
  BY NoteTypes DEF CliCmds
<1>1. CASE CliReadAsym(c)
  <2>1. cq' \in [Clients -> Seq(CliMsgs)]
    BY <1>0, <1>1, NoteTypes, PostsType DEF CliReadAsym, CliReads, CliHas
  <2>2. csocks[c] \in Listeners BY <1>1 DEF CliReadAsym, CliReads, TypeOK
  <2>3. [csocks EXCEPT ![c].enc = Asym("server"), ![c].dec = Asym(c)] \in [Clients -> Listeners \cup {None}]
    BY <2>2, CipherTypes DEF TypeOK, Listeners
  <2>4. csocks' \in [Clients -> Listeners \cup {None}] BY <1>1, <2>3 DEF CliReadAsym, TypeOK
  <2> QED BY <1>1, <2>1, <2>4 DEF CliReadAsym, TypeOK, server, selector, net, file
<1>2. CASE CliReadSym(c)
  <2>1. cq' \in [Clients -> Seq(CliMsgs)]
    BY <1>0, <1>2, NoteTypes, PostsType DEF CliReadSym, CliReads, CliHas
  <2>2. csocks[c] \in Listeners BY <1>2 DEF CliReadSym, CliReads, TypeOK
  <2>3. [csocks EXCEPT ![c].enc = SymKey("up", c, Code(c)), ![c].dec = SymKey("down", c, Code(c))]
          \in [Clients -> Listeners \cup {None}]
    BY <2>2, CipherTypes DEF TypeOK, Listeners
  <2>4. csocks' \in [Clients -> Listeners \cup {None}] BY <1>2, <2>3 DEF CliReadSym, TypeOK
  <2> QED BY <1>2, <2>1, <2>4 DEF CliReadSym, TypeOK, server, selector, net, file
<1>3. CASE CliReadUser(c)
  <2>1. cq' \in [Clients -> Seq(CliMsgs)]
    BY <1>0, <1>3, NoteTypes, PostsType DEF CliReadUser, CliReads, CliHas
  <2>2. Head(cq[c]) \in CliMsgs /\ Head(cq[c]).cmd = "READ"
    BY <1>3 DEF CliReadUser, CliReads, CliHas, TypeOK
  <2>3. Head(cq[c]).pkt.n \in Nat BY <2>2 DEF CliMsgs, Packets
  <2>4. got' \in [Clients -> Seq(Nat)] /\ short' \subseteq Clients /\ faults' \in Nat
    <3>1. CASE SfWrites(c, Head(cq[c]).pkt.n)
      <4>1. \A q \in Seq(Nat) : Append(q, Head(cq[c]).pkt.n) \in Seq(Nat) BY <2>3
      <4>2. CASE got' = [got EXCEPT ![c] = Append(@, Head(cq[c]).pkt.n)] /\ UNCHANGED <<short, faults>>
        BY <4>1, <4>2 DEF TypeOK
      <4>3. CASE faults' = faults + 1 /\ short' = short \cup {c} /\ UNCHANGED got BY <4>3 DEF TypeOK
      <4> QED BY <3>1, <4>2, <4>3 DEF SfWrites
    <3>2. CASE UNCHANGED <<got, short, faults>> BY <3>2 DEF TypeOK
    <3> QED BY <1>3, <3>1, <3>2 DEF CliReadUser
  <2>5. outcome' \in [Clients -> {"none", "done", "failed", "crashed"}] BY <1>3 DEF CliReadUser, TypeOK
  <2>6. filePos' \in [Clients -> Nat] BY <1>3 DEF CliReadUser, TypeOK
  <2> QED BY <1>3, <2>1, <2>4, <2>5, <2>6 DEF CliReadUser, TypeOK, server, selector, net
<1>4. CASE CliNoFile(c)
  <2>1. clife' \in [Clients -> Lives] BY <1>4 DEF CliNoFile, TypeOK, Lives
  <2>2. outcome' \in [Clients -> {"none", "done", "failed", "crashed"}] BY <1>4 DEF CliNoFile, TypeOK
  <2>3. faults' \in Nat BY <1>4 DEF CliNoFile, TypeOK
  <2> QED BY <1>4, <2>1, <2>2, <2>3 DEF CliNoFile, TypeOK, server, selector, file, net
<1> QED BY <1>1, <1>2, <1>3, <1>4

\* The rest of a client: its end, its selector thread, the network.
LEMMA ClosingTypes ==
    ASSUME TypeOK, NEW c \in Clients,
           CliOnDisconnect(c) \/ CliOnFini(c) \/ CliNullPointer(c) \/ CliStop(c) \/ CliSelect(c) \/ Reset(c)
    PROVE  TypeOK'
<1>0. Note("FINI") \in CliMsgs /\ Note("DISCONNECT") \in CliMsgs BY CliMsgTypes DEF CliCmds
<1>1. CASE CliOnDisconnect(c)
  <2>1. cq' \in [Clients -> Seq(CliMsgs)] BY <1>1, NoteTypes, PostsType DEF CliOnDisconnect, CliHas
  <2>2. csock' \in [Clients -> BOOLEAN] BY <1>1 DEF CliOnDisconnect, TypeOK
  <2>3. csocks' \in [Clients -> Listeners \cup {None}] BY <1>1 DEF CliOnDisconnect, TypeOK
  <2> QED BY <1>1, <2>1, <2>2, <2>3 DEF CliOnDisconnect, TypeOK, server, selector, file
<1>2. CASE CliOnFini(c)
  <2>1. cq' \in [Clients -> Seq(CliMsgs)] BY <1>2, NoteTypes, PostsType DEF CliOnFini, CliHas
  <2>2. csocks' \in [Clients -> Listeners \cup {None}] BY <1>2 DEF CliOnFini, TypeOK
  <2>3. clife' \in [Clients -> Lives] BY <1>2 DEF CliOnFini, TypeOK, Lives
  <2> QED BY <1>2, <2>1, <2>2, <2>3 DEF CliOnFini, TypeOK, server, selector, file
<1>3. CASE CliNullPointer(c)
  <2>1. clife' \in [Clients -> Lives] BY <1>3 DEF CliNullPointer, TypeOK, Lives
  <2> QED BY <1>3, <2>1 DEF CliNullPointer, TypeOK, server, selector, net, file
<1>4. CASE CliStop(c)
  <2>1. cq' \in [Clients -> Seq(CliMsgs)] BY <1>0, <1>4 DEF CliStop, TypeOK
  <2>2. clife' \in [Clients -> Lives] BY <1>4 DEF CliStop, TypeOK, Lives
  <2> QED BY <1>4, <2>1, <2>2 DEF CliStop, TypeOK, server, selector, net, file
<1>5. CASE CliRecv(c)
  <2>1. Head(down[c]) \in Packets /\ Tail(down[c]) \in Seq(Packets) BY <1>5 DEF CliRecv, TypeOK
  <2>2. CliMsg("READ", Head(down[c])) \in CliMsgs BY <2>1, CliMsgTypes
  <2>3. cq' \in [Clients -> Seq(CliMsgs)] BY <1>5, <2>2 DEF CliRecv, TypeOK
  <2>4. down' \in [Clients -> Seq(Packets)] BY <1>5, <2>1 DEF CliRecv, TypeOK
  <2> QED BY <1>5, <2>3, <2>4 DEF CliRecv, TypeOK, server, selector, file
<1>6. CASE CliRecvFails(c)
  <2>1. cq' \in [Clients -> Seq(CliMsgs)] BY <1>0, <1>6 DEF CliRecvFails, TypeOK
  <2> QED BY <1>6, <2>1 DEF CliRecvFails, TypeOK, server, selector, net, file
<1>7. CASE CliRecvBad(c)
  <2>1. Torn(down[c]) \in Seq(Packets) BY <1>7, TornType DEF CliRecvBad, TypeOK
  <2>2. cq' \in [Clients -> Seq(CliMsgs)] BY <1>0, <1>7 DEF CliRecvBad, TypeOK
  <2>3. down' \in [Clients -> Seq(Packets)] BY <1>7, <2>1 DEF CliRecvBad, TypeOK
  <2>4. faults' \in Nat BY <1>7 DEF CliRecvBad, TypeOK
  <2> QED BY <1>7, <2>2, <2>3, <2>4 DEF CliRecvBad, TypeOK, server, selector, file
<1>8. CASE Reset(c)
  <2>0. up[c] \in Seq(Packets) /\ down[c] \in Seq(Packets) /\ <<>> \in Seq(Packets) BY DEF TypeOK
  <2>1. PICK q : up' = [up EXCEPT ![c] = q] /\ (q = up[c] \/ q = <<>>) BY <1>8 DEF Reset
  <2>3. q \in Seq(Packets) BY <2>0, <2>1
  <2>4. up' \in [Clients -> Seq(Packets)] BY <2>1, <2>3 DEF TypeOK
  <2>5. PICK r : down' = [down EXCEPT ![c] = r] /\ (r = down[c] \/ r = <<>>) BY <1>8 DEF Reset
  <2>6. r \in Seq(Packets) BY <2>0, <2>5
  <2>7. down' \in [Clients -> Seq(Packets)] BY <2>5, <2>6 DEF TypeOK
  <2>2. faults' \in Nat BY <1>8 DEF Reset, TypeOK
  <2> QED BY <1>8, <2>2, <2>4, <2>7 DEF Reset, TypeOK, server, selector, client, file
<1> QED BY <1>1, <1>2, <1>3, <1>4, <1>5, <1>6, <1>7, <1>8 DEF CliSelect

\* Every step keeps the types.
LEMMA TypeStep ==
    ASSUME TypeOK, HandleInv, [Next]_vars
    PROVE  TypeOK'
<1>1. CASE SrvStop
  <2>1. sq' \in Seq(SrvMsgs) BY <1>1, SrvMsgTypes DEF SrvStop, TypeOK
  <2>2. slife' \in Lives BY <1>1 DEF SrvStop, Lives
  <2> QED BY <1>1, <2>1, <2>2 DEF SrvStop, TypeOK, client, file, net, selector
<1>2. CASE UNCHANGED vars
  BY <1>2 DEF TypeOK, vars, server, selector, client, file, net
<1>3. ASSUME NEW c \in Clients, CliLoop(c) PROVE TypeOK'
  BY <1>3, ConnectTypes, SendingTypes, ReadingTypes, ClosingTypes DEF CliLoop
<1> QED BY <1>1, <1>2, <1>3, SelectTypes, PollTypes, LoopTypes, ClosingTypes DEF Next, SrvSelector

-----------------------------------------------------------------------------
(* Handles                                                                 *)

\* What HandleInv says of a queue q, the listeners so and the open handles co.
AcceptsOK(q, so, co) ==
    \A i \in DOMAIN q : q[i].cmd = "ACCEPT" =>
        /\ so[q[i].sock] = None /\ co[q[i].sock] = q[i].of
        /\ \A j \in DOMAIN q : j > i => q[j].sock # q[i].sock
QueueOK(q, so) ==
    \A i \in DOMAIN q :
        q[i].cmd \in {"READ", "DISCONNECT"} /\ so[q[i].sock] # None => so[q[i].sock].of = q[i].of
ConnOK(so, co) == \A h \in Handles : so[h] # None => co[h] = so[h].of

\* HandleInv in these parts.
LEMMA InvParts == HandleInv <=> ConnOK(socks, conn) /\ AcceptsOK(sq, socks, conn) /\ QueueOK(sq, socks)
BY DEF HandleInv, HandlesNotConfused, ConnOK, AcceptsOK, QueueOK

\* The same one step later.
LEMMA InvPartsPrime ==
    ConnOK(socks', conn') /\ AcceptsOK(sq', socks', conn') /\ QueueOK(sq', socks') => HandleInv'
BY DEF HandleInv, HandlesNotConfused, ConnOK, AcceptsOK, QueueOK

\* Taking a message off keeps both.
LEMMA OffTheQueue ==
    ASSUME NEW q \in Seq(SrvMsgs), q # <<>>, NEW so, NEW co, AcceptsOK(q, so, co), QueueOK(q, so)
    PROVE  AcceptsOK(Tail(q), so, co) /\ QueueOK(Tail(q), so)
<1>1. \A i \in DOMAIN Tail(q) : i + 1 \in DOMAIN q /\ Tail(q)[i] = q[i + 1] /\ i \in Nat
  OBVIOUS
<1>2. AcceptsOK(Tail(q), so, co) BY <1>1 DEF AcceptsOK
<1>3. QueueOK(Tail(q), so) BY <1>1 DEF QueueOK
<1> QED BY <1>2, <1>3

\* Posting READ or DISCONNECT for a handle in socks_, or a message about no handle.
LEMMA OnTheQueue ==
    ASSUME NEW q \in Seq(SrvMsgs), NEW so, NEW co, AcceptsOK(q, so, co), QueueOK(q, so),
           NEW m \in SrvMsgs, m.cmd # "ACCEPT",
           m.sock = None \/ (so[m.sock] # None /\ so[m.sock].of = m.of)
    PROVE  AcceptsOK(Append(q, m), so, co) /\ QueueOK(Append(q, m), so)
<1> DEFINE r == Append(q, m)
<1>1. /\ DOMAIN r = 1..(Len(q) + 1) /\ DOMAIN q = 1..Len(q) /\ Len(q) \in Nat
      /\ \A i \in DOMAIN q : r[i] = q[i]
      /\ r[Len(q) + 1] = m
  OBVIOUS
<1>2. \A i \in DOMAIN q : q[i] \in SrvMsgs OBVIOUS
<1>3. \A i \in DOMAIN q : q[i].cmd = "ACCEPT" => q[i].sock \in Handles /\ q[i].sock # None
  BY <1>2, LinkAssumption DEF SrvMsgs
<1>4. \A i \in DOMAIN q : q[i].cmd = "ACCEPT" => q[i].sock # m.sock BY <1>3 DEF AcceptsOK
<1> HIDE DEF r
<1>5. AcceptsOK(r, so, co) BY <1>1, <1>4 DEF AcceptsOK
<1>6. m.cmd \in {"READ", "DISCONNECT"} => m.sock # None BY LinkAssumption DEF SrvMsgs
<1>7. QueueOK(r, so) BY <1>1, <1>6 DEF QueueOK
<1> QED BY <1>5, <1>7 DEF r

\* Accepting a connection on a closed handle.
LEMMA Accepting ==
    ASSUME NEW q \in Seq(SrvMsgs), NEW so, NEW co \in [Handles -> Clients \cup {None}],
           ConnOK(so, co), AcceptsOK(q, so, co), QueueOK(q, so),
           \A k \in Handles : so[k] # None => so[k].of \in Clients,
           NEW h \in Handles, co[h] = None, NEW c \in Clients
    PROVE  LET co2 == [co EXCEPT ![h] = c]
               r   == Append(q, SrvMsg("ACCEPT", h, c, None))
           IN  ConnOK(so, co2) /\ AcceptsOK(r, so, co2) /\ QueueOK(r, so)
<1> DEFINE co2 == [co EXCEPT ![h] = c]
           m == SrvMsg("ACCEPT", h, c, None)
           r == Append(q, m)
<1>1. so[h] = None BY LinkAssumption DEF ConnOK
<1>2. ConnOK(so, co2) BY <1>1 DEF ConnOK
<1>3. m \in SrvMsgs /\ m.cmd = "ACCEPT" /\ m.sock = h /\ m.of = c BY SrvMsgTypes DEF SrvMsg
<1> HIDE DEF m
<1>4. /\ DOMAIN r = 1..(Len(q) + 1) /\ DOMAIN q = 1..Len(q) /\ Len(q) \in Nat
      /\ \A i \in DOMAIN q : r[i] = q[i] /\ q[i] \in SrvMsgs
      /\ r[Len(q) + 1] = m
  BY <1>3
<1>5. \A i \in DOMAIN q : q[i].cmd = "ACCEPT" => q[i].sock \in Handles /\ q[i].of \in Clients
  BY <1>4 DEF SrvMsgs
<1>6. \A i \in DOMAIN q : q[i].cmd = "ACCEPT" => q[i].sock # h
  BY <1>5, LinkAssumption DEF AcceptsOK
<1>7. co2[h] = c /\ \A k \in Handles : k # h => co2[k] = co[k] OBVIOUS
<1> HIDE DEF r, co2
<1>8. AcceptsOK(r, so, co2) BY <1>1, <1>3, <1>4, <1>5, <1>6, <1>7 DEF AcceptsOK
<1>9. QueueOK(r, so) BY <1>3, <1>4 DEF QueueOK
<1> QED BY <1>2, <1>8, <1>9 DEF r, co2, m

\* Where the messages of a queue that are about a handle point.
LEMMA SockTypes ==
    ASSUME NEW q \in Seq(SrvMsgs)
    PROVE  \A i \in DOMAIN q : q[i].cmd \in {"ACCEPT", "READ", "DISCONNECT"} => q[i].sock \in Handles
<1>1. \A i \in DOMAIN q : q[i] \in SrvMsgs OBVIOUS
<1> QED BY <1>1 DEF SrvMsgs

\* Closing handles that socks_ has; or changing the ciphers of listeners.
LEMMA Closing ==
    ASSUME NEW q \in Seq(SrvMsgs), NEW so, NEW co, NEW so2, NEW co2,
           ConnOK(so, co), AcceptsOK(q, so, co), QueueOK(q, so),
           \A k \in Handles : \/ so2[k] = so[k] /\ co2[k] = co[k]
                              \/ so[k] # None /\ so2[k] = None
                              \/ so[k] # None /\ so2[k].of = so[k].of /\ co2[k] = co[k]
    PROVE  ConnOK(so2, co2) /\ AcceptsOK(q, so2, co2) /\ QueueOK(q, so2)
<1>1. ConnOK(so2, co2) BY DEF ConnOK
<1>2. AcceptsOK(q, so2, co2) BY SockTypes DEF AcceptsOK
<1>3. QueueOK(q, so2) BY SockTypes DEF QueueOK
<1> QED BY <1>1, <1>2, <1>3

\* Handling ACCEPT: the handle gets its listener, no message behind is about it.
LEMMA Adding ==
    ASSUME NEW q \in Seq(SrvMsgs), q # <<>>, NEW so \in [Handles -> Listeners \cup {None}], NEW co,
           ConnOK(so, co), AcceptsOK(q, so, co), QueueOK(q, so), Head(q).cmd = "ACCEPT"
    PROVE  LET so2 == [so EXCEPT ![Head(q).sock] = NewListener(co[Head(q).sock])]
           IN  ConnOK(so2, co) /\ AcceptsOK(Tail(q), so2, co) /\ QueueOK(Tail(q), so2)
<1> DEFINE h == Head(q).sock
           so2 == [so EXCEPT ![h] = NewListener(co[h])]
           t == Tail(q)
<1>1. 1 \in DOMAIN q /\ Head(q) = q[1] OBVIOUS
<1>2. /\ t \in Seq(SrvMsgs)
      /\ \A i \in DOMAIN t : i + 1 \in DOMAIN q /\ t[i] = q[i + 1] /\ i + 1 > 1
  OBVIOUS
<1>3. h \in Handles BY <1>1, SockTypes
<1>4. \A i \in DOMAIN t : t[i].sock # h BY <1>1, <1>2 DEF AcceptsOK
<1>5. so2[h].of = co[h] /\ \A k \in Handles : k # h => so2[k] = so[k] BY <1>3 DEF NewListener
<1>6. AcceptsOK(t, so, co) /\ QueueOK(t, so) BY OffTheQueue
<1> HIDE DEF so2, t, h
<1>7. ConnOK(so2, co) BY <1>5 DEF ConnOK
<1>8. AcceptsOK(t, so2, co) BY <1>2, <1>4, <1>5, <1>6, SockTypes DEF AcceptsOK
<1>9. QueueOK(t, so2) BY <1>2, <1>4, <1>5, <1>6, SockTypes DEF QueueOK
<1> QED BY <1>7, <1>8, <1>9 DEF so2, t, h

\* A message the server posts itself about a handle in socks_.
LEMMA DisconnectOK ==
    ASSUME TypeOK, HandleInv, NEW q \in Seq(SrvMsgs), AcceptsOK(q, socks, conn), QueueOK(q, socks),
           NEW h \in Handles, socks[h] # None
    PROVE  LET r == Append(q, SrvMsg("DISCONNECT", h, conn[h], None))
           IN  r \in Seq(SrvMsgs) /\ AcceptsOK(r, socks, conn) /\ QueueOK(r, socks)
<1> DEFINE m == SrvMsg("DISCONNECT", h, conn[h], None)
<1>1. conn[h] = socks[h].of /\ conn[h] \in Clients BY DEF HandleInv, TypeOK, Listeners
<1>2. m \in SrvMsgs BY <1>1, SrvMsgTypes
<1>3. m.cmd = "DISCONNECT" /\ m.sock = h /\ m.of = conn[h] BY DEF SrvMsg
<1> HIDE DEF m
<1>4. Append(q, m) \in Seq(SrvMsgs) BY <1>2
<1>5. AcceptsOK(Append(q, m), socks, conn) /\ QueueOK(Append(q, m), socks)
  BY <1>1, <1>2, <1>3, OnTheQueue
<1> QED BY <1>4, <1>5 DEF m

\* The selector thread keeps HandleInv.
LEMMA SelectHandles ==
    ASSUME TypeOK, HandleInv, NEW h \in Handles, SrvSelect(h)
    PROVE  HandleInv'
<1>0. ConnOK(socks, conn) /\ AcceptsOK(sq, socks, conn) /\ QueueOK(sq, socks) BY InvParts
<1>1. sq \in Seq(SrvMsgs) BY DEF TypeOK
<1>2. \A k \in Handles : socks[k] # None => socks[k].of \in Clients /\ conn[k] = socks[k].of
  BY DEF HandleInv, TypeOK, Listeners
<1>3. CASE SrvAccept(h)
  <2>1. Head(backlog) \in Clients BY <1>3 DEF SrvAccept, TypeOK
  <2>2. conn \in [Handles -> Clients \cup {None}] BY DEF TypeOK
  <2>3. conn[h] = None BY <1>3 DEF SrvAccept
  <2>4. ConnOK(socks, conn') /\ AcceptsOK(sq', socks, conn') /\ QueueOK(sq', socks)
    BY <1>0, <1>1, <1>2, <1>3, <2>1, <2>2, <2>3, Accepting DEF SrvAccept
  <2>5. socks' = socks BY <1>3 DEF SrvAccept
  <2> QED BY <2>4, <2>5, InvPartsPrime
<1>4. CASE SrvRecv(h)
  <2> DEFINE p == Head(up[conn[h]])
             m == SrvMsg("READ", h, conn[h], p)
  <2>1. socks[h] # None /\ conn[h] \in Clients /\ conn[h] = socks[h].of BY <1>2, <1>4 DEF SrvRecv
  <2>2. p \in Packets BY <1>4, <2>1 DEF SrvRecv, TypeOK
  <2>3. m \in SrvMsgs BY <2>1, <2>2, SrvMsgTypes
  <2>4. m.cmd = "READ" /\ m.sock = h /\ m.of = conn[h] BY DEF SrvMsg
  <2>5. sq' = Append(sq, m) /\ socks' = socks /\ conn' = conn BY <1>4 DEF SrvRecv
  <2> HIDE DEF m
  <2>6. AcceptsOK(sq', socks, conn) /\ QueueOK(sq', socks)
    BY <1>0, <1>1, <2>1, <2>3, <2>4, <2>5, OnTheQueue
  <2> QED BY <1>0, <2>5, <2>6, InvPartsPrime
<1>5. CASE SrvRecvFails(h) \/ SrvRecvBad(h)
  <2>1. /\ sq' = Append(sq, SrvMsg("DISCONNECT", h, conn[h], None))
        /\ socks[h] # None /\ socks' = socks /\ conn' = conn
    BY <1>5 DEF SrvRecvFails, SrvRecvBad
  <2>2. AcceptsOK(sq', socks, conn) /\ QueueOK(sq', socks) BY <1>0, <1>1, <2>1, DisconnectOK
  <2> QED BY <1>0, <2>1, <2>2, InvPartsPrime
<1>6. CASE SrvReadGone(h)
  BY <1>0, <1>6, InvPartsPrime DEF SrvReadGone
<1> QED BY <1>3, <1>4, <1>5, <1>6 DEF SrvSelect

\* An answer of the server posts nothing, or DISCONNECT for the handle it answers.
LEMMA AnswerHandles ==
    ASSUME TypeOK, HandleInv, SrvHas("READ"), socks[Head(sq).sock] # None, NEW p, SrvAnswers(p)
    PROVE  sq' \in Seq(SrvMsgs) /\ AcceptsOK(sq', socks, conn) /\ QueueOK(sq', socks)
<1>1. AcceptsOK(Tail(sq), socks, conn) /\ QueueOK(Tail(sq), socks) /\ Tail(sq) \in Seq(SrvMsgs)
  BY InvParts, OffTheQueue DEF TypeOK, SrvHas
<1>2. Head(sq).sock \in Handles BY ReadFacts
<1>3. sq' = Tail(sq) \/ sq' = Append(Tail(sq), SrvMsg("DISCONNECT", Head(sq).sock, conn[Head(sq).sock], None))
  BY DEF SrvAnswers, Pop
<1> QED BY <1>1, <1>2, <1>3, DisconnectOK

\* The server's handlers keep HandleInv.
LEMMA LoopHandles ==
    ASSUME TypeOK, HandleInv, SrvLoop
    PROVE  HandleInv'
<1>0. ConnOK(socks, conn) /\ AcceptsOK(sq, socks, conn) /\ QueueOK(sq, socks) BY InvParts
<1>1. sq \in Seq(SrvMsgs) /\ socks \in [Handles -> Listeners \cup {None}] BY DEF TypeOK
<1>2. ASSUME sq # <<>>
      PROVE  /\ Tail(sq) \in Seq(SrvMsgs) /\ AcceptsOK(Tail(sq), socks, conn) /\ QueueOK(Tail(sq), socks)
             /\ Pop = Tail(sq)
  BY <1>0, <1>1, <1>2, OffTheQueue DEF Pop
<1>3. CASE OnListen
  <2>1. sq # <<>> /\ Head(sq).cmd = "LISTEN" /\ socks' = socks /\ conn' = conn
    BY <1>3 DEF OnListen, SrvHas
  <2>2. sq' = Tail(sq) \/ sq' = Append(Tail(sq), Head(sq)) BY <1>3 DEF OnListen, Pop
  <2>3. ASSUME sq' = Append(Tail(sq), Head(sq)) PROVE HandleInv'
    <3>1. Head(sq) \in SrvMsgs BY <1>1, <2>1
    <3>2. Head(sq).sock = None BY <2>1, <3>1 DEF SrvMsgs
    <3>3. AcceptsOK(sq', socks, conn) /\ QueueOK(sq', socks)
      BY <1>2, <2>1, <2>3, <3>1, <3>2, OnTheQueue
    <3> QED BY <1>0, <2>1, <3>3, InvPartsPrime
  <2> QED BY <1>0, <1>2, <2>1, <2>2, <2>3, InvPartsPrime
<1>4. CASE OnSockAccept
  <2>1. sq # <<>> /\ Head(sq).cmd = "ACCEPT" /\ sq' = Tail(sq) /\ conn' = conn
    BY <1>4 DEF OnSockAccept, SrvHas, Pop
  <2>2. CASE slife = "gone"
    BY <1>0, <1>2, <1>4, <2>1, <2>2, InvPartsPrime DEF OnSockAccept
  <2>3. CASE slife # "gone"
    BY <1>0, <1>1, <1>4, <2>1, <2>3, Adding, InvPartsPrime DEF OnSockAccept
  <2> QED BY <2>2, <2>3
<1>5. CASE SrvOnDisconnect
  <2>1. sq # <<>> /\ sq' = Tail(sq) BY <1>5 DEF SrvOnDisconnect, SrvHas, Pop
  <2>2. \A k \in Handles : \/ socks'[k] = socks[k] /\ conn'[k] = conn[k]
                           \/ socks[k] # None /\ socks'[k] = None
    BY <1>1, <1>5 DEF SrvOnDisconnect, TypeOK
  <2>3. sq' \in Seq(SrvMsgs) /\ AcceptsOK(sq', socks, conn) /\ QueueOK(sq', socks) BY <1>2, <2>1
  <2>4. ConnOK(socks', conn') /\ AcceptsOK(sq', socks', conn') /\ QueueOK(sq', socks')
    BY <1>0, <2>2, <2>3, Closing
  <2> QED BY <2>4, InvPartsPrime
<1>6. CASE SrvOnFini
  <2>1. sq # <<>> /\ sq' = Tail(sq) BY <1>6 DEF SrvOnFini, SrvHas, Pop
  <2>2. \A k \in Handles : \/ socks'[k] = socks[k] /\ conn'[k] = conn[k]
                           \/ socks[k] # None /\ socks'[k] = None
    BY <1>6 DEF SrvOnFini
  <2>3. sq' \in Seq(SrvMsgs) /\ AcceptsOK(sq', socks, conn) /\ QueueOK(sq', socks) BY <1>2, <2>1
  <2>4. ConnOK(socks', conn') /\ AcceptsOK(sq', socks', conn') /\ QueueOK(sq', socks')
    BY <1>0, <2>2, <2>3, Closing
  <2> QED BY <2>4, InvPartsPrime
<1>7. CASE SrvDropRead
  <2>1. sq # <<>> /\ socks' = socks /\ conn' = conn BY <1>7 DEF SrvDropRead, SrvHas
  <2>2. CASE sq' = Tail(sq) BY <1>0, <1>2, <2>1, <2>2, InvPartsPrime
  <2>3. CASE sq' # Tail(sq)
    <3>1. /\ socks[Head(sq).sock] # None
          /\ sq' = Append(Tail(sq), SrvMsg("DISCONNECT", Head(sq).sock, conn[Head(sq).sock], None))
      BY <1>7, <2>3 DEF SrvDropRead, Pop
    <3>2. Head(sq).sock \in Handles BY <1>7, <3>1, ReadFacts DEF SrvDropRead
    <3>3. AcceptsOK(sq', socks, conn) /\ QueueOK(sq', socks) BY <1>2, <2>1, <3>1, <3>2, DisconnectOK
    <3> QED BY <1>0, <2>1, <3>3, InvPartsPrime
  <2> QED BY <2>2, <2>3
<1>8. CASE SrvNoListener
  BY <1>0, <1>8, InvPartsPrime DEF SrvNoListener
<1>9. CASE SrvReadAsym \/ SrvReadSym \/ SrvReadUser
  <2>1. SrvHas("READ") /\ socks[Head(sq).sock] # None /\ conn' = conn
    BY <1>9 DEF SrvReadAsym, SrvReadSym, SrvReadUser, SrvReads
  <2>2. PICK p : SrvAnswers(p) BY <1>9 DEF SrvReadAsym, SrvReadSym, SrvReadUser
  <2>3. sq' \in Seq(SrvMsgs) /\ AcceptsOK(sq', socks, conn) /\ QueueOK(sq', socks)
    BY <2>1, <2>2, AnswerHandles
  <2>4. Head(sq).sock \in Handles /\ socks[Head(sq).sock] \in Listeners BY <2>1, ReadFacts
  <2>5. \A k \in Handles : \/ socks'[k] = socks[k]
                           \/ socks[k] # None /\ socks'[k].of = socks[k].of
    BY <1>1, <1>9, <2>1, <2>4 DEF SrvReadAsym, SrvReadSym, SrvReadUser, Listeners
  <2>6. ConnOK(socks', conn') /\ AcceptsOK(sq', socks', conn') /\ QueueOK(sq', socks')
    BY <1>0, <2>1, <2>3, <2>5, Closing
  <2> QED BY <2>6, InvPartsPrime
<1> QED BY <1>3, <1>4, <1>5, <1>6, <1>7, <1>8, <1>9 DEF SrvLoop

\* The clients and the network do not touch the server's handles or its queue.
LEMMA OthersKeepHandles ==
    ASSUME NEW c \in Clients, CliLoop(c) \/ CliSelect(c) \/ CliStop(c) \/ Reset(c)
    PROVE  UNCHANGED <<conn, socks, sq>>
<1>1. CASE CliSelect(c) \/ CliStop(c) \/ Reset(c)
  BY <1>1 DEF CliSelect, CliRecv, CliRecvFails, CliRecvBad, CliStop, Reset, server
<1>2. CASE OnConnectBegin(c) \/ OnConnectAdded(c) \/ OnConnectRefused(c) \/ OnConnectFailed(c)
           \/ OnConnectEnd(c) \/ OnExchange(c) \/ OnUserStart(c) \/ OnRecvFileReq(c)
  BY <1>2 DEF OnConnectBegin, OnConnectAdded, OnConnectRefused, OnConnectFailed, OnConnectEnd,
              OnExchange, OnUserStart, OnRecvFileReq, server
<1>3. CASE CliSkips(c) \/ CliDropRead(c) \/ CliReadAsym(c) \/ CliReadSym(c) \/ CliReadUser(c)
           \/ CliNoFile(c) \/ CliOnDisconnect(c) \/ CliOnFini(c) \/ CliNullPointer(c)
  BY <1>3 DEF CliSkips, CliDropRead, CliReadAsym, CliReadSym, CliReadUser, CliNoFile,
              CliOnDisconnect, CliOnFini, CliNullPointer, server
<1> QED BY <1>1, <1>2, <1>3 DEF CliLoop

\* Every step keeps HandleInv.
LEMMA HandleStep ==
    ASSUME TypeOK, HandleInv, [Next]_vars
    PROVE  HandleInv'
<1>1. ASSUME UNCHANGED <<conn, socks, sq>> PROVE HandleInv'
  BY <1>1 DEF HandleInv, HandlesNotConfused
<1>2. CASE SrvStop
  <2> DEFINE m == SrvMsg("FINI", None, None, None)
  <2>1. m \in SrvMsgs BY SrvMsgTypes
  <2>2. m.cmd = "FINI" /\ m.sock = None BY DEF SrvMsg
  <2>3. sq' = Append(sq, m) /\ socks' = socks /\ conn' = conn BY <1>2 DEF SrvStop
  <2>4. sq \in Seq(SrvMsgs) BY DEF TypeOK
  <2> HIDE DEF m
  <2>5. AcceptsOK(sq', socks, conn) /\ QueueOK(sq', socks)
    BY <2>1, <2>2, <2>3, <2>4, InvParts, OnTheQueue
  <2> QED BY <2>3, <2>5, InvParts, InvPartsPrime
<1>3. CASE UNCHANGED vars BY <1>1, <1>3 DEF vars, server
<1>4. CASE SrvPoll \/ SrvAcceptFails BY <1>1, <1>4 DEF SrvPoll, SrvAcceptFails
<1> QED BY <1>1, <1>2, <1>3, <1>4, SelectHandles, LoopHandles, OthersKeepHandles DEF Next, SrvSelector

-----------------------------------------------------------------------------
(* Tokens in queues                                                        *)

\* The tokens of q2 come from q.
Fewer(q, q2, S) ==
    /\ \A i \in DOMAIN q2 : q2[i] \in S => \E j \in DOMAIN q : q[j] = q2[i]
    /\ AtMost1(q, S) => AtMost1(q2, S)

\* A queue has no more tokens than itself, an empty one has none.
LEMMA SameTokens ==
    ASSUME NEW q, NEW S
    PROVE  Fewer(q, q, S) /\ Fewer(q, <<>>, S) /\ ~Holds(<<>>, S)
BY DEF Fewer, AtMost1, Holds

\* Holding no token is handed on.
LEMMA FewerHolds ==
    ASSUME NEW q, NEW q2, NEW S, Fewer(q, q2, S), Holds(q2, S)
    PROVE  Holds(q, S)
BY DEF Fewer, Holds

\* Steps on a queue follow each other.
LEMMA FewerTrans ==
    ASSUME NEW q, NEW q2, NEW q3, NEW S, Fewer(q, q2, S), Fewer(q2, q3, S)
    PROVE  Fewer(q, q3, S)
BY DEF Fewer

\* Taking the head off.
LEMMA TailTokens ==
    ASSUME NEW M, NEW q \in Seq(M), q # <<>>, NEW S
    PROVE  /\ Fewer(q, Tail(q), S)
           /\ Head(q) \in S => Holds(q, S)
           /\ AtMost1(q, S) /\ Head(q) \in S => ~Holds(Tail(q), S)
<1>1. /\ DOMAIN Tail(q) = 1 .. (Len(q) - 1) /\ DOMAIN q = 1 .. Len(q) /\ Len(q) \in Nat /\ Len(q) > 0
      /\ \A i \in DOMAIN Tail(q) : Tail(q)[i] = q[i + 1]
      /\ Head(q) = q[1]
  OBVIOUS
<1> DEFINE t == Tail(q)
<1>2. \A i \in DOMAIN t : i + 1 \in DOMAIN q /\ t[i] = q[i + 1] /\ i + 1 # 1 /\ i \in Int BY <1>1
<1>3. 1 \in DOMAIN q /\ Head(q) = q[1] BY <1>1
<1> HIDE DEF t
<1>4. AtMost1(q, S) => AtMost1(t, S)
  <2> SUFFICES ASSUME AtMost1(q, S), NEW i \in DOMAIN t, NEW j \in DOMAIN t, t[i] \in S, t[j] \in S
               PROVE  i = j
    BY DEF AtMost1
  <2>1. i + 1 = j + 1 BY <1>2 DEF AtMost1
  <2> QED BY <1>2, <2>1
<1>5. Fewer(q, t, S) BY <1>2, <1>4 DEF Fewer
<1>6. Head(q) \in S => Holds(q, S) BY <1>3 DEF Holds
<1>7. AtMost1(q, S) /\ Head(q) \in S => ~Holds(t, S) BY <1>2, <1>3 DEF AtMost1, Holds
<1> QED BY <1>5, <1>6, <1>7 DEF t

\* Posting a message.
LEMMA AppendTokens ==
    ASSUME NEW M, NEW q \in Seq(M), NEW m \in M, NEW S
    PROVE  /\ m \notin S => Fewer(q, Append(q, m), S)
           /\ ~Holds(q, S) => AtMost1(Append(q, m), S)
           /\ ~Holds(q, S) /\ m \notin S => ~Holds(Append(q, m), S)
<1> DEFINE r == Append(q, m)
<1>1. /\ DOMAIN r = 1 .. (Len(q) + 1) /\ DOMAIN q = 1 .. Len(q) /\ Len(q) \in Nat
      /\ \A i \in DOMAIN q : r[i] = q[i]
      /\ r[Len(q) + 1] = m
  OBVIOUS
<1> HIDE DEF r
<1>2. \A i \in DOMAIN r : i = Len(q) + 1 \/ i \in DOMAIN q BY <1>1
<1>3. \A i \in DOMAIN r : r[i] = m \/ (i \in DOMAIN q /\ r[i] = q[i]) BY <1>1, <1>2
<1>4. m \notin S => Fewer(q, r, S) BY <1>3 DEF Fewer, AtMost1
<1>5. ~Holds(q, S) => AtMost1(r, S) BY <1>1, <1>2 DEF AtMost1, Holds
<1>6. ~Holds(q, S) /\ m \notin S => ~Holds(r, S) BY <1>3 DEF Holds
<1> QED BY <1>4, <1>5, <1>6 DEF r

\* What a queue has after posting a message.
LEMMA AppendHas ==
    ASSUME NEW M, NEW q \in Seq(M), NEW m \in M
    PROVE  \A i \in DOMAIN Append(q, m) : Append(q, m)[i] = m \/ \E j \in DOMAIN q : q[j] = Append(q, m)[i]
OBVIOUS

\* Tearing a packet makes no token.
LEMMA TornTokens ==
    ASSUME NEW q \in Seq(Packets), q # <<>>
    PROVE  Fewer(q, Torn(q), UpTokens)
<1> DEFINE t == Tail(q)
           x == Packet("rubbish", Clear, "bad", 0)
           r == <<x>> \o t
<1>1. Fewer(q, t, UpTokens) BY TailTokens
<1>2. x \notin UpTokens BY DEF Packet, UpTokens
<1>3. t \in Seq(Packets) OBVIOUS
<1> HIDE DEF x, t
<1>4. /\ DOMAIN r = 1 .. (Len(t) + 1) /\ DOMAIN t = 1 .. Len(t) /\ Len(t) \in Nat
      /\ \A i \in DOMAIN t : r[i + 1] = t[i]
      /\ r[1] = x
  BY <1>3
<1> HIDE DEF r
<1>5. \A i \in DOMAIN r : i = 1 \/ (i - 1 \in DOMAIN t /\ r[i] = t[i - 1] /\ i \in Int) BY <1>4
<1>6. \A i \in DOMAIN r : r[i] \in UpTokens => i - 1 \in DOMAIN t /\ r[i] = t[i - 1] /\ i \in Int
  BY <1>2, <1>4, <1>5
<1>7. AtMost1(t, UpTokens) => AtMost1(r, UpTokens)
  <2> SUFFICES ASSUME AtMost1(t, UpTokens), NEW i \in DOMAIN r, NEW j \in DOMAIN r,
                      r[i] \in UpTokens, r[j] \in UpTokens
               PROVE  i = j
    BY DEF AtMost1
  <2>1. i - 1 = j - 1 BY <1>6 DEF AtMost1
  <2> QED BY <1>6, <2>1
<1>8. Fewer(t, r, UpTokens) BY <1>6, <1>7 DEF Fewer
<1>9. Fewer(q, r, UpTokens) BY <1>1, <1>8, FewerTrans
<1> QED BY <1>1, <1>9 DEF Torn, r, t, x

-----------------------------------------------------------------------------
(* A client's token                                                        *)

Stages == {"new", "open", "asking", "half asym", "asym", "half sym", "user"}

\* OneToken, TokenFits and Downloaded of a client c, said of values: R are the
\* stages whose ciphers both ends have, B is begun, and q, u, s, d, g, o are the
\* client's queue, the packets up, the server's queue, the packets down, the file
\* and the outcome.
FileOf(c) == [pos |-> filePos[c], data |-> got[c], kind |-> IF c \in short THEN "short" ELSE "whole"]
NoneOf(g) == g.pos = 0
FileOK(g, o) ==
    g.kind = "whole" => /\ g.data = [i \in 1 .. Len(g.data) |-> i - 1]
                        /\ Len(g.data) = IF o = "done" THEN Segments ELSE g.pos
UpOK(c, R, g, p) ==
    /\ p.type = "asym" => "asking" \in R /\ p.cipher = Clear
    /\ p.type = "sym"  => "asym" \in R /\ p.cipher = Asym("server")
    /\ p.type = "user" => "user" \in R /\ p.cipher = CliCiphers(c, "user").enc /\ p.n = g.pos
DownOK(c, R, g, p) ==
    /\ p.type = "asym" => "half asym" \in R /\ p.cipher = Clear
    /\ p.type = "sym"  => "half sym" \in R /\ p.cipher = Asym(c)
    /\ p.type = "user" => /\ "user" \in R /\ p.cipher = SrvCiphers(c, "user").enc
                          /\ p.n = g.pos /\ (p.res = "end" => p.n + 1 = Segments)
NoteOK(c, R, g, m) ==
    /\ m.cmd \in {"CONNECT_BEGIN", "CONNECT_FAILED"} => "new" \in R
    /\ m.cmd = "CONNECT_END" => "open" \in R
    /\ m.cmd = "EX_ASYM" => "asking" \in R
    /\ m.cmd = "EX_SYM"  => "asym" \in R
    /\ m.cmd \in {"USER_START", "USER_REQ"} => "user" \in R
    /\ m.cmd = "USER_START" => NoneOf(g)
    /\ m.cmd = "READ" => DownOK(c, R, g, m.pkt)
Quiet(c, B, q, u, s, d) ==
    /\ c \notin B /\ ~Holds(q, CliTokens) /\ ~Holds(u, UpTokens)
    /\ ~Holds(s, SrvTokens(c)) /\ ~Holds(d, UpTokens)
OneOK(c, B, q, u, s, d) ==
    /\ AtMost1(q, CliTokens) /\ AtMost1(u, UpTokens)
    /\ AtMost1(s, SrvTokens(c)) /\ AtMost1(d, UpTokens)
    /\ c \in B => ~Holds(q, CliTokens)
    /\ c \in B \/ Holds(q, CliTokens) =>
        ~Holds(u, UpTokens) /\ ~Holds(s, SrvTokens(c)) /\ ~Holds(d, UpTokens)
    /\ Holds(u, UpTokens) => ~Holds(s, SrvTokens(c)) /\ ~Holds(d, UpTokens)
    /\ Holds(s, SrvTokens(c)) => ~Holds(d, UpTokens)
FitOK(c, R, B, q, u, s, d, g) ==
    /\ c \in B => "open" \in R
    /\ \A i \in DOMAIN q : NoteOK(c, R, g, q[i])
    /\ \A i \in DOMAIN u : UpOK(c, R, g, u[i])
    /\ \A i \in DOMAIN s : s[i].cmd = "READ" /\ s[i].of = c => UpOK(c, R, g, s[i].pkt)
    /\ \A i \in DOMAIN d : DownOK(c, R, g, d[i])
DoneOK(c, B, q, u, s, d, g, o) ==
    /\ FileOK(g, o)
    /\ o = "done" => Quiet(c, B, q, u, s, d)
ClientOK(c, R, B, q, u, s, d, g, o) ==
    OneOK(c, B, q, u, s, d) /\ FitOK(c, R, B, q, u, s, d, g) /\ DoneOK(c, B, q, u, s, d, g, o)
StagesOf(c) == {st \in Stages : Reached(c, st)}

\* What the file of c is.
LEMMA FileParts ==
    ASSUME NEW c
    PROVE  /\ FileOf(c).pos = filePos[c] /\ FileOf(c).data = got[c]
           /\ FileOf(c).kind = "whole" <=> c \notin short
           /\ NoneOf(FileOf(c)) <=> Unread(c)
BY DEF FileOf, NoneOf, Unread

\* What it will be.
LEMMA FilePartsPrime ==
    ASSUME NEW c
    PROVE  /\ FileOf(c)'.pos = filePos'[c] /\ FileOf(c)'.data = got'[c]
           /\ FileOf(c)'.kind = "whole" <=> c \notin short'
           /\ NoneOf(FileOf(c)') <=> Unread(c)'
BY DEF FileOf, NoneOf, Unread

\* The same as ClientInv.
LEMMA ClientParts ==
    ASSUME NEW c
    PROVE  ClientInv(c) <=> ClientOK(c, StagesOf(c), begun, cq[c], up[c], sq, down[c], FileOf(c), outcome[c])
<1>1. \A st \in Stages : Reached(c, st) <=> st \in StagesOf(c) BY DEF StagesOf
<1>2. \A p : UpFits(c, p) <=> UpOK(c, StagesOf(c), FileOf(c), p) BY <1>1, FileParts DEF UpFits, UpOK, Stages
<1>3. \A p : DownFits(c, p) <=> DownOK(c, StagesOf(c), FileOf(c), p) BY <1>1, FileParts DEF DownFits, DownOK, Stages
<1>4. \A m : NoteFits(c, m) <=> NoteOK(c, StagesOf(c), FileOf(c), m)
  BY <1>1, <1>3, FileParts DEF NoteFits, NoteOK, Stages
<1>5. "open" \in Stages BY DEF Stages
<1>6. TokenFits(c) <=> FitOK(c, StagesOf(c), begun, cq[c], up[c], sq, down[c], FileOf(c))
  BY <1>1, <1>2, <1>3, <1>4, <1>5 DEF TokenFits, FitOK
<1>7. OneToken(c) <=> OneOK(c, begun, cq[c], up[c], sq, down[c]) BY DEF OneToken, OneOK
<1>8. Downloaded(c) <=> DoneOK(c, begun, cq[c], up[c], sq, down[c], FileOf(c), outcome[c])
  BY FileParts DEF Downloaded, DoneOK, Quiet, FileOK
<1> QED BY <1>6, <1>7, <1>8 DEF ClientOK, ClientInv

\* The same one step later.
LEMMA ClientPartsPrime ==
    ASSUME NEW c, ClientOK(c, StagesOf(c)', begun', cq'[c], up'[c], sq', down'[c], FileOf(c)', outcome'[c])
    PROVE  ClientInv(c)'
<1> DEFINE R == StagesOf(c)'
<1>1. \A st \in Stages : Reached(c, st)' <=> st \in R BY DEF StagesOf
<1> HIDE DEF R
<1>2. OneToken(c)' BY DEF OneToken, OneOK, ClientOK
<1>3. Downloaded(c)' BY FilePartsPrime DEF Downloaded, DoneOK, Quiet, ClientOK, FileOK
<1>4. /\ Reached(c, "new")' <=> "new" \in R
      /\ Reached(c, "open")' <=> "open" \in R
      /\ Reached(c, "asking")' <=> "asking" \in R
      /\ Reached(c, "half asym")' <=> "half asym" \in R
      /\ Reached(c, "asym")' <=> "asym" \in R
      /\ Reached(c, "half sym")' <=> "half sym" \in R
      /\ Reached(c, "user")' <=> "user" \in R
  BY <1>1 DEF Stages
<1> DEFINE g == FileOf(c)'
<1>5. FitOK(c, R, begun', cq'[c], up'[c], sq', down'[c], g) BY DEF ClientOK, R
<1>6. g.pos = filePos'[c] /\ (NoneOf(g) <=> Unread(c)') BY FilePartsPrime
<1> HIDE DEF g
<1>7. TokenFits(c)'
  <2>1. c \in begun' => Reached(c, "open")' BY <1>4, <1>5 DEF FitOK
  <2>2. \A i \in DOMAIN cq'[c] : NoteFits(c, cq[c][i])'
    BY <1>4, <1>5, <1>6 DEF FitOK, NoteFits, NoteOK, DownFits, DownOK
  <2>3. \A i \in DOMAIN up'[c] : UpFits(c, up[c][i])' BY <1>4, <1>5, <1>6 DEF FitOK, UpFits, UpOK
  <2>4. \A i \in DOMAIN sq' : sq'[i].cmd = "READ" /\ sq'[i].of = c => UpFits(c, sq[i].pkt)'
    BY <1>4, <1>5, <1>6 DEF FitOK, UpFits, UpOK
  <2>5. \A i \in DOMAIN down'[c] : DownFits(c, down[c][i])' BY <1>4, <1>5, <1>6 DEF FitOK, DownFits, DownOK
  <2> QED BY <2>1, <2>2, <2>3, <2>4, <2>5 DEF TokenFits
<1> QED BY <1>2, <1>3, <1>7 DEF ClientInv

\* What is no token fits everywhere.
LEMMA NoTokenFits ==
    ASSUME NEW c \in Clients, NEW R, NEW g
    PROVE  /\ \A m \in CliMsgs : m \notin CliTokens => NoteOK(c, R, g, m)
           /\ \A p \in Packets : p \notin UpTokens => UpOK(c, R, g, p) /\ DownOK(c, R, g, p)
           /\ \A m \in SrvMsgs : m \notin SrvTokens(c) /\ m.cmd = "READ" /\ m.of = c => UpOK(c, R, g, m.pkt)
<1>1. \A p : p.type = "rubbish" => UpOK(c, R, g, p) /\ DownOK(c, R, g, p) BY DEF UpOK, DownOK
<1>2. \A p \in Packets : p \notin UpTokens => p.type = "rubbish" BY DEF UpTokens
<1>3. \A m \in SrvMsgs : m \notin SrvTokens(c) /\ m.cmd = "READ" /\ m.of = c => m.pkt.type = "rubbish"
  BY DEF SrvTokens
<1>4. \A m \in CliMsgs : m \notin CliTokens =>
        m.cmd \in {"DISCONNECT", "FINI"} \/ (m.cmd = "READ" /\ m.pkt.type = "rubbish")
  BY DEF CliTokens
<1>5. \A m \in CliMsgs : m \notin CliTokens => NoteOK(c, R, g, m) BY <1>1, <1>4 DEF NoteOK
<1> QED BY <1>1, <1>2, <1>3, <1>5

\* More stages fit, the same file.
LEMMA MoreStages ==
    ASSUME NEW c \in Clients, NEW R, NEW R2, R \subseteq R2, NEW g
    PROVE  /\ \A m : NoteOK(c, R, g, m) => NoteOK(c, R2, g, m)
           /\ \A p : UpOK(c, R, g, p) => UpOK(c, R2, g, p)
           /\ \A p : DownOK(c, R, g, p) => DownOK(c, R2, g, p)
<1>1. \A p : DownOK(c, R, g, p) => DownOK(c, R2, g, p) BY DEF DownOK
<1>2. \A p : UpOK(c, R, g, p) => UpOK(c, R2, g, p) BY DEF UpOK
<1>3. \A m : NoteOK(c, R, g, m) => NoteOK(c, R2, g, m) BY <1>1 DEF NoteOK
<1> QED BY <1>1, <1>2, <1>3

\* A step that hands on no token of c, or loses it.
LEMMA Loses ==
    ASSUME NEW c \in Clients, NEW R, NEW R2, NEW B, NEW B2, NEW q, NEW q2 \in Seq(CliMsgs),
           NEW u, NEW u2 \in Seq(Packets), NEW s, NEW s2 \in Seq(SrvMsgs),
           NEW d, NEW d2 \in Seq(Packets), NEW g, NEW o,
           ClientOK(c, R, B, q, u, s, d, g, o), R \subseteq R2, c \in B2 => c \in B,
           Fewer(q, q2, CliTokens), Fewer(u, u2, UpTokens), Fewer(s, s2, SrvTokens(c)), Fewer(d, d2, UpTokens)
    PROVE  ClientOK(c, R2, B2, q2, u2, s2, d2, g, o)
<1>1. OneOK(c, B, q, u, s, d) /\ FitOK(c, R, B, q, u, s, d, g) /\ DoneOK(c, B, q, u, s, d, g, o) BY DEF ClientOK
<1>2. /\ Holds(q2, CliTokens) => Holds(q, CliTokens)
      /\ Holds(u2, UpTokens) => Holds(u, UpTokens)
      /\ Holds(s2, SrvTokens(c)) => Holds(s, SrvTokens(c))
      /\ Holds(d2, UpTokens) => Holds(d, UpTokens)
  <2>1. Holds(q2, CliTokens) => Holds(q, CliTokens) BY FewerHolds
  <2>2. Holds(u2, UpTokens) => Holds(u, UpTokens) BY FewerHolds
  <2>3. Holds(s2, SrvTokens(c)) => Holds(s, SrvTokens(c)) BY FewerHolds
  <2>4. Holds(d2, UpTokens) => Holds(d, UpTokens) BY FewerHolds
  <2> QED BY <2>1, <2>2, <2>3, <2>4
<1>3. /\ AtMost1(q, CliTokens) => AtMost1(q2, CliTokens)
      /\ AtMost1(u, UpTokens) => AtMost1(u2, UpTokens)
      /\ AtMost1(s, SrvTokens(c)) => AtMost1(s2, SrvTokens(c))
      /\ AtMost1(d, UpTokens) => AtMost1(d2, UpTokens)
  BY DEF Fewer
<1>4. OneOK(c, B2, q2, u2, s2, d2) BY <1>1, <1>2, <1>3 DEF OneOK
<1>5. DoneOK(c, B2, q2, u2, s2, d2, g, o)
  <2>1. Quiet(c, B, q, u, s, d) => Quiet(c, B2, q2, u2, s2, d2) BY <1>2 DEF Quiet
  <2> QED BY <1>1, <2>1 DEF DoneOK
<1>6. ASSUME NEW i \in DOMAIN q2 PROVE NoteOK(c, R2, g, q2[i])
  <2>1. q2[i] \in CliMsgs BY <1>6
  <2>2. CASE q2[i] \in CliTokens
    <3>1. PICK j \in DOMAIN q : q[j] = q2[i] BY <1>6, <2>2 DEF Fewer
    <3>2. NoteOK(c, R, g, q2[i]) BY <1>1, <3>1 DEF FitOK
    <3> QED BY <3>2, MoreStages
  <2> QED BY <2>1, <2>2, NoTokenFits
<1>7. ASSUME NEW i \in DOMAIN u2 PROVE UpOK(c, R2, g, u2[i])
  <2>1. u2[i] \in Packets BY <1>7
  <2>2. CASE u2[i] \in UpTokens
    <3>1. PICK j \in DOMAIN u : u[j] = u2[i] BY <1>7, <2>2 DEF Fewer
    <3>2. UpOK(c, R, g, u2[i]) BY <1>1, <3>1 DEF FitOK
    <3> QED BY <3>2, MoreStages
  <2> QED BY <2>1, <2>2, NoTokenFits
<1>8. ASSUME NEW i \in DOMAIN s2, s2[i].cmd = "READ", s2[i].of = c PROVE UpOK(c, R2, g, s2[i].pkt)
  <2>1. s2[i] \in SrvMsgs BY <1>8
  <2>2. CASE s2[i] \in SrvTokens(c)
    <3>1. PICK j \in DOMAIN s : s[j] = s2[i] BY <1>8, <2>2 DEF Fewer
    <3>2. UpOK(c, R, g, s2[i].pkt) BY <1>1, <1>8, <3>1 DEF FitOK
    <3> QED BY <3>2, MoreStages
  <2> QED BY <1>8, <2>1, <2>2, NoTokenFits
<1>9. ASSUME NEW i \in DOMAIN d2 PROVE DownOK(c, R2, g, d2[i])
  <2>1. d2[i] \in Packets BY <1>9
  <2>2. CASE d2[i] \in UpTokens
    <3>1. PICK j \in DOMAIN d : d[j] = d2[i] BY <1>9, <2>2 DEF Fewer
    <3>2. DownOK(c, R, g, d2[i]) BY <1>1, <3>1 DEF FitOK
    <3> QED BY <3>2, MoreStages
  <2> QED BY <2>1, <2>2, NoTokenFits
<1>10. c \in B2 => "open" \in R2 BY <1>1 DEF FitOK
<1>11. FitOK(c, R2, B2, q2, u2, s2, d2, g) BY <1>6, <1>7, <1>8, <1>9, <1>10 DEF FitOK
<1> QED BY <1>4, <1>5, <1>11 DEF ClientOK

\* A client that has no token may be anywhere, and have got any part of the file.
LEMMA NoToken ==
    ASSUME NEW c \in Clients, NEW R, NEW B, NEW q \in Seq(CliMsgs), NEW u \in Seq(Packets),
           NEW s \in Seq(SrvMsgs), NEW d \in Seq(Packets), NEW g, NEW o,
           Quiet(c, B, q, u, s, d), FileOK(g, o)
    PROVE  ClientOK(c, R, B, q, u, s, d, g, o)
<1>1. OneOK(c, B, q, u, s, d) BY DEF OneOK, Quiet, AtMost1, Holds
<1>2. DoneOK(c, B, q, u, s, d, g, o) BY DEF DoneOK
<1>3. /\ \A i \in DOMAIN q : q[i] \in CliMsgs /\ q[i] \notin CliTokens
      /\ \A i \in DOMAIN u : u[i] \in Packets /\ u[i] \notin UpTokens
      /\ \A i \in DOMAIN s : s[i] \in SrvMsgs /\ s[i] \notin SrvTokens(c)
      /\ \A i \in DOMAIN d : d[i] \in Packets /\ d[i] \notin UpTokens
      /\ c \notin B
  BY DEF Quiet, Holds
<1>4. FitOK(c, R, B, q, u, s, d, g) BY <1>3, NoTokenFits DEF FitOK
<1> QED BY <1>1, <1>2, <1>4 DEF ClientOK

\* The token is taken from its queue.
LEMMA TakesNote ==
    ASSUME NEW c \in Clients, NEW R, NEW B, NEW q \in Seq(CliMsgs), NEW u \in Seq(Packets),
           NEW s \in Seq(SrvMsgs), NEW d \in Seq(Packets), NEW g, NEW o,
           ClientOK(c, R, B, q, u, s, d, g, o), q # <<>>, Head(q) \in CliTokens
    PROVE  /\ Quiet(c, B, Tail(q), u, s, d) /\ NoteOK(c, R, g, Head(q))
           /\ FileOK(g, o) /\ o # "done"
<1>1. OneOK(c, B, q, u, s, d) /\ FitOK(c, R, B, q, u, s, d, g) /\ DoneOK(c, B, q, u, s, d, g, o) BY DEF ClientOK
<1>2. Holds(q, CliTokens) /\ (AtMost1(q, CliTokens) => ~Holds(Tail(q), CliTokens)) BY TailTokens
<1>3. Quiet(c, B, Tail(q), u, s, d) BY <1>1, <1>2 DEF OneOK, Quiet
<1>4. 1 \in DOMAIN q /\ Head(q) = q[1] OBVIOUS
<1>6. NoteOK(c, R, g, Head(q)) BY <1>1, <1>4 DEF FitOK
<1>7. o # "done" BY <1>1, <1>2 DEF DoneOK, Quiet
<1> QED BY <1>1, <1>3, <1>6, <1>7 DEF DoneOK

\* The token is taken from the packets up.
LEMMA TakesUp ==
    ASSUME NEW c \in Clients, NEW R, NEW B, NEW q \in Seq(CliMsgs), NEW u \in Seq(Packets),
           NEW s \in Seq(SrvMsgs), NEW d \in Seq(Packets), NEW g, NEW o,
           ClientOK(c, R, B, q, u, s, d, g, o), u # <<>>, Head(u) \in UpTokens
    PROVE  /\ Quiet(c, B, q, Tail(u), s, d) /\ UpOK(c, R, g, Head(u))
           /\ FileOK(g, o) /\ o # "done"
<1>1. OneOK(c, B, q, u, s, d) /\ FitOK(c, R, B, q, u, s, d, g) /\ DoneOK(c, B, q, u, s, d, g, o) BY DEF ClientOK
<1>2. Holds(u, UpTokens) /\ (AtMost1(u, UpTokens) => ~Holds(Tail(u), UpTokens)) BY TailTokens
<1>3. Quiet(c, B, q, Tail(u), s, d) BY <1>1, <1>2 DEF OneOK, Quiet
<1>4. 1 \in DOMAIN u /\ Head(u) = u[1] OBVIOUS
<1>6. UpOK(c, R, g, Head(u)) BY <1>1, <1>4 DEF FitOK
<1>7. o # "done" BY <1>1, <1>2 DEF DoneOK, Quiet
<1> QED BY <1>1, <1>3, <1>6, <1>7 DEF DoneOK

\* The token is taken from the server's queue.
LEMMA TakesRead ==
    ASSUME NEW c \in Clients, NEW R, NEW B, NEW q \in Seq(CliMsgs), NEW u \in Seq(Packets),
           NEW s \in Seq(SrvMsgs), NEW d \in Seq(Packets), NEW g, NEW o,
           ClientOK(c, R, B, q, u, s, d, g, o), s # <<>>, Head(s) \in SrvTokens(c)
    PROVE  /\ Quiet(c, B, q, u, Tail(s), d) /\ UpOK(c, R, g, Head(s).pkt)
           /\ FileOK(g, o) /\ o # "done"
<1>1. OneOK(c, B, q, u, s, d) /\ FitOK(c, R, B, q, u, s, d, g) /\ DoneOK(c, B, q, u, s, d, g, o) BY DEF ClientOK
<1>2. Holds(s, SrvTokens(c)) /\ (AtMost1(s, SrvTokens(c)) => ~Holds(Tail(s), SrvTokens(c))) BY TailTokens
<1>3. Quiet(c, B, q, u, Tail(s), d) BY <1>1, <1>2 DEF OneOK, Quiet
<1>4. 1 \in DOMAIN s /\ Head(s) = s[1] OBVIOUS
<1>5. Head(s).cmd = "READ" /\ Head(s).of = c BY DEF SrvTokens
<1>6. UpOK(c, R, g, Head(s).pkt) BY <1>1, <1>4, <1>5 DEF FitOK
<1>7. o # "done" BY <1>1, <1>2 DEF DoneOK, Quiet
<1> QED BY <1>1, <1>3, <1>6, <1>7 DEF DoneOK

\* The token is taken from the packets down.
LEMMA TakesDown ==
    ASSUME NEW c \in Clients, NEW R, NEW B, NEW q \in Seq(CliMsgs), NEW u \in Seq(Packets),
           NEW s \in Seq(SrvMsgs), NEW d \in Seq(Packets), NEW g, NEW o,
           ClientOK(c, R, B, q, u, s, d, g, o), d # <<>>, Head(d) \in UpTokens
    PROVE  /\ Quiet(c, B, q, u, s, Tail(d)) /\ DownOK(c, R, g, Head(d))
           /\ FileOK(g, o) /\ o # "done"
<1>1. OneOK(c, B, q, u, s, d) /\ FitOK(c, R, B, q, u, s, d, g) /\ DoneOK(c, B, q, u, s, d, g, o) BY DEF ClientOK
<1>2. Holds(d, UpTokens) /\ (AtMost1(d, UpTokens) => ~Holds(Tail(d), UpTokens)) BY TailTokens
<1>3. Quiet(c, B, q, u, s, Tail(d)) BY <1>1, <1>2 DEF OneOK, Quiet
<1>4. 1 \in DOMAIN d /\ Head(d) = d[1] OBVIOUS
<1>6. DownOK(c, R, g, Head(d)) BY <1>1, <1>4 DEF FitOK
<1>7. o # "done" BY <1>1, <1>2 DEF DoneOK, Quiet
<1> QED BY <1>1, <1>3, <1>6, <1>7 DEF DoneOK

\* A token is put into its queue.
LEMMA PutsNote ==
    ASSUME NEW c \in Clients, NEW R, NEW B, NEW q \in Seq(CliMsgs), NEW u \in Seq(Packets),
           NEW s \in Seq(SrvMsgs), NEW d \in Seq(Packets), NEW g, NEW o,
           Quiet(c, B, q, u, s, d), FileOK(g, o), o # "done", NEW m \in CliMsgs,
           NoteOK(c, R, g, m)
    PROVE  ClientOK(c, R, B, Append(q, m), u, s, d, g, o)
<1> DEFINE r == Append(q, m)
<1>1. ClientOK(c, R, B, q, u, s, d, g, o) BY NoToken
<1>2. OneOK(c, B, q, u, s, d) /\ FitOK(c, R, B, q, u, s, d, g) /\ DoneOK(c, B, q, u, s, d, g, o) BY <1>1 DEF ClientOK
<1>3. ~Holds(q, CliTokens) BY DEF Quiet
<1>8. ~Holds(q, CliTokens) => AtMost1(r, CliTokens) BY AppendTokens
<1>9. \A i \in DOMAIN r : r[i] = m \/ \E j \in DOMAIN q : q[j] = r[i] BY AppendHas
<1>4. /\ AtMost1(r, CliTokens)
      /\ \A i \in DOMAIN r : r[i] = m \/ \E j \in DOMAIN q : q[j] = r[i]
  BY <1>3, <1>8, <1>9
<1> HIDE DEF r
<1>5. OneOK(c, B, r, u, s, d) BY <1>2, <1>4 DEF OneOK, Quiet
<1>6. DoneOK(c, B, r, u, s, d, g, o) BY DEF DoneOK
<1>7. FitOK(c, R, B, r, u, s, d, g) BY <1>2, <1>4 DEF FitOK
<1> QED BY <1>5, <1>6, <1>7 DEF ClientOK, r

\* A token is put into the packets up.
LEMMA PutsUp ==
    ASSUME NEW c \in Clients, NEW R, NEW B, NEW q \in Seq(CliMsgs), NEW u \in Seq(Packets),
           NEW s \in Seq(SrvMsgs), NEW d \in Seq(Packets), NEW g, NEW o,
           Quiet(c, B, q, u, s, d), FileOK(g, o), o # "done", NEW m \in Packets,
           UpOK(c, R, g, m)
    PROVE  ClientOK(c, R, B, q, Append(u, m), s, d, g, o)
<1> DEFINE r == Append(u, m)
<1>1. ClientOK(c, R, B, q, u, s, d, g, o) BY NoToken
<1>2. OneOK(c, B, q, u, s, d) /\ FitOK(c, R, B, q, u, s, d, g) /\ DoneOK(c, B, q, u, s, d, g, o) BY <1>1 DEF ClientOK
<1>3. ~Holds(u, UpTokens) BY DEF Quiet
<1>8. ~Holds(u, UpTokens) => AtMost1(r, UpTokens) BY AppendTokens
<1>9. \A i \in DOMAIN r : r[i] = m \/ \E j \in DOMAIN u : u[j] = r[i] BY AppendHas
<1>4. /\ AtMost1(r, UpTokens)
      /\ \A i \in DOMAIN r : r[i] = m \/ \E j \in DOMAIN u : u[j] = r[i]
  BY <1>3, <1>8, <1>9
<1> HIDE DEF r
<1>5. OneOK(c, B, q, r, s, d) BY <1>2, <1>4 DEF OneOK, Quiet
<1>6. DoneOK(c, B, q, r, s, d, g, o) BY DEF DoneOK
<1>7. FitOK(c, R, B, q, r, s, d, g) BY <1>2, <1>4 DEF FitOK
<1> QED BY <1>5, <1>6, <1>7 DEF ClientOK, r

\* A token is put into the server's queue.
LEMMA PutsRead ==
    ASSUME NEW c \in Clients, NEW R, NEW B, NEW q \in Seq(CliMsgs), NEW u \in Seq(Packets),
           NEW s \in Seq(SrvMsgs), NEW d \in Seq(Packets), NEW g, NEW o,
           Quiet(c, B, q, u, s, d), FileOK(g, o), o # "done", NEW m \in SrvMsgs,
           (m.cmd = "READ" /\ m.of = c => UpOK(c, R, g, m.pkt))
    PROVE  ClientOK(c, R, B, q, u, Append(s, m), d, g, o)
<1> DEFINE r == Append(s, m)
<1>1. ClientOK(c, R, B, q, u, s, d, g, o) BY NoToken
<1>2. OneOK(c, B, q, u, s, d) /\ FitOK(c, R, B, q, u, s, d, g) /\ DoneOK(c, B, q, u, s, d, g, o) BY <1>1 DEF ClientOK
<1>3. ~Holds(s, SrvTokens(c)) BY DEF Quiet
<1>8. ~Holds(s, SrvTokens(c)) => AtMost1(r, SrvTokens(c)) BY AppendTokens
<1>9. \A i \in DOMAIN r : r[i] = m \/ \E j \in DOMAIN s : s[j] = r[i] BY AppendHas
<1>4. /\ AtMost1(r, SrvTokens(c))
      /\ \A i \in DOMAIN r : r[i] = m \/ \E j \in DOMAIN s : s[j] = r[i]
  BY <1>3, <1>8, <1>9
<1> HIDE DEF r
<1>5. OneOK(c, B, q, u, r, d) BY <1>2, <1>4 DEF OneOK, Quiet
<1>6. DoneOK(c, B, q, u, r, d, g, o) BY DEF DoneOK
<1>7. FitOK(c, R, B, q, u, r, d, g) BY <1>2, <1>4 DEF FitOK
<1> QED BY <1>5, <1>6, <1>7 DEF ClientOK, r

\* A token is put into the packets down.
LEMMA PutsDown ==
    ASSUME NEW c \in Clients, NEW R, NEW B, NEW q \in Seq(CliMsgs), NEW u \in Seq(Packets),
           NEW s \in Seq(SrvMsgs), NEW d \in Seq(Packets), NEW g, NEW o,
           Quiet(c, B, q, u, s, d), FileOK(g, o), o # "done", NEW m \in Packets,
           DownOK(c, R, g, m)
    PROVE  ClientOK(c, R, B, q, u, s, Append(d, m), g, o)
<1> DEFINE r == Append(d, m)
<1>1. ClientOK(c, R, B, q, u, s, d, g, o) BY NoToken
<1>2. OneOK(c, B, q, u, s, d) /\ FitOK(c, R, B, q, u, s, d, g) /\ DoneOK(c, B, q, u, s, d, g, o) BY <1>1 DEF ClientOK
<1>3. ~Holds(d, UpTokens) BY DEF Quiet
<1>8. ~Holds(d, UpTokens) => AtMost1(r, UpTokens) BY AppendTokens
<1>9. \A i \in DOMAIN r : r[i] = m \/ \E j \in DOMAIN d : d[j] = r[i] BY AppendHas
<1>4. /\ AtMost1(r, UpTokens)
      /\ \A i \in DOMAIN r : r[i] = m \/ \E j \in DOMAIN d : d[j] = r[i]
  BY <1>3, <1>8, <1>9
<1> HIDE DEF r
<1>5. OneOK(c, B, q, u, s, r) BY <1>2, <1>4 DEF OneOK, Quiet
<1>6. DoneOK(c, B, q, u, s, r, g, o) BY DEF DoneOK
<1>7. FitOK(c, R, B, q, u, s, r, g) BY <1>2, <1>4 DEF FitOK
<1> QED BY <1>5, <1>6, <1>7 DEF ClientOK, r

\* A connection begins: addConnect will post CONNECT_END.
LEMMA PutsBegun ==
    ASSUME NEW c \in Clients, NEW R, NEW B, NEW q \in Seq(CliMsgs), NEW u \in Seq(Packets),
           NEW s \in Seq(SrvMsgs), NEW d \in Seq(Packets), NEW g, NEW o,
           Quiet(c, B, q, u, s, d), FileOK(g, o), o # "done", "open" \in R
    PROVE  ClientOK(c, R, B \cup {c}, q, u, s, d, g, o)
<1>1. ClientOK(c, R, B, q, u, s, d, g, o) BY NoToken
<1>2. OneOK(c, B \cup {c}, q, u, s, d) BY <1>1 DEF ClientOK, OneOK, Quiet
<1>3. FitOK(c, R, B \cup {c}, q, u, s, d, g) BY <1>1 DEF ClientOK, FitOK
<1> QED BY <1>1, <1>2, <1>3 DEF ClientOK, DoneOK

\* A step that leaves the listeners of c alone, closes one or gives c its first.
LEMMA ReachedKept ==
    ASSUME NEW c \in Clients,
           \A h \in Handles : conn'[h] = c =>
               \/ conn[h] = c /\ socks'[h] = socks[h]
               \/ Waiting(c) /\ (socks'[h] = None \/ socks'[h] = NewListener(c)),
           Waiting(c)' => Waiting(c),
           csocks'[c] = csocks[c] \/ csocks'[c] = None,
           filePos'[c] = filePos[c]
    PROVE  StagesOf(c) \subseteq StagesOf(c)'
<1> SUFFICES ASSUME NEW st \in Stages, Reached(c, st) PROVE Reached(c, st)'
  BY DEF StagesOf
<1>1. ASSUME NEW h \in Handles, conn'[h] = c, socks'[h] # None
      PROVE  socks'[h].enc = SrvCiphers(c, st).enc /\ socks'[h].dec = SrvCiphers(c, st).dec
  <2>1. CASE conn[h] = c /\ socks'[h] = socks[h] BY <1>1, <2>1 DEF Reached
  <2>2. CASE Waiting(c) /\ socks'[h] = NewListener(c)
    <3>1. st \in {"new", "open", "asking"} \/ c \notin Secure BY <2>2 DEF Reached
    <3>2. SrvCiphers(c, st).enc = Clear /\ SrvCiphers(c, st).dec = Clear BY <3>1 DEF SrvCiphers
    <3>3. socks'[h].enc = Clear /\ socks'[h].dec = Clear BY <2>2 DEF NewListener
    <3> QED BY <3>2, <3>3
  <2> QED BY <1>1, <2>1, <2>2
<1>2. csocks'[c] # None =>
        csocks'[c].enc = CliCiphers(c, st).enc /\ csocks'[c].dec = CliCiphers(c, st).dec
  BY DEF Reached
<1>3. st = "new" => ~Waiting(c)' /\ \A h \in Handles : conn'[h] # c
  BY DEF Reached
<1>4. st \in {"asking", "half asym", "asym", "half sym"} => c \in Secure BY DEF Reached
<1>5. st \notin {"new", "open", "asking"} /\ c \in Secure => ~Waiting(c)' BY DEF Reached
<1>6. SrvCiphers(c, st)' = SrvCiphers(c, st) /\ CliCiphers(c, st)' = CliCiphers(c, st)
  BY DEF SrvCiphers, CliCiphers
<1>7. st # "user" => Unread(c)' BY DEF Reached, Unread
<1> QED BY <1>1, <1>2, <1>3, <1>4, <1>5, <1>6, <1>7 DEF Reached

\* A file that is left alone.
LEMMA FileKept ==
    ASSUME NEW c, UNCHANGED <<filePos, got, short>>
    PROVE  FileOf(c)' = FileOf(c) /\ filePos'[c] = filePos[c]
BY DEF FileOf

\* The same where the server keeps its handles and its backlog.
LEMMA ReachedSame ==
    ASSUME NEW c \in Clients, UNCHANGED <<backlog, conn, socks>>,
           csocks'[c] = csocks[c] \/ csocks'[c] = None, filePos'[c] = filePos[c]
    PROVE  StagesOf(c) \subseteq StagesOf(c)'
<1>1. Waiting(c)' => Waiting(c) BY DEF Waiting
<1>2. \A h \in Handles : conn'[h] = c => conn[h] = c /\ socks'[h] = socks[h] OBVIOUS
<1> QED BY <1>1, <1>2, ReachedKept

\* A client that hands on no token.
LEMMA ClientKept ==
    ASSUME TypeOK', NEW c \in Clients, ClientInv(c), StagesOf(c) \subseteq StagesOf(c)',
           c \in begun' => c \in begun, FileOf(c)' = FileOf(c), outcome'[c] = outcome[c],
           Fewer(cq[c], cq'[c], CliTokens), Fewer(up[c], up'[c], UpTokens),
           Fewer(sq, sq', SrvTokens(c)), Fewer(down[c], down'[c], UpTokens)
    PROVE  ClientInv(c)'
<1>1. ClientOK(c, StagesOf(c), begun, cq[c], up[c], sq, down[c], FileOf(c), outcome[c]) BY ClientParts
<1>2. cq'[c] \in Seq(CliMsgs) /\ up'[c] \in Seq(Packets) /\ sq' \in Seq(SrvMsgs) /\ down'[c] \in Seq(Packets)
  BY DEF TypeOK
<1>3. ClientOK(c, StagesOf(c)', begun', cq'[c], up'[c], sq', down'[c], FileOf(c), outcome[c])
  BY <1>1, <1>2, Loses
<1> QED BY <1>3, ClientPartsPrime

-----------------------------------------------------------------------------
(* Steps of a client                                                       *)

\* What a client's threads leave alone.
LEMMA Apart ==
    ASSUME TypeOK, NEW c \in Clients, CliLoop(c) \/ CliSelect(c) \/ CliStop(c) \/ Reset(c),
           NEW x \in Clients, x # c
    PROVE  /\ cq'[x] = cq[x] /\ up'[x] = up[x] /\ down'[x] = down[x] /\ csocks'[x] = csocks[x]
           /\ filePos'[x] = filePos[x] /\ FileOf(x)' = FileOf(x) /\ outcome'[x] = outcome[x]
           /\ x \in begun' => x \in begun
           /\ backlog' = backlog \/ backlog' = Append(backlog, c)
<1>0. /\ cq \in [Clients -> Seq(CliMsgs)] /\ up \in [Clients -> Seq(Packets)]
      /\ down \in [Clients -> Seq(Packets)] /\ csocks \in [Clients -> Listeners \cup {None}]
      /\ filePos \in [Clients -> Nat] /\ got \in [Clients -> Seq(Nat)]
      /\ outcome \in [Clients -> {"none", "done", "failed", "crashed"}]
  BY DEF TypeOK
<1> DEFINE Queues == /\ cq'[x] = cq[x] /\ up'[x] = up[x] /\ down'[x] = down[x] /\ csocks'[x] = csocks[x]
                     /\ x \in begun' => x \in begun
                     /\ backlog' = backlog \/ backlog' = Append(backlog, c)
           ItsFile == /\ filePos'[x] = filePos[x] /\ got'[x] = got[x] /\ outcome'[x] = outcome[x]
                      /\ x \in short' <=> x \in short
<1> SUFFICES Queues /\ ItsFile
  <2>1. ASSUME ItsFile PROVE FileOf(x)' = FileOf(x)
    <3>1. (IF x \in short' THEN "short" ELSE "whole") = IF x \in short THEN "short" ELSE "whole" BY <2>1
    <3> QED BY <2>1, <3>1, Zenon DEF FileOf
  <2> QED BY <2>1
<1>1. CASE CliSelect(c) \/ CliStop(c) \/ Reset(c)
  <2>1. Queues
    BY <1>0, <1>1 DEF CliSelect, CliRecv, CliRecvFails, CliRecvBad, CliStop, Reset, server, client, net
  <2>2. ItsFile BY <1>1 DEF CliSelect, CliRecv, CliRecvFails, CliRecvBad, CliStop, Reset, client, file
  <2> QED BY <2>1, <2>2
<1>2. CASE OnConnectBegin(c) \/ OnConnectAdded(c) \/ OnConnectRefused(c) \/ OnConnectFailed(c)
           \/ OnConnectEnd(c)
  <2>1. Queues
    BY <1>0, <1>2 DEF OnConnectBegin, OnConnectAdded, OnConnectRefused, OnConnectFailed, OnConnectEnd,
                Posts, server, net
  <2>2. ItsFile
    BY <1>2 DEF OnConnectBegin, OnConnectAdded, OnConnectRefused, OnConnectFailed, OnConnectEnd, file
  <2> QED BY <2>1, <2>2
<1>3. CASE OnExchange(c) \/ OnUserStart(c) \/ OnRecvFileReq(c) \/ CliSkips(c) \/ CliDropRead(c)
  <2>1. Queues
    BY <1>0, <1>3 DEF OnExchange, OnUserStart, OnRecvFileReq, CliSkips, CliDropRead, CliSends, Posts, server, net
  <2>2. ItsFile BY <1>0, <1>3 DEF OnExchange, OnUserStart, OnRecvFileReq, CliSkips, CliDropRead, file
  <2> QED BY <2>1, <2>2
<1>4. CASE CliReadAsym(c) \/ CliReadSym(c) \/ CliReadUser(c)
  <2>1. Queues BY <1>0, <1>4 DEF CliReadAsym, CliReadSym, CliReadUser, Posts, server, net
  <2>2. CASE CliReadAsym(c) \/ CliReadSym(c)
    <3>1. ItsFile BY <2>2 DEF CliReadAsym, CliReadSym, file
    <3> QED BY <2>1, <3>1
  <2>3. CASE CliReadUser(c)
    <3>1. filePos'[x] = filePos[x] /\ outcome'[x] = outcome[x] BY <1>0, <2>3 DEF CliReadUser
    <3>2. got'[x] = got[x] /\ (x \in short' <=> x \in short)
      <4>1. CASE UNCHANGED <<got, short>> BY <4>1
      <4>2. CASE SfWrites(c, Head(cq[c]).pkt.n) BY <1>0, <4>2 DEF SfWrites
      <4> QED BY <2>3, <4>1, <4>2 DEF CliReadUser
    <3> QED BY <2>1, <3>1, <3>2
  <2> QED BY <1>4, <2>1, <2>2, <2>3
<1>5. CASE CliOnDisconnect(c) \/ CliOnFini(c) \/ CliNullPointer(c) \/ CliNoFile(c)
  <2>1. Queues
    BY <1>0, <1>5 DEF CliOnDisconnect, CliOnFini, CliNullPointer, CliNoFile, Posts, server, net
  <2>2. ItsFile BY <1>0, <1>5 DEF CliOnDisconnect, CliOnFini, CliNullPointer, CliNoFile, file
  <2> QED BY <2>1, <2>2
<1> QED BY <1>1, <1>2, <1>3, <1>4, <1>5 DEF CliLoop

\* The other clients keep their tokens.
LEMMA OtherClients ==
    ASSUME TypeOK, TypeOK', TokenInv, NEW c \in Clients,
           CliLoop(c) \/ CliSelect(c) \/ CliStop(c) \/ Reset(c), NEW x \in Clients, x # c
    PROVE  ClientInv(x)'
<1>1. /\ cq'[x] = cq[x] /\ up'[x] = up[x] /\ down'[x] = down[x] /\ csocks'[x] = csocks[x]
      /\ filePos'[x] = filePos[x] /\ FileOf(x)' = FileOf(x) /\ outcome'[x] = outcome[x]
      /\ x \in begun' => x \in begun
      /\ backlog' = backlog \/ backlog' = Append(backlog, c)
  BY Apart
<1>2. conn' = conn /\ socks' = socks /\ sq' = sq BY OthersKeepHandles
<1>3. Waiting(x)' => Waiting(x)
  <2>1. ASSUME NEW i \in DOMAIN backlog', backlog'[i] = x PROVE \E j \in DOMAIN backlog : backlog[j] = x
    <3>1. CASE backlog' = Append(backlog, c)
      <4>1. backlog \in Seq(Clients) BY DEF TypeOK
      <4>2. backlog'[i] = c \/ \E j \in DOMAIN backlog : backlog[j] = backlog'[i]
        BY <2>1, <3>1, <4>1, AppendHas
      <4> QED BY <2>1, <4>2
    <3> QED BY <1>1, <2>1, <3>1
  <2> QED BY <1>2, <2>1 DEF Waiting
<1>4. \A h \in Handles : conn'[h] = x => conn[h] = x /\ socks'[h] = socks[h] BY <1>2
<1>5. StagesOf(x) \subseteq StagesOf(x)' BY <1>1, <1>3, <1>4, ReachedKept
<1>6. ClientInv(x) BY DEF TokenInv
<1>7. Fewer(cq[x], cq'[x], CliTokens) BY <1>1, SameTokens
<1>8. Fewer(up[x], up'[x], UpTokens) BY <1>1, SameTokens
<1>9. Fewer(down[x], down'[x], UpTokens) BY <1>1, SameTokens
<1>10. Fewer(sq, sq', SrvTokens(x)) BY <1>2, SameTokens
<1> QED BY <1>1, <1>5, <1>6, <1>7, <1>8, <1>9, <1>10, ClientKept

\* A client comes to the backlog once.
LEMMA OnceKept ==
    ASSUME TypeOK, OncePerClient, UNCHANGED conn,
           \/ UNCHANGED backlog
           \/ \E c \in Clients : backlog' = Append(backlog, c) /\ Reached(c, "new")
    PROVE  OncePerClient'
<1>1. CASE UNCHANGED backlog BY <1>1 DEF OncePerClient
<1>2. ASSUME NEW c \in Clients, backlog' = Append(backlog, c), Reached(c, "new") PROVE OncePerClient'
  <2>0. backlog \in Seq(Clients) BY DEF TypeOK
  <2>1. /\ DOMAIN backlog' = 1 .. (Len(backlog) + 1) /\ DOMAIN backlog = 1 .. Len(backlog)
        /\ Len(backlog) \in Nat /\ backlog'[Len(backlog) + 1] = c
        /\ \A i \in DOMAIN backlog : backlog'[i] = backlog[i]
    BY <1>2, <2>0
  <2>2. (\A i \in DOMAIN backlog : backlog[i] # c) /\ (\A h \in Handles : conn[h] # c)
    BY <1>2 DEF Reached, Waiting
  <2>3. \A i \in DOMAIN backlog' : i = Len(backlog) + 1 \/ i \in DOMAIN backlog BY <2>1
  <2>4. \A i, j \in DOMAIN backlog' : backlog'[i] = backlog'[j] => i = j
    BY <2>1, <2>2, <2>3 DEF OncePerClient
  <2>5. \A i \in DOMAIN backlog', h \in Handles : conn[h] # backlog'[i]
    BY <2>1, <2>2, <2>3 DEF OncePerClient
  <2>6. \A h, k \in Handles : conn[h] # None /\ conn[h] = conn[k] => h = k BY DEF OncePerClient
  <2> QED BY <2>4, <2>5, <2>6 DEF OncePerClient
<1> QED BY <1>1, <1>2

\* Which messages of a client's queue are tokens.
LEMMA NoteTokens ==
    /\ \A m \in CliMsgs : m.cmd \notin {"DISCONNECT", "FINI", "READ"} => m \in CliTokens
    /\ \A m \in CliMsgs : m.cmd = "READ" /\ m.pkt.type # "rubbish" => m \in CliTokens
    /\ Note("DISCONNECT") \notin CliTokens /\ Note("FINI") \notin CliTokens
    /\ Note("DISCONNECT") \in CliMsgs /\ Note("FINI") \in CliMsgs
<1>1. Note("DISCONNECT") \in CliMsgs /\ Note("FINI") \in CliMsgs BY CliMsgTypes DEF CliCmds
<1>2. Note("DISCONNECT").cmd = "DISCONNECT" /\ Note("FINI").cmd = "FINI" BY DEF Note, CliMsg
<1> QED BY <1>1, <1>2 DEF CliTokens

\* The token of c is the message its loop handles.
LEMMA CliTakes ==
    ASSUME TypeOK, NEW c \in Clients, ClientInv(c), cq[c] # <<>>, Head(cq[c]) \in CliTokens
    PROVE  /\ Quiet(c, begun, Tail(cq[c]), up[c], sq, down[c])
           /\ NoteOK(c, StagesOf(c), FileOf(c), Head(cq[c]))
           /\ FileOK(FileOf(c), outcome[c]) /\ outcome[c] # "done"
           /\ Tail(cq[c]) \in Seq(CliMsgs) /\ up[c] \in Seq(Packets)
           /\ sq \in Seq(SrvMsgs) /\ down[c] \in Seq(Packets)
<1>1. /\ cq[c] \in Seq(CliMsgs) /\ up[c] \in Seq(Packets)
      /\ sq \in Seq(SrvMsgs) /\ down[c] \in Seq(Packets)
  BY DEF TypeOK
<1>2. ClientOK(c, StagesOf(c), begun, cq[c], up[c], sq, down[c], FileOf(c), outcome[c]) BY ClientParts
<1>3. Tail(cq[c]) \in Seq(CliMsgs) BY <1>1
<1>4. /\ Quiet(c, begun, Tail(cq[c]), up[c], sq, down[c])
      /\ NoteOK(c, StagesOf(c), FileOf(c), Head(cq[c]))
      /\ FileOK(FileOf(c), outcome[c]) /\ outcome[c] # "done"
  BY <1>1, <1>2, TakesNote
<1> QED BY <1>1, <1>3, <1>4

\* The queue of c after a handler.
LEMMA Posted ==
    ASSUME TypeOK, NEW c \in Clients, cq[c] # <<>>
    PROVE  /\ Posts(c, <<>>) => cq'[c] = Tail(cq[c])
           /\ \A m \in CliMsgs : Posts(c, <<m>>) => cq'[c] = Append(Tail(cq[c]), m)
           /\ \A m, n \in CliMsgs : Posts(c, <<m, n>>) => cq'[c] = Append(Append(Tail(cq[c]), m), n)
<1>1. cq \in [Clients -> Seq(CliMsgs)] /\ Tail(cq[c]) \in Seq(CliMsgs) BY DEF TypeOK
<1>2. \A q : Posts(c, q) => cq'[c] = Tail(cq[c]) \o q BY <1>1 DEF Posts, Rest
<1>3. Tail(cq[c]) \o <<>> = Tail(cq[c]) BY <1>1
<1>4. \A m \in CliMsgs : Tail(cq[c]) \o <<m>> = Append(Tail(cq[c]), m) BY <1>1
<1>5. \A m, n \in CliMsgs : Tail(cq[c]) \o <<m, n>> = Append(Append(Tail(cq[c]), m), n) BY <1>1
<1> QED BY <1>2, <1>3, <1>4, <1>5

\* A handler that posts a note for the token it takes.
LEMMA NotePosted ==
    ASSUME TypeOK, NEW c \in Clients, ClientInv(c), cq[c] # <<>>, Head(cq[c]) \in CliTokens,
           NEW m \in CliMsgs,
           \/ Posts(c, <<m>>)
           \/ Posts(c, <<Note("DISCONNECT"), m>>),
           UNCHANGED <<begun, sq>>, up'[c] = up[c], down'[c] = down[c], outcome'[c] # "done",
           FileOK(FileOf(c)', outcome'[c]),
           NoteOK(c, StagesOf(c)', FileOf(c)', m)
    PROVE  ClientInv(c)'
<1> DEFINE t == Tail(cq[c])
           k == Note("DISCONNECT")
<1>1. /\ Quiet(c, begun, t, up[c], sq, down[c]) /\ t \in Seq(CliMsgs) /\ up[c] \in Seq(Packets)
      /\ sq \in Seq(SrvMsgs) /\ down[c] \in Seq(Packets)
  BY CliTakes
<1>2. k \in CliMsgs /\ k \notin CliTokens BY NoteTokens
<1> HIDE DEF k
<1>3. Append(t, k) \in Seq(CliMsgs) BY <1>1, <1>2
<1>4. ~Holds(Append(t, k), CliTokens) BY <1>1, <1>2, AppendTokens DEF Quiet
<1>5. Quiet(c, begun, Append(t, k), up[c], sq, down[c]) BY <1>1, <1>4 DEF Quiet
<1>6. cq'[c] = Append(t, m) \/ cq'[c] = Append(Append(t, k), m) BY <1>2, Posted DEF k
<1> HIDE DEF t
<1>7. CASE cq'[c] = Append(t, m)
  <2>1. ClientOK(c, StagesOf(c)', begun, Append(t, m), up[c], sq, down[c], FileOf(c)', outcome'[c])
    BY <1>1, PutsNote
  <2> QED BY <1>7, <2>1, ClientPartsPrime
<1>8. CASE cq'[c] = Append(Append(t, k), m)
  <2>1. ClientOK(c, StagesOf(c)', begun, Append(Append(t, k), m), up[c], sq, down[c], FileOf(c)', outcome'[c])
    BY <1>1, <1>3, <1>5, PutsNote
  <2> QED BY <1>8, <2>1, ClientPartsPrime
<1> QED BY <1>6, <1>7, <1>8

\* A handler that posts nothing, or DISCONNECT.
LEMMA NoteDropped ==
    ASSUME TypeOK, NEW c \in Clients, cq[c] # <<>>, Posts(c, <<>>) \/ Posts(c, <<Note("DISCONNECT")>>)
    PROVE  Fewer(cq[c], cq'[c], CliTokens)
<1> DEFINE t == Tail(cq[c])
           k == Note("DISCONNECT")
<1>1. cq[c] \in Seq(CliMsgs) /\ t \in Seq(CliMsgs) BY DEF TypeOK
<1>2. k \in CliMsgs /\ k \notin CliTokens BY NoteTokens
<1> HIDE DEF k
<1>3. cq'[c] = t \/ cq'[c] = Append(t, k) BY <1>2, Posted DEF k
<1>4. Fewer(cq[c], t, CliTokens) BY <1>1, TailTokens
<1>5. Fewer(t, Append(t, k), CliTokens) BY <1>1, <1>2, AppendTokens
<1>6. Fewer(cq[c], Append(t, k), CliTokens) BY <1>4, <1>5, FewerTrans
<1> QED BY <1>3, <1>4, <1>6

\* A handler that sends a packet for the token it takes.
LEMMA PacketSent ==
    ASSUME TypeOK, TypeOK', NEW c \in Clients, ClientInv(c), cq[c] # <<>>, Head(cq[c]) \in CliTokens,
           csocks[c] # None, NEW t, NEW n, Packet(t, csocks[c].enc, "ok", n) \in Packets,
           CliSends(c, t, n), UpOK(c, StagesOf(c), FileOf(c), Packet(t, csocks[c].enc, "ok", n)),
           UNCHANGED <<begun, sq, down, filePos, got, short, outcome, backlog, conn, socks, csocks>>
    PROVE  ClientInv(c)'
<1> DEFINE p == Packet(t, csocks[c].enc, "ok", n)
<1>0. StagesOf(c) \subseteq StagesOf(c)' BY ReachedSame
<1>3. FileOf(c)' = FileOf(c) BY FileKept
<1>1. CASE up' = up
  <2>1. Fewer(cq[c], cq'[c], CliTokens) BY NoteDropped DEF CliSends
  <2>2. Fewer(up[c], up'[c], UpTokens) BY <1>1, SameTokens
  <2>3. Fewer(sq, sq', SrvTokens(c)) BY SameTokens
  <2>4. Fewer(down[c], down'[c], UpTokens) BY SameTokens
  <2> QED BY <1>0, <1>3, <2>1, <2>2, <2>3, <2>4, ClientKept
<1>2. CASE up' # up
  <2>1. Posts(c, <<>>) /\ up' = [up EXCEPT ![c] = Append(@, p)] BY <1>2 DEF CliSends
  <2>2. /\ Quiet(c, begun, Tail(cq[c]), up[c], sq, down[c])
        /\ FileOK(FileOf(c), outcome[c]) /\ outcome[c] # "done"
        /\ Tail(cq[c]) \in Seq(CliMsgs) /\ up[c] \in Seq(Packets)
        /\ sq \in Seq(SrvMsgs) /\ down[c] \in Seq(Packets)
    BY CliTakes
  <2>3. UpOK(c, StagesOf(c)', FileOf(c), p) BY <1>0, MoreStages
  <2>4. cq'[c] = Tail(cq[c]) BY <2>1, Posted
  <2>5. up'[c] = Append(up[c], p) BY <2>1 DEF TypeOK
  <2>6. p \in Packets OBVIOUS
  <2> HIDE DEF p
  <2>7. ClientOK(c, StagesOf(c)', begun, Tail(cq[c]), Append(up[c], p), sq, down[c], FileOf(c), outcome[c])
    BY <2>2, <2>3, <2>6, PutsUp
  <2> QED BY <1>3, <2>4, <2>5, <2>7, ClientPartsPrime
<1> QED BY <1>1, <1>2

\* The message c's loop handles; a note other than DISCONNECT and FINI is the token.
LEMMA Handled ==
    ASSUME TypeOK, NEW c \in Clients, NEW cmd, CliHas(c, cmd)
    PROVE  /\ cq[c] # <<>> /\ Head(cq[c]) \in CliMsgs /\ Head(cq[c]).cmd = cmd /\ c \notin begun
           /\ cmd \notin {"DISCONNECT", "FINI", "READ"} => Head(cq[c]) \in CliTokens
           /\ cmd = "READ" => Head(cq[c]).pkt \in Packets
           /\ cmd = "READ" /\ Head(cq[c]).pkt.type # "rubbish" => Head(cq[c]) \in CliTokens
<1>1. cq[c] # <<>> /\ Head(cq[c]).cmd = cmd /\ c \notin begun BY DEF CliHas
<1>2. Head(cq[c]) \in CliMsgs BY <1>1 DEF TypeOK
<1>3. cmd = "READ" => Head(cq[c]).pkt \in Packets BY <1>1, <1>2 DEF CliMsgs
<1> QED BY <1>1, <1>2, <1>3, NoteTokens

\* A connection that is open goes on with the exchanges or without.
LEMMA OpenGoesOn ==
    ASSUME NEW c \in Clients, "open" \in StagesOf(c)
    PROVE  (IF c \in Secure THEN "asking" ELSE "user") \in StagesOf(c)
<1>1. Reached(c, "open") BY DEF StagesOf
<1>2. CASE c \in Secure
  <2>1. Reached(c, "asking") BY <1>1, <1>2 DEF Reached, SrvCiphers, CliCiphers
  <2> QED BY <1>2, <2>1 DEF StagesOf, Stages
<1>3. CASE c \notin Secure
  <2>1. Reached(c, "user") BY <1>1, <1>3 DEF Reached, SrvCiphers, CliCiphers
  <2> QED BY <1>3, <2>1 DEF StagesOf, Stages
<1> QED BY <1>2, <1>3

\* Connecting.
LEMMA ConnectTokens ==
    ASSUME TypeOK, TypeOK', NEW c \in Clients, ClientInv(c),
           OnConnectBegin(c) \/ OnConnectAdded(c) \/ OnConnectRefused(c) \/ OnConnectFailed(c)
           \/ OnConnectEnd(c)
    PROVE  ClientInv(c)'
<1>0. \A cmd \in {"CONNECT_BEGIN", "CONNECT_FAILED", "CONNECT_END", "EX_ASYM", "USER_START"} :
        Note(cmd) \in CliMsgs /\ Note(cmd).cmd = cmd
  BY CliMsgTypes DEF CliCmds, Note, CliMsg
<1>1. CASE OnConnectBegin(c)
  <2>1. cq[c] # <<>> /\ Head(cq[c]) \in CliTokens /\ Head(cq[c]).cmd = "CONNECT_BEGIN"
    BY <1>1, Handled DEF OnConnectBegin
  <2>2. /\ Quiet(c, begun, Tail(cq[c]), up[c], sq, down[c])
        /\ NoteOK(c, StagesOf(c), FileOf(c), Head(cq[c]))
        /\ FileOK(FileOf(c), outcome[c]) /\ outcome[c] # "done"
        /\ Tail(cq[c]) \in Seq(CliMsgs) /\ up[c] \in Seq(Packets)
        /\ sq \in Seq(SrvMsgs) /\ down[c] \in Seq(Packets)
    BY <2>1, CliTakes
  <2>3. Reached(c, "new") BY <2>1, <2>2 DEF NoteOK, StagesOf
  <2>4. \A h \in Handles : conn'[h] # c BY <1>1, <2>3 DEF OnConnectBegin, Reached
  <2>5. csocks'[c] = NewListener(c) BY <1>1 DEF OnConnectBegin, TypeOK
  <2>11. UNCHANGED <<filePos, got, short>> BY <1>1 DEF OnConnectBegin, file
  <2>12. Unread(c)' BY <2>3, <2>11 DEF Reached, Unread
  <2>6. Reached(c, "open")' BY <2>4, <2>5, <2>12 DEF Reached, CliCiphers, NewListener
  <2>7. "open" \in StagesOf(c)' BY <2>6 DEF StagesOf, Stages
  <2>8. ClientOK(c, StagesOf(c)', begun \cup {c}, Tail(cq[c]), up[c], sq, down[c], FileOf(c), outcome[c])
    BY <2>2, <2>7, PutsBegun
  <2>9. cq'[c] = Tail(cq[c]) BY <1>1, <2>1, Posted DEF OnConnectBegin
  <2>10. begun' = begun \cup {c} /\ up' = up /\ sq' = sq /\ down' = down /\ outcome' = outcome
    BY <1>1 DEF OnConnectBegin
  <2>13. FileOf(c)' = FileOf(c) BY <2>11, FileKept
  <2> QED BY <2>8, <2>9, <2>10, <2>13, ClientPartsPrime
<1>2. CASE OnConnectAdded(c)
  <2>1. cq[c] \in Seq(CliMsgs) /\ up[c] \in Seq(Packets) /\ sq \in Seq(SrvMsgs) /\ down[c] \in Seq(Packets)
    BY DEF TypeOK
  <2>2. ClientOK(c, StagesOf(c), begun, cq[c], up[c], sq, down[c], FileOf(c), outcome[c]) BY ClientParts
  <2>3. c \in begun BY <1>2 DEF OnConnectAdded
  <2>4. /\ Quiet(c, begun \ {c}, cq[c], up[c], sq, down[c]) /\ "open" \in StagesOf(c)
        /\ FileOK(FileOf(c), outcome[c]) /\ outcome[c] # "done"
    BY <2>2, <2>3 DEF ClientOK, OneOK, FitOK, DoneOK, Quiet
  <2>5. UNCHANGED <<backlog, conn, socks, csocks, up, sq, down, filePos, got, short, outcome>> /\ begun' = begun \ {c}
    BY <1>2 DEF OnConnectAdded, server, net, file
  <2>6. "open" \in StagesOf(c)' BY <2>4, <2>5, ReachedSame
  <2>7. NoteOK(c, StagesOf(c)', FileOf(c), Note("CONNECT_END")) BY <1>0, <2>6 DEF NoteOK
  <2>8. ClientOK(c, StagesOf(c)', begun \ {c}, Append(cq[c], Note("CONNECT_END")), up[c], sq, down[c], FileOf(c), outcome[c])
    BY <1>0, <2>1, <2>4, <2>7, PutsNote
  <2>9. cq'[c] = Append(cq[c], Note("CONNECT_END")) BY <1>2 DEF OnConnectAdded, TypeOK
  <2>10. FileOf(c)' = FileOf(c) BY <2>5, FileKept
  <2> QED BY <2>5, <2>8, <2>9, <2>10, ClientPartsPrime
<1>3. CASE OnConnectRefused(c) \/ OnConnectFailed(c) \/ OnConnectEnd(c)
  <2>1. PICK cmd \in {"CONNECT_BEGIN", "CONNECT_FAILED", "CONNECT_END"} : CliHas(c, cmd)
    BY <1>3 DEF OnConnectRefused, OnConnectFailed, OnConnectEnd
  <2>2. cq[c] # <<>> /\ Head(cq[c]) \in CliTokens /\ Head(cq[c]).cmd = cmd BY <2>1, Handled
  <2>3. UNCHANGED <<backlog, conn, socks, csocks, begun, up, sq, down, filePos, got, short, outcome>>
    BY <1>3 DEF OnConnectRefused, OnConnectFailed, OnConnectEnd, server, net, file
  <2>4. /\ NoteOK(c, StagesOf(c), FileOf(c), Head(cq[c]))
        /\ FileOK(FileOf(c), outcome[c]) /\ outcome[c] # "done"
    BY <2>2, CliTakes
  <2>5. StagesOf(c) \subseteq StagesOf(c)' BY <2>3, ReachedSame
  <2>8. FileOf(c)' = FileOf(c) BY <2>3, FileKept
  <2>6. CASE Posts(c, <<>>)
    <3>1. Fewer(cq[c], cq'[c], CliTokens) BY <2>2, <2>6, NoteDropped
    <3>2. Fewer(up[c], up'[c], UpTokens) BY <2>3, SameTokens
    <3>3. Fewer(sq, sq', SrvTokens(c)) BY <2>3, SameTokens
    <3>4. Fewer(down[c], down'[c], UpTokens) BY <2>3, SameTokens
    <3> QED BY <2>3, <2>5, <2>8, <3>1, <3>2, <3>3, <3>4, ClientKept
  <2>7. CASE ~Posts(c, <<>>)
    <3>1. PICK x \in {"CONNECT_BEGIN", "CONNECT_FAILED", "EX_ASYM", "USER_START"} :
            /\ Posts(c, <<Note(x)>>)
            /\ x \in {"CONNECT_BEGIN", "CONNECT_FAILED"} => cmd \in {"CONNECT_BEGIN", "CONNECT_FAILED"}
            /\ x = "EX_ASYM" => cmd = "CONNECT_END" /\ c \in Secure
            /\ x = "USER_START" => cmd = "CONNECT_END" /\ c \notin Secure
      BY <1>3, <2>1, <2>7 DEF OnConnectRefused, OnConnectFailed, OnConnectEnd, CliHas
    <3>2. x \in {"CONNECT_BEGIN", "CONNECT_FAILED"} => "new" \in StagesOf(c)
      BY <2>2, <2>4, <3>1 DEF NoteOK
    <3>3. x \in {"EX_ASYM", "USER_START"} => "open" \in StagesOf(c) BY <2>2, <2>4, <3>1 DEF NoteOK
    <3>4. x = "EX_ASYM" => "asking" \in StagesOf(c) BY <3>1, <3>3, OpenGoesOn
    <3>5. x = "USER_START" => "user" \in StagesOf(c) BY <3>1, <3>3, OpenGoesOn
    <3>6. Note(x) \in CliMsgs /\ Note(x).cmd = x BY <1>0
    <3>9. x = "USER_START" => NoneOf(FileOf(c)')
      <4>1. "open" \in StagesOf(c) => Unread(c) BY DEF StagesOf, Reached
      <4> QED BY <2>8, <3>3, <4>1, FileParts
    <3>7. NoteOK(c, StagesOf(c)', FileOf(c)', Note(x)) BY <2>5, <3>2, <3>4, <3>5, <3>6, <3>9 DEF NoteOK
    <3>8. up'[c] = up[c] /\ down'[c] = down[c] /\ outcome'[c] # "done"
          /\ FileOK(FileOf(c)', outcome'[c]) /\ UNCHANGED <<begun, sq>>
      BY <2>3, <2>4, <2>8
    <3> QED BY <2>2, <3>1, <3>6, <3>7, <3>8, NotePosted
  <2> QED BY <2>6, <2>7
<1> QED BY <1>1, <1>2, <1>3

\* A step of c that leaves the streams alone and takes a message off, or posts DISCONNECT or FINI.
LEMMA QueueOnly ==
    ASSUME TypeOK, TypeOK', NEW c \in Clients, ClientInv(c), Fewer(cq[c], cq'[c], CliTokens),
           csocks'[c] = csocks[c] \/ csocks'[c] = None,
           UNCHANGED <<backlog, conn, socks, sq, begun, up, down, filePos, got, short, outcome>>
    PROVE  ClientInv(c)'
<1>1. StagesOf(c) \subseteq StagesOf(c)' BY ReachedSame
<1>2. Fewer(up[c], up'[c], UpTokens) BY SameTokens
<1>3. Fewer(sq, sq', SrvTokens(c)) BY SameTokens
<1>4. Fewer(down[c], down'[c], UpTokens) BY SameTokens
<1>5. FileOf(c)' = FileOf(c) BY FileKept
<1> QED BY <1>1, <1>2, <1>3, <1>4, <1>5, ClientKept

\* A client's handlers that send, and those that find nothing to do.
LEMMA SendingTokens ==
    ASSUME TypeOK, TypeOK', NEW c \in Clients, ClientInv(c),
           OnExchange(c) \/ OnUserStart(c) \/ OnRecvFileReq(c) \/ CliSkips(c) \/ CliDropRead(c)
    PROVE  ClientInv(c)'
<1>1. CASE OnExchange(c) \/ OnRecvFileReq(c)
  <2>1. PICK cmd \in {"EX_ASYM", "EX_SYM", "USER_REQ"}, t \in {"asym", "sym", "user"}, n \in Nat :
          /\ CliMaySend(c, cmd) /\ CliSends(c, t, n)
          /\ cmd = "EX_ASYM" => t = "asym"
          /\ cmd = "EX_SYM" => t = "sym"
          /\ cmd = "USER_REQ" => t = "user" /\ n = filePos[c]
    <3>1. filePos[c] \in Nat BY DEF TypeOK
    <3> QED BY <1>1, <3>1 DEF OnExchange, OnRecvFileReq
  <2>2. CliHas(c, cmd) /\ csocks[c] # None BY <2>1 DEF CliMaySend
  <2>3. cq[c] # <<>> /\ Head(cq[c]) \in CliTokens /\ Head(cq[c]).cmd = cmd BY <2>2, Handled
  <2>4. NoteOK(c, StagesOf(c), FileOf(c), Head(cq[c])) BY <2>3, CliTakes
  <2>5. csocks[c].enc \in Ciphers BY <2>2 DEF TypeOK, Listeners
  <2> DEFINE p == Packet(t, csocks[c].enc, "ok", n)
  <2>6. p \in Packets BY <2>5, PacketTypes
  <2>7. /\ cmd = "EX_ASYM" => "asking" \in StagesOf(c)
        /\ cmd = "EX_SYM" => "asym" \in StagesOf(c)
        /\ cmd = "USER_REQ" => "user" \in StagesOf(c)
    BY <2>3, <2>4 DEF NoteOK
  <2>8. \A st \in StagesOf(c) : csocks[c].enc = CliCiphers(c, st).enc
    BY <2>2 DEF StagesOf, Reached
  <2>9. CliCiphers(c, "asking").enc = Clear BY DEF CliCiphers
  <2>10. "asym" \in StagesOf(c) => CliCiphers(c, "asym").enc = Asym("server")
    BY DEF StagesOf, Reached, CliCiphers
  <2>11. p.type = t /\ p.cipher = csocks[c].enc /\ p.n = n BY DEF Packet
  <2> HIDE DEF p
  <2>13. UpOK(c, StagesOf(c), FileOf(c), p)
    <3>1. CASE cmd = "EX_ASYM" BY <2>1, <2>7, <2>8, <2>9, <2>11, <3>1 DEF UpOK
    <3>2. CASE cmd = "EX_SYM" BY <2>1, <2>7, <2>8, <2>10, <2>11, <3>2 DEF UpOK
    <3>3. CASE cmd = "USER_REQ" BY <2>1, <2>7, <2>8, <2>11, <3>3, FileParts DEF UpOK
    <3> QED BY <3>1, <3>2, <3>3
  <2>14. UNCHANGED <<begun, sq, down, filePos, got, short, outcome, backlog, conn, socks, csocks>>
    BY <1>1 DEF OnExchange, OnRecvFileReq, server, file
  <2> QED BY <2>1, <2>2, <2>3, <2>6, <2>13, <2>14, PacketSent DEF p
<1>2. CASE OnUserStart(c)
  <2>1. cq[c] # <<>> /\ Head(cq[c]) \in CliTokens /\ Head(cq[c]).cmd = "USER_START"
    BY <1>2, Handled DEF OnUserStart
  <2>2. NoteOK(c, StagesOf(c), FileOf(c), Head(cq[c])) /\ outcome[c] # "done" BY <2>1, CliTakes
  <2>3. UNCHANGED <<backlog, conn, socks, csocks, begun, up, sq, down, filePos, outcome>>
    BY <1>2 DEF OnUserStart, server, net
  <2>4. "user" \in StagesOf(c)' BY <2>1, <2>2, <2>3, ReachedSame DEF NoteOK
  <2>5. Note("USER_REQ") \in CliMsgs /\ Note("USER_REQ").cmd = "USER_REQ"
    BY CliMsgTypes DEF CliCmds, Note, CliMsg
  <2>6. NoteOK(c, StagesOf(c)', FileOf(c)', Note("USER_REQ")) BY <2>4, <2>5 DEF NoteOK
  <2>7. got'[c] = <<>> BY <1>2 DEF OnUserStart, TypeOK
  <2>8. FileOK(FileOf(c)', outcome'[c])
    <3>1. filePos[c] = 0 BY <2>1, <2>2, FileParts DEF NoteOK, Unread
    <3>2. FileOf(c)'.data = <<>> /\ FileOf(c)'.pos = 0 BY <2>3, <2>7, <3>1, FilePartsPrime
    <3>3. <<>> = [i \in 1 .. Len(<<>>) |-> i - 1] OBVIOUS
    <3> QED BY <2>2, <2>3, <3>2, <3>3 DEF FileOK
  <2>9. Posts(c, <<Note("USER_REQ")>>) BY <1>2 DEF OnUserStart
  <2>10. UNCHANGED <<begun, sq>> /\ up'[c] = up[c] /\ down'[c] = down[c] /\ outcome'[c] # "done"
    BY <2>2, <2>3
  <2> QED BY <2>1, <2>5, <2>6, <2>8, <2>9, <2>10, NotePosted
<1>3. CASE CliSkips(c) \/ CliDropRead(c)
  <2>1. cq[c] # <<>> BY <1>3 DEF CliSkips, CliDropRead, CliHas
  <2>2. Fewer(cq[c], cq'[c], CliTokens) BY <1>3, <2>1, NoteDropped DEF CliSkips, CliDropRead
  <2>3. UNCHANGED <<backlog, conn, socks, csocks, sq, begun, up, down, filePos, got, short, outcome>>
    BY <1>3 DEF CliSkips, CliDropRead, server, net, file
  <2> QED BY <2>2, <2>3, QueueOnly
<1> QED BY <1>1, <1>2, <1>3

\* A client that ends, hears of its end or is asked to stop.
LEMMA ClosingTokens ==
    ASSUME TypeOK, TypeOK', NEW c \in Clients, ClientInv(c),
           CliOnDisconnect(c) \/ CliOnFini(c) \/ CliNullPointer(c) \/ CliStop(c) \/ CliRecvFails(c)
    PROVE  ClientInv(c)'
<1>0. cq \in [Clients -> Seq(CliMsgs)] /\ cq[c] \in Seq(CliMsgs) /\ csocks \in [Clients -> Listeners \cup {None}]
  BY DEF TypeOK
<1>1. UNCHANGED <<backlog, conn, socks, sq, begun, up, down, filePos, got, short, outcome>>
  BY DEF CliOnDisconnect, CliOnFini, CliNullPointer, CliStop, CliRecvFails, server, net, file
<1>2. csocks'[c] = csocks[c] \/ csocks'[c] = None
  BY <1>0 DEF CliOnDisconnect, CliOnFini, CliNullPointer, CliStop, CliRecvFails
<1>3. Fewer(cq[c], cq'[c], CliTokens)
  <2>1. CASE CliOnDisconnect(c) \/ CliOnFini(c)
    <3>1. cq[c] # <<>> /\ Posts(c, <<>>) BY <2>1 DEF CliOnDisconnect, CliOnFini, CliHas
    <3> QED BY <3>1, NoteDropped
  <2>2. CASE CliNullPointer(c) BY <2>2, SameTokens DEF CliNullPointer
  <2>3. CASE CliStop(c) \/ CliRecvFails(c)
    <3>1. PICK m \in {Note("FINI"), Note("DISCONNECT")} : cq'[c] = Append(cq[c], m)
      BY <1>0, <2>3 DEF CliStop, CliRecvFails
    <3>2. m \in CliMsgs /\ m \notin CliTokens BY NoteTokens
    <3> QED BY <1>0, <3>1, <3>2, AppendTokens
  <2> QED BY <2>1, <2>2, <2>3
<1> QED BY <1>1, <1>2, <1>3, QueueOnly

\* The client switches to the certificates, then to its keys.
LEMMA ClientSwitches ==
    ASSUME TypeOK, NEW c \in Clients, csocks[c] # None, UNCHANGED <<backlog, conn, socks, filePos>>
    PROVE  /\ /\ "half asym" \in StagesOf(c)
              /\ csocks' = [csocks EXCEPT ![c].enc = Asym("server"), ![c].dec = Asym(c)]
              => "asym" \in StagesOf(c)'
           /\ /\ "half sym" \in StagesOf(c)
              /\ csocks' = [csocks EXCEPT ![c].enc = SymKey("up", c, Code(c)),
                                          ![c].dec = SymKey("down", c, Code(c))]
              => "user" \in StagesOf(c)'
<1>1. csocks[c] \in Listeners /\ csocks \in [Clients -> Listeners \cup {None}] BY DEF TypeOK
<1>2. \A h \in Handles : conn'[h] = conn[h] /\ socks'[h] = socks[h] OBVIOUS
<1>3. (Waiting(c)' <=> Waiting(c)) /\ (Unread(c)' <=> Unread(c)) BY DEF Waiting, Unread
<1>4. ASSUME "half asym" \in StagesOf(c),
             csocks' = [csocks EXCEPT ![c].enc = Asym("server"), ![c].dec = Asym(c)]
      PROVE  "asym" \in StagesOf(c)'
  <2>1. Reached(c, "half asym") /\ c \in Secure BY <1>4 DEF StagesOf, Reached
  <2>2. csocks'[c].enc = Asym("server") /\ csocks'[c].dec = Asym(c) BY <1>1, <1>4 DEF Listeners
  <2>3. Reached(c, "asym")' BY <1>2, <1>3, <2>1, <2>2 DEF Reached, SrvCiphers, CliCiphers
  <2> QED BY <2>3 DEF StagesOf, Stages
<1>5. ASSUME "half sym" \in StagesOf(c),
             csocks' = [csocks EXCEPT ![c].enc = SymKey("up", c, Code(c)), ![c].dec = SymKey("down", c, Code(c))]
      PROVE  "user" \in StagesOf(c)'
  <2>1. Reached(c, "half sym") /\ c \in Secure BY <1>5 DEF StagesOf, Reached
  <2>2. csocks'[c].enc = SymKey("up", c, Code(c)) /\ csocks'[c].dec = SymKey("down", c, Code(c))
    BY <1>1, <1>5 DEF Listeners
  <2>3. Reached(c, "user")' BY <1>2, <1>3, <2>1, <2>2 DEF Reached, SrvCiphers, CliCiphers
  <2> QED BY <2>3 DEF StagesOf, Stages
<1> QED BY <1>4, <1>5

\* The next segment makes the downloaded part longer by one.
LEMMA NextSegment ==
    ASSUME NEW g \in Seq(Nat), g = [i \in 1 .. Len(g) |-> i - 1]
    PROVE  /\ Len(Append(g, Len(g))) = Len(g) + 1
           /\ Append(g, Len(g)) = [i \in 1 .. Len(Append(g, Len(g))) |-> i - 1]
<1> DEFINE r == Append(g, Len(g))
           n == Len(g)
<1>1. n \in Nat /\ r \in Seq(Nat) /\ Len(r) = n + 1 OBVIOUS
<1>2. \A i \in 1 .. n : r[i] = g[i] OBVIOUS
<1>3. r[n + 1] = n OBVIOUS
<1>4. \A i \in 1 .. n : g[i] = i - 1 OBVIOUS
<1> HIDE DEF r, n
<1>5. \A i \in 1 .. (n + 1) : r[i] = i - 1 BY <1>1, <1>2, <1>3, <1>4
<1>6. r = [i \in 1 .. Len(r) |-> i - 1] BY <1>1, <1>5
<1> QED BY <1>1, <1>6 DEF r, n

\* What onRecvFileAck makes of the file, whatever fwrite stored.
LEMMA FileWritten ==
    ASSUME TypeOK, NEW c \in Clients, FileOK(FileOf(c), outcome[c]), outcome[c] # "done",
           SfWrites(c, filePos[c]),
           \/ outcome'[c] = "done" /\ filePos[c] + 1 = Segments
           \/ outcome'[c] # "done" /\ filePos'[c] = filePos[c] + 1
    PROVE  FileOK(FileOf(c)', outcome'[c])
<1> DEFINE g == got[c]
           n == filePos[c]
<1>1. CASE c \in short' BY <1>1, FilePartsPrime DEF FileOK
<1>2. CASE c \notin short'
  <2>1. c \notin short /\ got'[c] = Append(g, n) BY <1>2 DEF SfWrites, TypeOK
  <2>2. g = [i \in 1 .. Len(g) |-> i - 1] /\ Len(g) = n BY <2>1, FileParts DEF FileOK
  <2>3. g \in Seq(Nat) BY DEF TypeOK
  <2>4. got'[c] = [i \in 1 .. Len(got'[c]) |-> i - 1] /\ Len(got'[c]) = n + 1
    BY <2>1, <2>2, <2>3, NextSegment
  <2>5. Len(got'[c]) = IF outcome'[c] = "done" THEN Segments ELSE filePos'[c] BY <2>4
  <2> QED BY <2>4, <2>5, FilePartsPrime DEF FileOK
<1> QED BY <1>1, <1>2

\* filePos_ goes on while both ends keep their keys.
LEMMA StillUser ==
    ASSUME NEW c \in Clients, UNCHANGED <<backlog, conn, socks, csocks>>, "user" \in StagesOf(c)
    PROVE  "user" \in StagesOf(c)'
<1>1. Reached(c, "user") BY DEF StagesOf
<1>2. (Waiting(c)' <=> Waiting(c)) /\ SrvCiphers(c, "user")' = SrvCiphers(c, "user")
      /\ CliCiphers(c, "user")' = CliCiphers(c, "user")
  BY DEF Waiting, SrvCiphers, CliCiphers
<1>3. Reached(c, "user")' BY <1>1, <1>2 DEF Reached
<1> QED BY <1>3 DEF StagesOf, Stages

\* A client's handlers of packets.
LEMMA ReadingTokens ==
    ASSUME TypeOK, TypeOK', NEW c \in Clients, ClientInv(c), CliReadAsym(c) \/ CliReadSym(c) \/ CliReadUser(c) \/ CliNoFile(c)
    PROVE  ClientInv(c)'
<1> DEFINE p == Head(cq[c]).pkt
<1>0. CliHas(c, "READ") /\ csocks[c] # None /\ p.type \in {"asym", "sym", "user"}
  BY DEF CliReadAsym, CliReadSym, CliReadUser, CliNoFile, CliReads
<1>1. cq[c] # <<>> /\ Head(cq[c]) \in CliTokens /\ Head(cq[c]).cmd = "READ" /\ p \in Packets
  BY <1>0, Handled
<1>2. /\ Quiet(c, begun, Tail(cq[c]), up[c], sq, down[c])
      /\ NoteOK(c, StagesOf(c), FileOf(c), Head(cq[c]))
      /\ FileOK(FileOf(c), outcome[c]) /\ outcome[c] # "done"
      /\ Tail(cq[c]) \in Seq(CliMsgs) /\ up[c] \in Seq(Packets)
      /\ sq \in Seq(SrvMsgs) /\ down[c] \in Seq(Packets)
  BY <1>1, CliTakes
<1>3. DownOK(c, StagesOf(c), FileOf(c), p) BY <1>1, <1>2 DEF NoteOK
<1>4. \A cmd \in {"EX_SYM", "USER_START", "USER_REQ"} : Note(cmd) \in CliMsgs /\ Note(cmd).cmd = cmd
  BY CliMsgTypes DEF CliCmds, Note, CliMsg
<1>5. UNCHANGED <<backlog, conn, socks, sq, begun, up, down>>
  BY DEF CliReadAsym, CliReadSym, CliReadUser, CliNoFile, server, net
<1>6. CASE CliReadAsym(c) \/ CliReadSym(c)
  <2>1. UNCHANGED <<filePos, got, short, outcome>> BY <1>6 DEF CliReadAsym, CliReadSym, file
  <2>7. FileOf(c)' = FileOf(c) BY <2>1, FileKept
  <2>8. FileOK(FileOf(c)', outcome'[c]) BY <1>2, <2>1, <2>7
  <2>2. CASE csocks' = csocks /\ (Posts(c, <<>>) \/ Posts(c, <<Note("DISCONNECT")>>))
    <3>1. Fewer(cq[c], cq'[c], CliTokens) BY <1>1, <2>2, NoteDropped
    <3> QED BY <1>5, <2>1, <2>2, <3>1, QueueOnly
  <2>3. ASSUME CliReadAsym(c), csocks' = [csocks EXCEPT ![c].enc = Asym("server"), ![c].dec = Asym(c)],
               Posts(c, <<Note("EX_SYM")>>)
        PROVE  ClientInv(c)'
    <3>1. p.type = "asym" BY <2>3 DEF CliReadAsym, CliReads
    <3>2. "asym" \in StagesOf(c)' BY <1>0, <1>3, <1>5, <2>1, <2>3, <3>1, ClientSwitches DEF DownOK
    <3>3. NoteOK(c, StagesOf(c)', FileOf(c)', Note("EX_SYM")) BY <1>4, <3>2 DEF NoteOK
    <3>4. /\ up'[c] = up[c] /\ down'[c] = down[c] /\ outcome'[c] # "done" /\ UNCHANGED <<begun, sq>>
      BY <1>2, <1>5, <2>1
    <3> QED BY <1>1, <1>4, <2>3, <2>8, <3>3, <3>4, NotePosted
  <2>4. ASSUME CliReadSym(c),
               csocks' = [csocks EXCEPT ![c].enc = SymKey("up", c, Code(c)), ![c].dec = SymKey("down", c, Code(c))],
               Posts(c, <<Note("DISCONNECT"), Note("USER_START")>>) \/ Posts(c, <<Note("USER_START")>>)
        PROVE  ClientInv(c)'
    <3>1. p.type = "sym" BY <2>4 DEF CliReadSym, CliReads
    <3>2. "user" \in StagesOf(c)' BY <1>0, <1>3, <1>5, <2>1, <2>4, <3>1, ClientSwitches DEF DownOK
    <3>5. NoneOf(FileOf(c)')
      <4>1. "half sym" \in StagesOf(c) BY <1>3, <3>1 DEF DownOK
      <4>2. Unread(c) BY <4>1 DEF StagesOf, Reached
      <4> QED BY <2>7, <4>2, FileParts
    <3>3. NoteOK(c, StagesOf(c)', FileOf(c)', Note("USER_START")) BY <1>4, <3>2, <3>5 DEF NoteOK
    <3>4. /\ up'[c] = up[c] /\ down'[c] = down[c] /\ outcome'[c] # "done" /\ UNCHANGED <<begun, sq>>
      BY <1>2, <1>5, <2>1
    <3> QED BY <1>1, <1>4, <2>4, <2>8, <3>3, <3>4, NotePosted
  <2>5. CASE CliReadAsym(c) BY <2>2, <2>3, <2>5 DEF CliReadAsym
  <2>6. CASE CliReadSym(c) BY <2>2, <2>4, <2>6 DEF CliReadSym
  <2> QED BY <1>6, <2>5, <2>6
<1>7. CASE CliReadUser(c)
  <2>1. p.type = "user" BY <1>7 DEF CliReadUser, CliReads
  <2>2. "user" \in StagesOf(c) /\ p.n = filePos[c] /\ (p.res = "end" => p.n + 1 = Segments)
    BY <1>3, <2>1, FileParts DEF DownOK
  <2>3. Result(c) \in {"ok", "end", "bad"} /\ (Result(c) = "end" => p.res = "end")
    BY <1>1 DEF Result, Packets
  <2>4. "user" \in StagesOf(c)'
    <3>1. csocks' = csocks BY <1>7 DEF CliReadUser
    <3> QED BY <1>5, <2>2, <3>1, StillUser
  <2>5. outcome'[c] = CASE Result(c) = "end" -> "done" [] Result(c) = "bad" -> "failed" [] OTHER -> outcome[c]
    BY <1>7 DEF CliReadUser, TypeOK
  <2>6. Posts(c, IF Result(c) = "ok" THEN <<Note("USER_REQ")>> ELSE <<>>) BY <1>7 DEF CliReadUser
  <2>7. up'[c] = up[c] /\ down'[c] = down[c] /\ UNCHANGED <<begun, sq>> BY <1>5
  <2>8. Result(c) # "bad" => SfWrites(c, filePos[c]) BY <1>7, <2>2 DEF CliReadUser
  <2>9. CASE Result(c) = "ok"
    <3>1. outcome'[c] # "done" BY <1>2, <2>5, <2>9
    <3>2. filePos'[c] = filePos[c] + 1 BY <1>7, <2>9 DEF CliReadUser, TypeOK
    <3>3. FileOK(FileOf(c)', outcome'[c]) BY <1>2, <2>8, <2>9, <3>1, <3>2, FileWritten
    <3>4. NoteOK(c, StagesOf(c)', FileOf(c)', Note("USER_REQ")) BY <1>4, <2>4 DEF NoteOK
    <3>5. Posts(c, <<Note("USER_REQ")>>) BY <2>6, <2>9
    <3> QED BY <1>1, <1>4, <2>7, <3>1, <3>3, <3>4, <3>5, NotePosted
  <2>10. CASE Result(c) # "ok"
    <3>1. filePos' = filePos BY <1>7, <2>10 DEF CliReadUser
    <3>2. FileOK(FileOf(c)', outcome'[c])
      <4>1. CASE Result(c) = "bad"
        <5>1. UNCHANGED <<filePos, got, short>> BY <1>7, <3>1, <4>1 DEF CliReadUser
        <5>2. FileOf(c)' = FileOf(c) BY <5>1, FileKept
        <5>3. outcome'[c] # "done" BY <2>5, <4>1
        <5> QED BY <1>2, <5>2, <5>3 DEF FileOK
      <4>2. CASE Result(c) = "end"
        <5>1. outcome'[c] = "done" /\ filePos[c] + 1 = Segments BY <2>2, <2>3, <2>5, <4>2
        <5> QED BY <1>2, <2>8, <4>2, <5>1, FileWritten
      <4> QED BY <2>3, <2>10, <4>1, <4>2
    <3>3. cq'[c] = Tail(cq[c]) BY <1>1, <2>6, <2>10, Posted
    <3>4. ClientOK(c, StagesOf(c)', begun, Tail(cq[c]), up[c], sq, down[c], FileOf(c)', outcome'[c])
      BY <1>2, <3>2, NoToken
    <3> QED BY <2>7, <3>3, <3>4, ClientPartsPrime
  <2> QED BY <2>9, <2>10
<1>8. CASE CliNoFile(c)
  <2>1. UNCHANGED <<csocks, cq, filePos, got, short>> BY <1>8 DEF CliNoFile, file
  <2>2. outcome'[c] # "done" BY <1>8 DEF CliNoFile, TypeOK
  <2>3. FileOf(c)' = FileOf(c) BY <2>1, FileKept
  <2>4. FileOK(FileOf(c), outcome'[c]) BY <1>2, <2>2 DEF FileOK
  <2>5. StagesOf(c) \subseteq StagesOf(c)' BY <1>5, <2>1, ReachedSame
  <2>6. /\ Fewer(cq[c], cq[c], CliTokens) /\ Fewer(up[c], up[c], UpTokens)
        /\ Fewer(sq, sq, SrvTokens(c)) /\ Fewer(down[c], down[c], UpTokens)
    BY SameTokens
  <2>7. ClientOK(c, StagesOf(c), begun, cq[c], up[c], sq, down[c], FileOf(c), outcome[c]) BY ClientParts
  <2>8. cq[c] \in Seq(CliMsgs) BY DEF TypeOK
  <2>9. ClientOK(c, StagesOf(c)', begun, cq[c], up[c], sq, down[c], FileOf(c), outcome[c])
    BY <1>2, <2>5, <2>6, <2>7, <2>8, Loses
  <2>10. ClientOK(c, StagesOf(c)', begun, cq[c], up[c], sq, down[c], FileOf(c), outcome'[c])
    BY <2>2, <2>4, <2>9 DEF ClientOK, DoneOK
  <2> QED BY <1>5, <2>1, <2>3, <2>10, ClientPartsPrime
<1> QED BY <1>6, <1>7, <1>8

\* A client's selector thread and the network.
LEMMA StreamTokens ==
    ASSUME TypeOK, TypeOK', NEW c \in Clients, ClientInv(c), CliRecv(c) \/ CliRecvBad(c) \/ Reset(c)
    PROVE  ClientInv(c)'
<1>0. /\ cq \in [Clients -> Seq(CliMsgs)] /\ up \in [Clients -> Seq(Packets)] /\ down \in [Clients -> Seq(Packets)]
      /\ cq[c] \in Seq(CliMsgs) /\ up[c] \in Seq(Packets) /\ sq \in Seq(SrvMsgs) /\ down[c] \in Seq(Packets)
  BY DEF TypeOK
<1>1. UNCHANGED <<backlog, conn, socks, csocks, sq, begun, filePos, got, short, outcome>>
  BY DEF CliRecv, CliRecvBad, Reset, server, client, file
<1>7. FileOf(c)' = FileOf(c) BY <1>1, FileKept
<1>2. StagesOf(c) \subseteq StagesOf(c)' BY <1>1, ReachedSame
<1>3. Fewer(sq, sq', SrvTokens(c)) BY <1>1, SameTokens
<1>4. CASE CliRecv(c)
  <2> DEFINE p == Head(down[c])
             m == CliMsg("READ", p)
  <2>1. down[c] # <<>> /\ down'[c] = Tail(down[c]) /\ cq'[c] = Append(cq[c], m) /\ up' = up
    BY <1>0, <1>4 DEF CliRecv
  <2>2. p \in Packets BY <1>0, <2>1
  <2>3. m \in CliMsgs /\ m.cmd = "READ" /\ m.pkt = p BY <2>2, CliMsgTypes DEF CliMsg
  <2>4. Tail(down[c]) \in Seq(Packets) BY <1>0, <2>1
  <2> HIDE DEF p, m
  <2>5. CASE p.type = "rubbish"
    <3>1. m \notin CliTokens BY <2>3, <2>5 DEF CliTokens
    <3>2. Fewer(cq[c], cq'[c], CliTokens) BY <1>0, <2>1, <2>3, <3>1, AppendTokens
    <3>3. Fewer(down[c], down'[c], UpTokens) BY <1>0, <2>1, TailTokens
    <3>4. Fewer(up[c], up'[c], UpTokens) BY <2>1, SameTokens
    <3> QED BY <1>7, <1>1, <1>2, <1>3, <3>2, <3>3, <3>4, ClientKept
  <2>6. CASE p.type # "rubbish"
    <3>1. p \in UpTokens BY <2>2, <2>6 DEF UpTokens
    <3>2. ClientOK(c, StagesOf(c), begun, cq[c], up[c], sq, down[c], FileOf(c), outcome[c]) BY ClientParts
    <3>3. /\ Quiet(c, begun, cq[c], up[c], sq, Tail(down[c])) /\ DownOK(c, StagesOf(c), FileOf(c), p)
          /\ FileOK(FileOf(c), outcome[c]) /\ outcome[c] # "done"
      BY <1>0, <2>1, <3>1, <3>2, TakesDown DEF p
    <3>4. DownOK(c, StagesOf(c)', FileOf(c), p) BY <1>2, <3>3, MoreStages
    <3>5. NoteOK(c, StagesOf(c)', FileOf(c), m) BY <2>3, <3>4 DEF NoteOK
    <3>6. ClientOK(c, StagesOf(c)', begun, Append(cq[c], m), up[c], sq, Tail(down[c]), FileOf(c), outcome[c])
      BY <1>0, <2>3, <2>4, <3>3, <3>5, PutsNote
    <3> QED BY <1>1, <1>7, <2>1, <3>6, ClientPartsPrime
  <2> QED BY <2>5, <2>6
<1>5. CASE CliRecvBad(c)
  <2>1. down[c] # <<>> /\ down'[c] = Torn(down[c]) /\ cq'[c] = Append(cq[c], Note("DISCONNECT")) /\ up' = up
    BY <1>0, <1>5 DEF CliRecvBad
  <2>2. Fewer(cq[c], cq'[c], CliTokens)
    <3>1. Note("DISCONNECT") \in CliMsgs /\ Note("DISCONNECT") \notin CliTokens BY NoteTokens
    <3> QED BY <1>0, <2>1, <3>1, AppendTokens
  <2>3. Fewer(down[c], down'[c], UpTokens) BY <1>0, <2>1, TornTokens
  <2>4. Fewer(up[c], up'[c], UpTokens) BY <2>1, SameTokens
  <2> QED BY <1>7, <1>1, <1>2, <1>3, <2>2, <2>3, <2>4, ClientKept
<1>6. CASE Reset(c)
  <2>1. (up'[c] = up[c] \/ up'[c] = <<>>) /\ (down'[c] = down[c] \/ down'[c] = <<>>) /\ cq' = cq
    BY <1>0, <1>6 DEF Reset, client
  <2>2. Fewer(up[c], up'[c], UpTokens) BY <2>1, SameTokens
  <2>3. Fewer(down[c], down'[c], UpTokens) BY <2>1, SameTokens
  <2>4. Fewer(cq[c], cq'[c], CliTokens) BY <2>1, SameTokens
  <2> QED BY <1>7, <1>1, <1>2, <1>3, <2>2, <2>3, <2>4, ClientKept
<1> QED BY <1>4, <1>5, <1>6

\* Every step of a client and of the network keeps TokenInv.
LEMMA ClientTokens ==
    ASSUME TypeOK, TypeOK', TokenInv, NEW c \in Clients, CliLoop(c) \/ CliSelect(c) \/ CliStop(c) \/ Reset(c)
    PROVE  TokenInv'
<1>1. ClientInv(c) BY DEF TokenInv
<1>2. ClientInv(c)'
  BY <1>1, ConnectTokens, SendingTokens, ReadingTokens, ClosingTokens, StreamTokens DEF CliLoop, CliSelect
<1>3. \A x \in Clients : x # c => ClientInv(x)' BY OtherClients
<1>4. OncePerClient'
  <2>1. conn' = conn BY OthersKeepHandles
  <2>2. CASE OnConnectBegin(c)
    <3>1. cq[c] # <<>> /\ Head(cq[c]) \in CliTokens /\ Head(cq[c]).cmd = "CONNECT_BEGIN"
      BY <2>2, Handled DEF OnConnectBegin
    <3>2. NoteOK(c, StagesOf(c), FileOf(c), Head(cq[c])) BY <1>1, <3>1, CliTakes
    <3>3. Reached(c, "new") BY <3>1, <3>2 DEF NoteOK, StagesOf
    <3>4. backlog' = Append(backlog, c) BY <2>2 DEF OnConnectBegin
    <3> QED BY <2>1, <3>3, <3>4, OnceKept DEF TokenInv
  <2>3. CASE ~OnConnectBegin(c)
    <3>1. backlog' = backlog
      <4>1. CASE CliSelect(c) \/ CliStop(c) \/ Reset(c)
        BY <4>1 DEF CliSelect, CliRecv, CliRecvFails, CliRecvBad, CliStop, Reset, server
      <4>2. CASE OnConnectAdded(c) \/ OnConnectRefused(c) \/ OnConnectFailed(c)
                 \/ OnConnectEnd(c) \/ OnExchange(c) \/ OnUserStart(c) \/ OnRecvFileReq(c)
        BY <4>2 DEF OnConnectAdded, OnConnectRefused, OnConnectFailed, OnConnectEnd,
                    OnExchange, OnUserStart, OnRecvFileReq, server
      <4>3. CASE CliSkips(c) \/ CliDropRead(c) \/ CliReadAsym(c) \/ CliReadSym(c) \/ CliReadUser(c)
                 \/ CliNoFile(c) \/ CliOnDisconnect(c) \/ CliOnFini(c) \/ CliNullPointer(c)
        BY <4>3 DEF CliSkips, CliDropRead, CliReadAsym, CliReadSym, CliReadUser, CliNoFile,
                    CliOnDisconnect, CliOnFini, CliNullPointer, server
      <4> QED BY <2>3, <4>1, <4>2, <4>3 DEF CliLoop
    <3> QED BY <2>1, <3>1, OnceKept DEF TokenInv
  <2> QED BY <2>2, <2>3
<1> QED BY <1>2, <1>3, <1>4 DEF TokenInv

-----------------------------------------------------------------------------
(* Steps of the server                                                     *)

\* A step of the server that hands on no token of c.
LEMMA ServerKept ==
    ASSUME TypeOK', NEW c \in Clients, ClientInv(c), UNCHANGED client,
           Fewer(up[c], up'[c], UpTokens), Fewer(sq, sq', SrvTokens(c)),
           Fewer(down[c], down'[c], UpTokens),
           \A h \in Handles : conn'[h] = c =>
               \/ conn[h] = c /\ socks'[h] = socks[h]
               \/ Waiting(c) /\ (socks'[h] = None \/ socks'[h] = NewListener(c)),
           Waiting(c)' => Waiting(c)
    PROVE  ClientInv(c)'
<1>1. UNCHANGED <<csocks, cq, begun, filePos, got, short, outcome>> BY DEF client, file
<1>2. StagesOf(c) \subseteq StagesOf(c)' BY <1>1, ReachedKept
<1>3. Fewer(cq[c], cq'[c], CliTokens) BY <1>1, SameTokens
<1>4. FileOf(c)' = FileOf(c) BY <1>1, FileKept
<1> QED BY <1>1, <1>2, <1>3, <1>4, ClientKept

\* Only a READ of c is a token of c.
LEMMA SrvNoTokens ==
    ASSUME NEW c \in Clients, NEW m \in SrvMsgs, m.cmd # "READ" \/ m.of # c
    PROVE  m \notin SrvTokens(c)
BY DEF SrvTokens

\* The server's queue after a handler took its head and posted nothing, or a
\* message that is not a token.
LEMMA SrvQueue ==
    ASSUME TypeOK, sq # <<>>, NEW c \in Clients, NEW m \in SrvMsgs, m.cmd # "READ" \/ m.of # c
    PROVE  /\ Fewer(sq, Tail(sq), SrvTokens(c)) /\ Fewer(sq, Append(Tail(sq), m), SrvTokens(c))
           /\ Fewer(sq, Append(sq, m), SrvTokens(c))
<1>1. sq \in Seq(SrvMsgs) /\ Tail(sq) \in Seq(SrvMsgs) BY DEF TypeOK
<1>2. m \notin SrvTokens(c) BY SrvNoTokens
<1>3. Fewer(sq, Tail(sq), SrvTokens(c)) BY <1>1, TailTokens
<1>4. Fewer(Tail(sq), Append(Tail(sq), m), SrvTokens(c)) BY <1>1, <1>2, AppendTokens
<1>5. Fewer(sq, Append(sq, m), SrvTokens(c)) BY <1>1, <1>2, AppendTokens
<1> QED BY <1>3, <1>4, <1>5, FewerTrans

\* Posting a message that is not a token.
LEMMA SrvPosts ==
    ASSUME TypeOK, NEW c \in Clients, NEW m \in SrvMsgs, m.cmd # "READ" \/ m.of # c
    PROVE  Fewer(sq, Append(sq, m), SrvTokens(c))
<1>1. sq \in Seq(SrvMsgs) BY DEF TypeOK
<1>2. m \notin SrvTokens(c) BY SrvNoTokens
<1> QED BY <1>1, <1>2, AppendTokens

\* Accepting a connection: it waits for its listener, as before.
LEMMA AcceptTokens ==
    ASSUME TypeOK, TypeOK', HandleInv, TokenInv, NEW h \in Handles, SrvAccept(h)
    PROVE  TokenInv'
<1> DEFINE b == Head(backlog)
           m == SrvMsg("ACCEPT", h, b, None)
<1>0. backlog \in Seq(Clients) /\ conn \in [Handles -> Clients \cup {None}] BY DEF TypeOK
<1>1. /\ backlog # <<>> /\ conn[h] = None /\ backlog' = Tail(backlog) /\ socks' = socks
      /\ conn' = [conn EXCEPT ![h] = b] /\ sq' = Append(sq, m) /\ UNCHANGED client /\ up' = up /\ down' = down
  BY DEF SrvAccept, net
<1>2. b \in Clients /\ 1 \in DOMAIN backlog /\ backlog[1] = b BY <1>0, <1>1
<1>3. m \in SrvMsgs /\ m.cmd = "ACCEPT" BY <1>2, SrvMsgTypes DEF SrvMsg
<1>4. \A i \in DOMAIN backlog' : i + 1 \in DOMAIN backlog /\ backlog'[i] = backlog[i + 1] /\ i \in Int /\ i + 1 # 1
  BY <1>0, <1>1
<1>5. socks[h] = None
  <2>1. socks[h] # None => socks[h].of \in Clients BY DEF TypeOK, Listeners
  <2> QED BY <1>1, <2>1, LinkAssumption DEF HandleInv
<1>6. conn'[h] = b /\ \A k \in Handles : k # h => conn'[k] = conn[k] BY <1>0, <1>1
<1> HIDE DEF b, m
<1>7. ASSUME NEW c \in Clients PROVE ClientInv(c)'
  <2>1. Waiting(b) BY <1>2 DEF Waiting
  <2>2. Waiting(c)' => Waiting(c)
    <3>1. ASSUME NEW i \in DOMAIN backlog', backlog'[i] = c PROVE Waiting(c) BY <1>4, <3>1 DEF Waiting
    <3>2. ASSUME NEW k \in Handles, conn'[k] = c, socks'[k] = None PROVE Waiting(c)
      BY <1>1, <1>6, <2>1, <3>2 DEF Waiting
    <3> QED BY <3>1, <3>2 DEF Waiting
  <2>3. \A k \in Handles : conn'[k] = c =>
               \/ conn[k] = c /\ socks'[k] = socks[k]
               \/ Waiting(c) /\ (socks'[k] = None \/ socks'[k] = NewListener(c))
    BY <1>1, <1>5, <1>6, <2>1
  <2>4. Fewer(up[c], up'[c], UpTokens) BY <1>1, SameTokens
  <2>5. Fewer(sq, sq', SrvTokens(c)) BY <1>1, <1>3, SrvPosts
  <2>6. ClientInv(c) BY DEF TokenInv
  <2>7. Fewer(down[c], down'[c], UpTokens) BY <1>1, SameTokens
  <2> QED BY <1>1, <2>2, <2>3, <2>4, <2>5, <2>6, <2>7, ServerKept
<1>8. OncePerClient'
  <2>0. OncePerClient BY DEF TokenInv
  <2>1. \A i, j \in DOMAIN backlog' : backlog'[i] = backlog'[j] => i = j
    <3> SUFFICES ASSUME NEW i \in DOMAIN backlog', NEW j \in DOMAIN backlog', backlog'[i] = backlog'[j]
                 PROVE  i = j
      OBVIOUS
    <3>1. i + 1 = j + 1 BY <1>4, <2>0 DEF OncePerClient
    <3> QED BY <1>4, <3>1
  <2>2. \A i \in DOMAIN backlog', k \in Handles : conn'[k] # backlog'[i]
    BY <1>2, <1>4, <1>6, <2>0 DEF OncePerClient
  <2>3. \A k \in Handles : conn[k] # b BY <1>2, <2>0 DEF OncePerClient
  <2>4. \A j, k \in Handles : conn'[j] # None /\ conn'[j] = conn'[k] => j = k
    BY <1>6, <2>0, <2>3 DEF OncePerClient
  <2> QED BY <2>1, <2>2, <2>4 DEF OncePerClient
<1> QED BY <1>7, <1>8 DEF TokenInv

\* The selector's reads, whole or torn, and its failing reads.
LEMMA SelectTokens ==
    ASSUME TypeOK, TypeOK', HandleInv, TokenInv, NEW h \in Handles,
           SrvRecv(h) \/ SrvRecvFails(h) \/ SrvRecvBad(h)
    PROVE  TokenInv'
<1>0. sq \in Seq(SrvMsgs) /\ up \in [Clients -> Seq(Packets)] BY DEF TypeOK
<1>1. PICK b \in Clients : b = conn[h]
  <2>1. socks[h] # None BY DEF SrvRecv, SrvRecvFails, SrvRecvBad
  <2>2. conn[h] \in Clients BY <2>1 DEF TypeOK, HandleInv, Listeners
  <2> QED BY <2>2
<1>2. b \in Clients /\ UNCHANGED <<backlog, conn, socks, client, down>>
  BY DEF SrvRecv, SrvRecvFails, SrvRecvBad, TypeOK, net
<1>3. OncePerClient' BY <1>2, OnceKept DEF TokenInv
<1>4. ASSUME NEW c \in Clients
      PROVE  /\ \A k \in Handles : conn'[k] = c => conn[k] = c /\ socks'[k] = socks[k]
             /\ Waiting(c)' => Waiting(c)
             /\ ClientInv(c)
             /\ Fewer(down[c], down'[c], UpTokens)
  BY <1>2, SameTokens DEF Waiting, TokenInv
<1>5. SrvMsg("DISCONNECT", h, b, None) \in SrvMsgs /\ SrvMsg("DISCONNECT", h, b, None).cmd = "DISCONNECT"
  BY <1>2, SrvMsgTypes DEF SrvMsg
<1>6. CASE SrvRecvFails(h) \/ SrvRecvBad(h)
  <2>1. sq' = Append(sq, SrvMsg("DISCONNECT", h, b, None)) BY <1>1, <1>6 DEF SrvRecvFails, SrvRecvBad
  <2>2. ASSUME NEW c \in Clients PROVE Fewer(up[c], up'[c], UpTokens)
    <3>1. CASE up'[c] = up[c] BY <3>1, SameTokens
    <3>2. CASE up'[c] # up[c]
      <4>1. c = b /\ up[c] # <<>> /\ up'[c] = Torn(up[c])
        BY <1>0, <1>2, <1>1, <1>6, <3>2 DEF SrvRecvFails, SrvRecvBad, net
      <4> QED BY <1>0, <4>1, TornTokens
    <3> QED BY <3>1, <3>2
  <2>3. ASSUME NEW c \in Clients PROVE ClientInv(c)'
    <3>1. Fewer(sq, sq', SrvTokens(c)) BY <1>5, <2>1, SrvPosts
    <3> QED BY <1>2, <1>4, <2>2, <3>1, ServerKept
  <2> QED BY <1>3, <2>3 DEF TokenInv
<1>7. CASE SrvRecv(h)
  <2> DEFINE p == Head(up[b])
             m == SrvMsg("READ", h, b, p)
  <2>1. /\ up[b] # <<>> /\ up'[b] = Tail(up[b]) /\ \A c \in Clients : c # b => up'[c] = up[c]
        /\ sq' = Append(sq, m)
    BY <1>0, <1>2, <1>1, <1>7 DEF SrvRecv
  <2>2. p \in Packets /\ Tail(up[b]) \in Seq(Packets) /\ up[b] \in Seq(Packets) BY <1>0, <1>2, <2>1
  <2>3. m \in SrvMsgs /\ m.cmd = "READ" /\ m.of = b /\ m.pkt = p BY <1>2, <2>2, SrvMsgTypes DEF SrvMsg
  <2> HIDE DEF p, m
  <2>4. ASSUME NEW c \in Clients, c # b \/ p.type = "rubbish" PROVE ClientInv(c)'
    <3>1. m \notin SrvTokens(c) BY <2>3, <2>4 DEF SrvTokens
    <3>2. Fewer(sq, sq', SrvTokens(c)) BY <1>0, <2>1, <2>3, <3>1, AppendTokens
    <3>3. Fewer(up[c], up'[c], UpTokens)
      <4>1. CASE c = b BY <2>1, <2>2, <4>1, TailTokens
      <4>2. CASE c # b BY <2>1, <4>2, SameTokens
      <4> QED BY <4>1, <4>2
    <3> QED BY <1>2, <1>4, <3>2, <3>3, ServerKept
  <2>5. ASSUME p.type # "rubbish" PROVE ClientInv(b)'
    <3>1. p \in UpTokens BY <2>2, <2>5 DEF UpTokens
    <3>2. ClientOK(b, StagesOf(b), begun, cq[b], up[b], sq, down[b], FileOf(b), outcome[b])
      BY <1>2, <1>4, ClientParts
    <3>3. cq[b] \in Seq(CliMsgs) /\ down[b] \in Seq(Packets) BY <1>2 DEF TypeOK
    <3>4. /\ Quiet(b, begun, cq[b], Tail(up[b]), sq, down[b]) /\ UpOK(b, StagesOf(b), FileOf(b), p)
          /\ FileOK(FileOf(b), outcome[b]) /\ outcome[b] # "done"
      BY <1>0, <1>2, <2>1, <2>2, <3>1, <3>2, <3>3, TakesUp DEF p
    <3>5. UNCHANGED <<csocks, cq, begun, filePos, got, short, outcome>> BY <1>2 DEF client, file
    <3>6. StagesOf(b) \subseteq StagesOf(b)' BY <1>2, <3>5, ReachedSame
    <3>7. UpOK(b, StagesOf(b)', FileOf(b), m.pkt) BY <1>2, <2>3, <3>4, <3>6, MoreStages
    <3>8. ClientOK(b, StagesOf(b)', begun, cq[b], Tail(up[b]), Append(sq, m), down[b], FileOf(b), outcome[b])
      BY <1>0, <1>2, <2>2, <2>3, <3>3, <3>4, <3>7, PutsRead
    <3>9. FileOf(b)' = FileOf(b) BY <3>5, FileKept
    <3> QED BY <1>2, <2>1, <3>5, <3>8, <3>9, ClientPartsPrime
  <2>6. \A c \in Clients : ClientInv(c)' BY <2>4, <2>5
  <2> QED BY <1>3, <2>6 DEF TokenInv
<1> QED BY <1>6, <1>7

\* Handlers of the server that touch no listener.
LEMMA PlainTokens ==
    ASSUME TypeOK, TypeOK', TokenInv, OnListen \/ SrvDropRead \/ SrvNoListener \/ SrvStop
    PROVE  TokenInv'
<1>1. UNCHANGED <<backlog, conn, socks, client, up, down>>
  BY DEF OnListen, SrvDropRead, SrvNoListener, SrvStop, net
<1>2. ASSUME NEW c \in Clients PROVE Fewer(sq, sq', SrvTokens(c))
  <2>1. CASE SrvNoListener BY <2>1, SameTokens DEF SrvNoListener
  <2>2. CASE SrvStop
    <3> DEFINE m == SrvMsg("FINI", None, None, None)
    <3>1. m \in SrvMsgs /\ m.cmd = "FINI" BY SrvMsgTypes DEF SrvMsg
    <3>2. sq' = Append(sq, m) BY <2>2 DEF SrvStop
    <3> HIDE DEF m
    <3> QED BY <3>1, <3>2, SrvPosts
  <2>3. CASE OnListen
    <3> DEFINE m == Head(sq)
    <3>1. sq # <<>> /\ m.cmd = "LISTEN" /\ (sq' = Tail(sq) \/ sq' = Append(Tail(sq), m))
      BY <2>3 DEF OnListen, SrvHas, Pop
    <3>2. m \in SrvMsgs BY <3>1 DEF TypeOK
    <3> HIDE DEF m
    <3> QED BY <3>1, <3>2, SrvQueue
  <2>4. CASE SrvDropRead
    <3> DEFINE m == SrvMsg("DISCONNECT", Head(sq).sock, conn[Head(sq).sock], None)
    <3>1. sq # <<>> BY <2>4 DEF SrvDropRead, SrvHas
    <3>2. CASE sq' = Tail(sq)
      <4>1. sq \in Seq(SrvMsgs) BY DEF TypeOK
      <4> QED BY <3>1, <3>2, <4>1, TailTokens
    <3>3. CASE sq' = Append(Tail(sq), m)
      <4>1. CASE m \in SrvMsgs
        <5>1. m.cmd = "DISCONNECT" BY DEF SrvMsg
        <5> HIDE DEF m
        <5> QED BY <3>1, <3>3, <4>1, <5>1, SrvQueue
      <4>2. m \in SrvMsgs
        <5>1. Append(Tail(sq), m) \in Seq(SrvMsgs) BY <3>3 DEF TypeOK
        <5>2. Tail(sq) \in Seq(SrvMsgs) BY <3>1 DEF TypeOK
        <5> HIDE DEF m
        <5>3. /\ Len(Tail(sq)) + 1 \in DOMAIN Append(Tail(sq), m)
              /\ Append(Tail(sq), m)[Len(Tail(sq)) + 1] = m
          BY <5>2
        <5> QED BY <5>1, <5>3
      <4> QED BY <4>1, <4>2
    <3> QED BY <2>4, <3>2, <3>3 DEF SrvDropRead, Pop
  <2> QED BY <2>1, <2>2, <2>3, <2>4
<1>3. ASSUME NEW c \in Clients PROVE ClientInv(c)'
  <2>1. \A k \in Handles : conn'[k] = c => conn[k] = c /\ socks'[k] = socks[k] BY <1>1
  <2>2. Waiting(c)' => Waiting(c) BY <1>1 DEF Waiting
  <2>3. ClientInv(c) BY DEF TokenInv
  <2>4. Fewer(up[c], up'[c], UpTokens) BY <1>1, SameTokens
  <2>5. Fewer(down[c], down'[c], UpTokens) BY <1>1, SameTokens
  <2> QED BY <1>1, <1>2, <2>1, <2>2, <2>3, <2>4, <2>5, ServerKept
<1>4. OncePerClient' BY <1>1, OnceKept DEF TokenInv
<1> QED BY <1>3, <1>4 DEF TokenInv

\* A listener is made for a connection that waits for it.
LEMMA ListenerTokens ==
    ASSUME TypeOK, TypeOK', HandleInv, TokenInv, OnSockAccept
    PROVE  TokenInv'
<1> DEFINE h == Head(sq).sock
<1>0. sq \in Seq(SrvMsgs) /\ sq # <<>> /\ Head(sq).cmd = "ACCEPT" /\ sq' = Tail(sq)
  BY DEF TypeOK, OnSockAccept, SrvHas, Pop
<1>1. UNCHANGED <<backlog, conn, client, up, down>> BY DEF OnSockAccept, net
<1>2. 1 \in DOMAIN sq /\ sq[1] = Head(sq) /\ Head(sq) \in SrvMsgs BY <1>0
<1>3. h \in Handles /\ Head(sq).of \in Clients BY <1>0, <1>2 DEF SrvMsgs
<1>4. socks[h] = None /\ conn[h] = Head(sq).of BY <1>0, <1>2 DEF HandleInv
<1>5. socks' = socks \/ socks' = [socks EXCEPT ![h] = NewListener(conn[h])] BY DEF OnSockAccept
<1>6. socks \in [Handles -> Listeners \cup {None}] BY DEF TypeOK
<1> HIDE DEF h
<1>7. ASSUME NEW k \in Handles PROVE socks'[k] = socks[k] \/ (k = h /\ socks'[k] = NewListener(conn[k]))
  BY <1>3, <1>5, <1>6, <1>7
<1>8. ASSUME NEW c \in Clients PROVE ClientInv(c)'
  <2>1. \A k \in Handles : conn'[k] = c =>
               \/ conn[k] = c /\ socks'[k] = socks[k]
               \/ Waiting(c) /\ (socks'[k] = None \/ socks'[k] = NewListener(c))
    BY <1>1, <1>3, <1>4, <1>7 DEF Waiting
  <2>2. Waiting(c)' => Waiting(c)
    <3>1. ASSUME NEW k \in Handles, conn'[k] = c, socks'[k] = None PROVE Waiting(c)
      BY <1>1, <1>4, <1>7, <3>1 DEF Waiting
    <3>2. ASSUME NEW i \in DOMAIN backlog', backlog'[i] = c PROVE Waiting(c) BY <1>1, <3>2 DEF Waiting
    <3> QED BY <3>1, <3>2 DEF Waiting
  <2>3. ClientInv(c) BY DEF TokenInv
  <2>4. Fewer(up[c], up'[c], UpTokens) BY <1>1, SameTokens
  <2>5. Fewer(down[c], down'[c], UpTokens) BY <1>1, SameTokens
  <2>6. Fewer(sq, sq', SrvTokens(c)) BY <1>0, TailTokens
  <2> QED BY <1>1, <2>1, <2>2, <2>3, <2>4, <2>5, <2>6, ServerKept
<1>9. OncePerClient' BY <1>1, OnceKept DEF TokenInv
<1> QED BY <1>8, <1>9 DEF TokenInv

\* Closing handles leaves a client its token or nothing to wait for.
LEMMA ClosedTokens ==
    ASSUME TypeOK, TypeOK', TokenInv, SrvOnDisconnect \/ SrvOnFini
    PROVE  TokenInv'
<1>0. /\ sq \in Seq(SrvMsgs) /\ sq # <<>> /\ sq' = Tail(sq)
      /\ conn \in [Handles -> Clients \cup {None}] /\ socks \in [Handles -> Listeners \cup {None}]
  BY DEF TypeOK, SrvOnDisconnect, SrvOnFini, SrvHas, Pop
<1>1. UNCHANGED <<client, up, down>> /\ (backlog' = backlog \/ backlog' = <<>>)
  BY DEF SrvOnDisconnect, SrvOnFini
<1>2. ASSUME NEW k \in Handles
      PROVE  \/ conn'[k] = conn[k] /\ socks'[k] = socks[k]
             \/ conn'[k] = None
  <2>1. CASE SrvOnDisconnect BY <1>0, <1>2, <2>1 DEF SrvOnDisconnect
  <2>2. CASE SrvOnFini
    <3>1. /\ conn' = [h \in Handles |-> IF socks[h] # None THEN None ELSE conn[h]]
          /\ socks' = [h \in Handles |-> None]
      BY <2>2 DEF SrvOnFini
    <3> QED BY <1>2, <3>1
  <2> QED BY <2>1, <2>2
<1>3. \A i \in DOMAIN backlog' : i \in DOMAIN backlog /\ backlog'[i] = backlog[i] BY <1>1
<1>4. ASSUME NEW c \in Clients PROVE ClientInv(c)'
  <2>0. c # None BY LinkAssumption
  <2>1. \A k \in Handles : conn'[k] = c => conn[k] = c /\ socks'[k] = socks[k] BY <1>2, <2>0
  <2>2. Waiting(c)' => Waiting(c) BY <1>3, <2>1 DEF Waiting
  <2>3. ClientInv(c) BY DEF TokenInv
  <2>4. Fewer(up[c], up'[c], UpTokens) BY <1>1, SameTokens
  <2>5. Fewer(down[c], down'[c], UpTokens) BY <1>1, SameTokens
  <2>6. Fewer(sq, sq', SrvTokens(c)) BY <1>0, TailTokens
  <2> QED BY <1>1, <2>1, <2>2, <2>3, <2>4, <2>5, <2>6, ServerKept
<1>5. OncePerClient'
  <2>0. OncePerClient BY DEF TokenInv
  <2>1. \A i \in DOMAIN backlog : backlog[i] # None BY LinkAssumption DEF TypeOK
  <2>2. \A i \in DOMAIN backlog', k \in Handles : conn'[k] # backlog'[i]
    BY <1>2, <1>3, <2>0, <2>1 DEF OncePerClient
  <2>3. \A j, k \in Handles : conn'[j] # None /\ conn'[j] = conn'[k] => j = k
    BY <1>2, <2>0 DEF OncePerClient
  <2>4. \A i, j \in DOMAIN backlog' : backlog'[i] = backlog'[j] => i = j
    BY <1>3, <2>0 DEF OncePerClient
  <2> QED BY <2>2, <2>3, <2>4 DEF OncePerClient
<1> QED BY <1>4, <1>5 DEF TokenInv

\* The packet a handler of the server reads is the token of the connection
\* behind the handle.
LEMMA TokenRead ==
    ASSUME TypeOK, HandleInv, TokenInv, NEW type \in {"asym", "sym", "user"}, SrvReads(type)
    PROVE  \E c \in Clients, h \in Handles :
             /\ h = Head(sq).sock /\ conn[h] = c /\ socks[h] # None /\ socks[h].of = c
             /\ socks[h] \in Listeners /\ sq # <<>>
             /\ Head(sq).pkt \in Packets /\ Head(sq).pkt.type = type /\ Head(sq).of = c
             /\ Quiet(c, begun, cq[c], up[c], Tail(sq), down[c])
             /\ UpOK(c, StagesOf(c), FileOf(c), Head(sq).pkt)
             /\ FileOK(FileOf(c), outcome[c]) /\ outcome[c] # "done"
<1> DEFINE m == Head(sq)
<1>0. sq \in Seq(SrvMsgs) /\ sq # <<>> /\ m.cmd = "READ" /\ m.pkt.type = type /\ socks[m.sock] # None
  BY DEF TypeOK, SrvReads, SrvHas
<1>1. 1 \in DOMAIN sq /\ sq[1] = m /\ m \in SrvMsgs BY <1>0
<1>2. m.sock \in Handles /\ m.of \in Clients /\ m.pkt \in Packets BY <1>0, <1>1 DEF SrvMsgs
<1>3. socks[m.sock].of = m.of BY <1>0, <1>1 DEF HandleInv, HandlesNotConfused
<1>4. conn[m.sock] = m.of BY <1>0, <1>2, <1>3 DEF HandleInv
<1>5. socks[m.sock] \in Listeners BY <1>0, <1>2 DEF TypeOK
<1>6. m \in SrvTokens(m.of) BY <1>0, <1>1 DEF SrvTokens
<1> HIDE DEF m
<1>7. PICK c \in Clients : c = m.of BY <1>2
<1>8. ClientOK(c, StagesOf(c), begun, cq[c], up[c], sq, down[c], FileOf(c), outcome[c])
  BY ClientParts DEF TokenInv
<1>9. cq[c] \in Seq(CliMsgs) /\ up[c] \in Seq(Packets) /\ down[c] \in Seq(Packets) BY DEF TypeOK
<1>10. m = Head(sq) BY DEF m
<1>11. sq \in Seq(SrvMsgs) /\ sq # <<>> /\ Head(sq) \in SrvTokens(c) BY <1>0, <1>6, <1>7, <1>10
<1> DEFINE R == StagesOf(c)
           G == FileOf(c)
           O == outcome[c]
           Q == cq[c]
           U == up[c]
           D == down[c]
<1>12. ClientOK(c, R, begun, Q, U, sq, D, G, O) /\ Q \in Seq(CliMsgs) /\ U \in Seq(Packets) /\ D \in Seq(Packets)
  BY <1>8, <1>9
<1> HIDE DEF R, G, O, Q, U, D
<1>13. /\ Quiet(c, begun, Q, U, Tail(sq), D) /\ UpOK(c, R, G, Head(sq).pkt)
       /\ FileOK(G, O) /\ O # "done"
  BY <1>11, <1>12, TakesRead
<1>14. /\ Quiet(c, begun, cq[c], up[c], Tail(sq), down[c]) /\ UpOK(c, StagesOf(c), FileOf(c), Head(sq).pkt)
       /\ FileOK(FileOf(c), outcome[c]) /\ outcome[c] # "done"
  BY <1>13 DEF R, G, O, Q, U, D
<1> QED BY <1>0, <1>2, <1>3, <1>4, <1>5, <1>7, <1>10, <1>14

\* The answer is the token now, or it is lost.
LEMMA Answered ==
    ASSUME TypeOK, TypeOK', NEW c \in Clients, NEW h \in Handles, h = Head(sq).sock, conn[h] = c, sq # <<>>,
           Quiet(c, begun, cq[c], up[c], Tail(sq), down[c]),
           FileOK(FileOf(c), outcome[c]), outcome[c] # "done",
           NEW p \in Packets, SrvAnswers(p), UNCHANGED <<client, up>>, DownOK(c, StagesOf(c)', FileOf(c), p)
    PROVE  ClientInv(c)'
<1> DEFINE m == SrvMsg("DISCONNECT", h, c, None)
<1>0. /\ cq[c] \in Seq(CliMsgs) /\ up[c] \in Seq(Packets) /\ down[c] \in Seq(Packets)
      /\ Tail(sq) \in Seq(SrvMsgs) /\ down \in [Clients -> Seq(Packets)]
  BY DEF TypeOK
<1>1. UNCHANGED <<cq, begun, filePos, got, short, outcome, up>> BY DEF client, file
<1>7. FileOf(c)' = FileOf(c) BY <1>1, FileKept
<1>2. m \in SrvMsgs /\ m.cmd = "DISCONNECT" BY SrvMsgTypes DEF SrvMsg
<1>3. \/ sq' = Tail(sq) /\ down'[c] = down[c]
      \/ sq' = Tail(sq) /\ down'[c] = Append(down[c], p)
      \/ sq' = Append(Tail(sq), m) /\ down'[c] = down[c]
  BY <1>0 DEF SrvAnswers, Pop
<1> HIDE DEF m
<1>4. CASE sq' = Tail(sq) /\ down'[c] = down[c]
  <2>1. ClientOK(c, StagesOf(c)', begun, cq[c], up[c], Tail(sq), down[c], FileOf(c), outcome[c])
    BY <1>0, NoToken
  <2> QED BY <1>1, <1>4, <1>7, <2>1, ClientPartsPrime
<1>5. CASE sq' = Tail(sq) /\ down'[c] = Append(down[c], p)
  <2>1. ClientOK(c, StagesOf(c)', begun, cq[c], up[c], Tail(sq), Append(down[c], p), FileOf(c), outcome[c])
    BY <1>0, PutsDown
  <2> QED BY <1>1, <1>5, <1>7, <2>1, ClientPartsPrime
<1>6. CASE sq' = Append(Tail(sq), m) /\ down'[c] = down[c]
  <2>1. ClientOK(c, StagesOf(c)', begun, cq[c], up[c], Append(Tail(sq), m), down[c], FileOf(c), outcome[c])
    BY <1>0, <1>2, PutsRead
  <2> QED BY <1>1, <1>6, <1>7, <2>1, ClientPartsPrime
<1> QED BY <1>3, <1>4, <1>5, <1>6

\* The other clients, when the server answers c.
LEMMA NotAnswered ==
    ASSUME TypeOK, TypeOK', HandleInv, TokenInv, NEW c \in Clients, NEW h \in Handles,
           h = Head(sq).sock, conn[h] = c, socks[h] # None, sq # <<>>,
           NEW p \in Packets, SrvAnswers(p), UNCHANGED <<client, up, conn, backlog>>,
           \A k \in Handles : k # h => socks'[k] = socks[k],
           NEW x \in Clients, x # c
    PROVE  ClientInv(x)'
<1> DEFINE m == SrvMsg("DISCONNECT", h, c, None)
<1>0. sq \in Seq(SrvMsgs) /\ down \in [Clients -> Seq(Packets)] BY DEF TypeOK
<1>1. m \in SrvMsgs /\ m.cmd = "DISCONNECT" BY SrvMsgTypes DEF SrvMsg
<1>2. (sq' = Tail(sq) \/ sq' = Append(Tail(sq), m)) /\ down'[x] = down[x] BY <1>0 DEF SrvAnswers, Pop
<1> HIDE DEF m
<1>3. Fewer(sq, sq', SrvTokens(x)) BY <1>1, <1>2, SrvQueue
<1>4. Fewer(down[x], down'[x], UpTokens) /\ Fewer(up[x], up'[x], UpTokens) BY <1>2, SameTokens
<1>5. \A k \in Handles : conn'[k] = x => conn[k] = x /\ socks'[k] = socks[k] OBVIOUS
<1>6. Waiting(x)' => Waiting(x) BY <1>5 DEF Waiting
<1>7. ClientInv(x) BY DEF TokenInv
<1> QED BY <1>3, <1>4, <1>5, <1>6, <1>7, ServerKept

\* The server's listener switches its ciphers: its connection is at the next stage.
LEMMA ServerSwitches ==
    ASSUME TypeOK, HandleInv, TokenInv, NEW c \in Clients, NEW h \in Handles, conn[h] = c, socks[h] # None,
           NEW st \in Stages, NEW st2 \in {"half asym", "half sym"}, Reached(c, st), st # "user",
           c \in Secure, CliCiphers(c, st2) = CliCiphers(c, st),
           socks'[h].enc = SrvCiphers(c, st2).enc, socks'[h].dec = SrvCiphers(c, st2).dec, socks'[h] # None,
           \A k \in Handles : k # h => socks'[k] = socks[k],
           UNCHANGED <<backlog, conn, csocks, filePos>>
    PROVE  st2 \in StagesOf(c)'
<1>1. \A k \in Handles : conn[k] = c => k = h BY LinkAssumption DEF TokenInv, OncePerClient
<1>2. \A i \in DOMAIN backlog : backlog[i] # c BY DEF TokenInv, OncePerClient
<1>3. ~Waiting(c)' BY <1>1, <1>2 DEF Waiting
<1>4. \A k \in Handles : conn'[k] = c /\ socks'[k] # None =>
        socks'[k].enc = SrvCiphers(c, st2).enc /\ socks'[k].dec = SrvCiphers(c, st2).dec
  BY <1>1
<1>5. csocks'[c] # None =>
        csocks'[c].enc = CliCiphers(c, st2).enc /\ csocks'[c].dec = CliCiphers(c, st2).dec
  BY DEF Reached
<1>6. SrvCiphers(c, st2)' = SrvCiphers(c, st2) /\ CliCiphers(c, st2)' = CliCiphers(c, st2)
  BY DEF SrvCiphers, CliCiphers
<1>8. Unread(c)' BY DEF Reached, Unread
<1>7. Reached(c, st2)' BY <1>3, <1>4, <1>5, <1>6, <1>8 DEF Reached
<1> QED BY <1>7 DEF StagesOf, Stages

\* The server's handlers of the exchanges and of the user's requests.
LEMMA AnswerTokens ==
    ASSUME TypeOK, TypeOK', HandleInv, TokenInv, SrvReadAsym \/ SrvReadSym \/ SrvReadUser
    PROVE  TokenInv'
<1>0. socks \in [Handles -> Listeners \cup {None}] BY DEF TypeOK
<1>1. UNCHANGED <<backlog, conn, client, up>> BY DEF SrvReadAsym, SrvReadSym, SrvReadUser
<1>2. OncePerClient' BY <1>1, OnceKept DEF TokenInv
<1>3. PICK type \in {"asym", "sym", "user"} :
        /\ SrvReads(type)
        /\ type = "asym" => SrvReadAsym
        /\ type = "sym" => SrvReadSym
        /\ type = "user" => SrvReadUser
  BY DEF SrvReadAsym, SrvReadSym, SrvReadUser
<1>4. PICK c \in Clients, h \in Handles :
        /\ h = Head(sq).sock /\ conn[h] = c /\ socks[h] # None /\ socks[h].of = c
        /\ socks[h] \in Listeners /\ sq # <<>>
        /\ Head(sq).pkt \in Packets /\ Head(sq).pkt.type = type /\ Head(sq).of = c
        /\ Quiet(c, begun, cq[c], up[c], Tail(sq), down[c])
        /\ UpOK(c, StagesOf(c), FileOf(c), Head(sq).pkt)
        /\ FileOK(FileOf(c), outcome[c]) /\ outcome[c] # "done"
  BY <1>3, TokenRead
<1>5. SUFFICES \E p \in Packets :
        SrvAnswers(p) /\ DownOK(c, StagesOf(c)', FileOf(c), p) /\ \A k \in Handles : k # h => socks'[k] = socks[k]
  <2>1. PICK p \in Packets :
          SrvAnswers(p) /\ DownOK(c, StagesOf(c)', FileOf(c), p) /\ \A k \in Handles : k # h => socks'[k] = socks[k]
    BY <1>5
  <2>2. ClientInv(c)' BY <1>1, <1>4, <2>1, Answered
  <2>3. ASSUME NEW x \in Clients, x # c PROVE ClientInv(x)' BY <1>1, <1>4, <2>1, <2>3, NotAnswered
  <2>4. \A x \in Clients : ClientInv(x)' BY <2>2, <2>3
  <2> QED BY <1>2, <2>4 DEF TokenInv
<1>6. csocks' = csocks /\ filePos' = filePos BY <1>1 DEF client, file
<1>7. CASE type = "asym"
  <2>1. "asking" \in StagesOf(c) BY <1>4, <1>7 DEF UpOK
  <2>2. Reached(c, "asking") /\ c \in Secure BY <2>1 DEF StagesOf, Reached
  <2>3. socks[h].enc = Clear BY <1>4, <2>2 DEF Reached, SrvCiphers
  <2>4. PICK n \in Certs : SrvAnswers(Packet("asym", socks[h].enc, "ok", n))
    BY <1>3, <1>4, <1>7 DEF SrvReadAsym
  <2>5. Packet("asym", Clear, "ok", n) \in Packets
    BY LinkAssumption, PacketTypes, CipherTypes
  <2>6. socks' = [socks EXCEPT ![h].enc = Asym(c), ![h].dec = Asym("server")]
    BY <1>3, <1>4, <1>7 DEF SrvReadAsym
  <2>7. socks'[h].enc = Asym(c) /\ socks'[h].dec = Asym("server") /\ socks'[h] \in Listeners
    <3>1. Asym(c) \in Ciphers /\ Asym("server") \in Ciphers BY CipherTypes
    <3> QED BY <1>0, <1>4, <2>6, <3>1 DEF Listeners
  <2>8. \A k \in Handles : k # h => socks'[k] = socks[k] BY <1>0, <2>6
  <2>9. CliCiphers(c, "half asym") = CliCiphers(c, "asking") BY DEF CliCiphers
  <2>10. SrvCiphers(c, "half asym").enc = Asym(c) /\ SrvCiphers(c, "half asym").dec = Asym("server")
    BY <2>2 DEF SrvCiphers
  <2>11. "half asym" \in StagesOf(c)'
    <3>1. socks'[h] # None BY <2>7, LinkAssumption
    <3>2. "asking" \in Stages BY DEF Stages
    <3> QED BY <1>1, <1>4, <1>6, <2>2, <2>7, <2>8, <2>9, <2>10, <3>1, <3>2, ServerSwitches
  <2>12. DownOK(c, StagesOf(c)', FileOf(c), Packet("asym", Clear, "ok", n)) BY <2>11 DEF DownOK, Packet
  <2> QED BY <2>3, <2>4, <2>5, <2>8, <2>12
<1>8. CASE type = "sym"
  <2> DEFINE r == IF Code(c) = SrvCode THEN "ok" ELSE "bad"
             D == IF Code(c) = SrvCode THEN SymKey("up", c, SrvCode) ELSE Random
             E == SymKey("down", c, SrvCode)
  <2>1. "asym" \in StagesOf(c) BY <1>4, <1>8 DEF UpOK
  <2>2. Reached(c, "asym") /\ c \in Secure BY <2>1 DEF StagesOf, Reached
  <2>3. socks[h].enc = Asym(c) BY <1>4, <2>2 DEF Reached, SrvCiphers
  <2>4. SrvAnswers(Packet("sym", socks[h].enc, r, 0)) /\ socks' = [socks EXCEPT ![h].enc = E, ![h].dec = D]
    BY <1>3, <1>4, <1>8 DEF SrvReadSym
  <2>5. r \in {"ok", "bad"} /\ E \in Ciphers /\ D \in Ciphers /\ Asym(c) \in Ciphers BY CipherTypes
  <2>6. SrvCiphers(c, "half sym").enc = E /\ SrvCiphers(c, "half sym").dec = D BY <2>2 DEF SrvCiphers
  <2> HIDE DEF r, E, D
  <2>7. socks'[h].enc = E /\ socks'[h].dec = D /\ socks'[h] \in Listeners
    BY <1>0, <1>4, <2>4, <2>5 DEF Listeners
  <2>8. \A k \in Handles : k # h => socks'[k] = socks[k] BY <1>0, <2>4
  <2>9. CliCiphers(c, "half sym") = CliCiphers(c, "asym") BY DEF CliCiphers
  <2>10. Packet("sym", Asym(c), r, 0) \in Packets BY <2>5, PacketTypes
  <2>11. "half sym" \in StagesOf(c)'
    <3>1. socks'[h] # None BY <2>7, LinkAssumption
    <3>2. "asym" \in Stages BY DEF Stages
    <3> QED BY <1>1, <1>4, <1>6, <2>2, <2>6, <2>7, <2>8, <2>9, <3>1, <3>2, ServerSwitches
  <2>12. DownOK(c, StagesOf(c)', FileOf(c), Packet("sym", Asym(c), r, 0)) BY <2>11 DEF DownOK, Packet
  <2> QED BY <2>3, <2>4, <2>8, <2>10, <2>12
<1>9. CASE type = "user"
  <2> DEFINE p == Head(sq).pkt
             r == IF Legible(socks[h], p) THEN sfReadFile(p.n) ELSE "bad"
  <2>1. "user" \in StagesOf(c) /\ p.n = FileOf(c).pos BY <1>4, <1>9 DEF UpOK
  <2>2. Reached(c, "user") BY <2>1 DEF StagesOf
  <2>3. socks[h].enc = SrvCiphers(c, "user").enc BY <1>4, <2>2 DEF Reached
  <2>4. SrvAnswers(Packet("user", socks[h].enc, r, p.n)) /\ socks' = socks
    BY <1>3, <1>4, <1>9 DEF SrvReadUser
  <2>5. p.n \in Nat /\ socks[h].enc \in Ciphers BY <1>4 DEF Packets, Listeners
  <2>6. r \in {"ok", "end", "bad"} /\ (r = "end" => p.n + 1 = Segments) BY DEF sfReadFile
  <2> HIDE DEF p, r
  <2>7. Packet("user", socks[h].enc, r, p.n) \in Packets BY <2>5, <2>6, PacketTypes
  <2>8. StagesOf(c) \subseteq StagesOf(c)' BY <1>1, <1>6, <2>4, ReachedSame
  <2>9. DownOK(c, StagesOf(c)', FileOf(c), Packet("user", socks[h].enc, r, p.n))
    BY <2>1, <2>3, <2>6, <2>8 DEF DownOK, Packet
  <2> QED BY <2>4, <2>7, <2>9
<1> QED BY <1>7, <1>8, <1>9

\* Before anything happened a client's CONNECT_BEGIN is its token.
LEMMA TokenInit ==
    ASSUME Init PROVE TokenInv
<1>0. /\ backlog = <<>> /\ conn = [h \in Handles |-> None] /\ socks = [h \in Handles |-> None]
      /\ sq = <<SrvMsg("LISTEN", None, None, None)>> /\ begun = {}
      /\ csocks = [c \in Clients |-> None] /\ cq = [c \in Clients |-> <<Note("CONNECT_BEGIN")>>]
      /\ up = [c \in Clients |-> <<>>] /\ down = [c \in Clients |-> <<>>]
      /\ filePos = [c \in Clients |-> 0] /\ got = [c \in Clients |-> <<>>]
      /\ outcome = [c \in Clients |-> "none"]
  BY DEF Init
<1>1. OncePerClient BY <1>0 DEF OncePerClient
<1>2. ASSUME NEW c \in Clients PROVE ClientInv(c)
  <2> DEFINE m == SrvMsg("LISTEN", None, None, None)
             n == Note("CONNECT_BEGIN")
  <2>1. m \in SrvMsgs /\ m.cmd = "LISTEN" BY SrvMsgTypes DEF SrvMsg
  <2>2. n \in CliMsgs /\ n.cmd = "CONNECT_BEGIN" BY CliMsgTypes DEF CliCmds, Note, CliMsg
  <2>3. m \notin SrvTokens(c) BY <2>1 DEF SrvTokens
  <2>4. Reached(c, "new") BY <1>0, LinkAssumption DEF Reached, Waiting, Unread
  <2>5. "new" \in StagesOf(c) BY <2>4 DEF StagesOf, Stages
  <2>6. sq = <<m>> /\ cq[c] = <<n>> BY <1>0
  <2> HIDE DEF m, n
  <2>7. ~Holds(sq, SrvTokens(c)) /\ sq \in Seq(SrvMsgs) BY <2>1, <2>3, <2>6 DEF Holds
  <2>8. /\ up[c] = <<>> /\ down[c] = <<>> /\ outcome[c] = "none" /\ c \notin begun
    BY <1>0
  <2>9. NoteOK(c, StagesOf(c), FileOf(c), n) BY <2>2, <2>5 DEF NoteOK
  <2>10. Quiet(c, begun, <<>>, <<>>, sq, <<>>) BY <2>7, <2>8, SameTokens DEF Quiet
  <2>11. FileOK(FileOf(c), "none")
    <3>1. FileOf(c).data = <<>> /\ FileOf(c).pos = 0 BY <1>0, FileParts
    <3>2. <<>> = [i \in 1 .. Len(<<>>) |-> i - 1] OBVIOUS
    <3> QED BY <3>1, <3>2 DEF FileOK
  <2>12. <<>> \in Seq(CliMsgs) /\ <<>> \in Seq(Packets) /\ Append(<<>>, n) = <<n>> OBVIOUS
  <2>13. ClientOK(c, StagesOf(c), begun, Append(<<>>, n), <<>>, sq, <<>>, FileOf(c), "none")
    BY <2>2, <2>7, <2>9, <2>10, <2>11, <2>12, PutsNote
  <2> QED BY <2>6, <2>8, <2>12, <2>13, ClientParts
<1> QED BY <1>1, <1>2 DEF TokenInv

\* A step that does not touch the connections, the queues and the clients.
LEMMA TokenStutter ==
    ASSUME TypeOK, TypeOK', TokenInv, UNCHANGED <<backlog, conn, socks, sq, client, up, down>>
    PROVE  TokenInv'
<1>2. OncePerClient' BY OnceKept DEF TokenInv
<1>3. ASSUME NEW c \in Clients PROVE ClientInv(c)'
  <2>1. \A k \in Handles : conn'[k] = c => conn[k] = c /\ socks'[k] = socks[k] OBVIOUS
  <2>2. Waiting(c)' => Waiting(c) BY DEF Waiting
  <2>3. ClientInv(c) BY DEF TokenInv
  <2>4. Fewer(up[c], up'[c], UpTokens) /\ Fewer(down[c], down'[c], UpTokens) /\ Fewer(sq, sq', SrvTokens(c))
    BY SameTokens
  <2> QED BY <2>1, <2>2, <2>3, <2>4, ServerKept
<1> QED BY <1>2, <1>3 DEF TokenInv

\* Every step keeps every client its one token.
LEMMA TokenStep ==
    ASSUME TypeOK, TypeOK', HandleInv, TokenInv, [Next]_vars
    PROVE  TokenInv'
<1>1. CASE UNCHANGED vars \/ SrvPoll \/ SrvAcceptFails \/ \E h \in Handles : SrvReadGone(h)
  <2>1. UNCHANGED <<backlog, conn, socks, sq, client, up, down>>
    BY <1>1 DEF vars, SrvPoll, SrvAcceptFails, SrvReadGone, server, net
  <2> QED BY <2>1, TokenStutter
<1>2. CASE SrvStop \/ OnListen \/ SrvDropRead \/ SrvNoListener BY <1>2, PlainTokens
<1>3. CASE OnSockAccept BY <1>3, ListenerTokens
<1>4. CASE SrvOnDisconnect \/ SrvOnFini BY <1>4, ClosedTokens
<1>5. CASE SrvReadAsym \/ SrvReadSym \/ SrvReadUser BY <1>5, AnswerTokens
<1>6. ASSUME NEW h \in Handles, SrvSelect(h) PROVE TokenInv'
  BY <1>1, <1>6, AcceptTokens, SelectTokens DEF SrvSelect
<1>7. ASSUME NEW c \in Clients, CliLoop(c) \/ CliSelect(c) \/ CliStop(c) \/ Reset(c) PROVE TokenInv'
  BY <1>7, ClientTokens
<1> QED BY <1>1, <1>2, <1>3, <1>4, <1>5, <1>6, <1>7 DEF Next, SrvLoop, SrvSelector

\* The token of a connection is read with the ciphers it was written with.
LEMMA TokenInStep ==
    ASSUME TypeOK, HandleInv, TokenInv
    PROVE  CiphersInStep
<1>1. ASSUME sq # <<>>, Head(sq).cmd = "READ", socks[Head(sq).sock] # None
      PROVE  InStep(Head(sq).of, socks[Head(sq).sock], Head(sq).pkt)
  <2> DEFINE m == Head(sq)
             h == m.sock
             c == m.of
             p == m.pkt
  <2>1. 1 \in DOMAIN sq /\ sq[1] = m /\ m \in SrvMsgs BY <1>1 DEF TypeOK
  <2>2. h \in Handles /\ c \in Clients /\ p \in Packets BY <1>1, <2>1 DEF SrvMsgs
  <2>3. socks[h].of = c BY <1>1, <2>1 DEF HandleInv, HandlesNotConfused
  <2>4. conn[h] = c BY <1>1, <2>2, <2>3 DEF HandleInv
  <2>5. UpFits(c, p) BY <1>1, <2>1, <2>2 DEF TokenInv, ClientInv, TokenFits
  <2>6. p.type \in {"asym", "sym", "user", "rubbish"} BY <2>2 DEF Packets
  <2> SUFFICES InStep(c, socks[h], p) OBVIOUS
  <2> HIDE DEF m, h, c, p
  <2>7. \A st : Reached(c, st) => socks[h].dec = SrvCiphers(c, st).dec
    BY <1>1, <2>2, <2>4 DEF Reached, h, m
  <2>8. CASE p.type = "asym"
    BY <2>5, <2>7, <2>8 DEF UpFits, SrvCiphers, InStep, Legible
  <2>9. CASE p.type = "sym"
    <3>1. c \in Secure /\ p.cipher = Asym("server") /\ socks[h].dec = SrvCiphers(c, "asym").dec
      BY <2>5, <2>7, <2>9 DEF UpFits, Reached
    <3> QED BY <3>1 DEF SrvCiphers, InStep, Legible
  <2>10. CASE p.type = "user"
    <3>1. p.cipher = CliCiphers(c, "user").enc /\ socks[h].dec = SrvCiphers(c, "user").dec
      BY <2>5, <2>7, <2>10 DEF UpFits
    <3>2. CASE c \notin Knows BY <2>10, <3>2 DEF InStep
    <3>3. CASE c \in Knows
      <4>1. Code(c) = SrvCode BY <3>3 DEF Code
      <4>2. CliCiphers(c, "user").enc = SrvCiphers(c, "user").dec BY <4>1 DEF CliCiphers, SrvCiphers
      <4> QED BY <3>1, <4>2 DEF InStep, Legible
    <3> QED BY <3>2, <3>3
  <2>11. CASE p.type = "rubbish" BY <2>11 DEF InStep
  <2> QED BY <2>6, <2>8, <2>9, <2>10, <2>11
<1>2. ASSUME NEW c \in Clients, cq[c] # <<>>, Head(cq[c]).cmd = "READ", csocks[c] # None
      PROVE  InStep(c, csocks[c], Head(cq[c]).pkt)
  <2> DEFINE m == Head(cq[c])
             p == m.pkt
  <2>1. 1 \in DOMAIN cq[c] /\ cq[c][1] = m /\ m \in CliMsgs BY <1>2 DEF TypeOK
  <2>2. p \in Packets BY <1>2, <2>1 DEF CliMsgs
  <2>3. NoteFits(c, m) BY <2>1 DEF TokenInv, ClientInv, TokenFits
  <2>5. DownFits(c, p) BY <1>2, <2>3 DEF NoteFits
  <2>6. p.type \in {"asym", "sym", "user", "rubbish"} BY <2>2 DEF Packets
  <2> SUFFICES InStep(c, csocks[c], p) OBVIOUS
  <2> HIDE DEF m, p
  <2>7. \A st : Reached(c, st) => csocks[c].dec = CliCiphers(c, st).dec BY <1>2 DEF Reached
  <2>8. CASE p.type = "asym"
    BY <2>5, <2>7, <2>8 DEF DownFits, CliCiphers, InStep, Legible
  <2>9. CASE p.type = "sym"
    <3>1. c \in Secure /\ p.cipher = Asym(c) /\ csocks[c].dec = CliCiphers(c, "half sym").dec
      BY <2>5, <2>7, <2>9 DEF DownFits, Reached
    <3> QED BY <3>1 DEF CliCiphers, InStep, Legible
  <2>10. CASE p.type = "user"
    <3>1. p.cipher = SrvCiphers(c, "user").enc /\ csocks[c].dec = CliCiphers(c, "user").dec
      BY <2>5, <2>7, <2>10 DEF DownFits
    <3>2. CASE c \notin Knows BY <2>10, <3>2 DEF InStep
    <3>3. CASE c \in Knows
      <4>1. Code(c) = SrvCode BY <3>3 DEF Code
      <4>2. SrvCiphers(c, "user").enc = CliCiphers(c, "user").dec BY <4>1 DEF CliCiphers, SrvCiphers
      <4> QED BY <3>1, <4>2 DEF InStep, Legible
    <3> QED BY <3>2, <3>3
  <2>11. CASE p.type = "rubbish" BY <2>11 DEF InStep
  <2> QED BY <2>6, <2>8, <2>9, <2>10, <2>11
<1> QED BY <1>1, <1>2 DEF CiphersInStep

\* A finished download is the whole file.
LEMMA TokenWhole == TokenInv => DownloadWhole
BY DEF TokenInv, ClientInv, Downloaded, DownloadWhole

-----------------------------------------------------------------------------
(* Without torn packets the server survives                                *)

\* CutInv said of values: q is the server's queue, k its listeners, life whether
\* its selector lives, D the handles from which nothing more will come, and Z the
\* connections that a stale answer of select() has disconnected.
NoRubbish(q) == \A i \in DOMAIN q : q[i].type # "rubbish"
ReadsOK(q, k, life, Z) ==
    \A i \in DOMAIN q : q[i].cmd = "READ" =>
        /\ q[i].pkt.type # "rubbish"
        /\ life # "gone" => k[q[i].sock] # None \/ q[i].of \in Z
CutsOK(q, k, D, Z) ==
    \A i \in DOMAIN q : q[i].cmd = "DISCONNECT" /\ q[i].of \notin Z =>
        /\ \A j \in DOMAIN q : j > i /\ q[j].cmd = "READ" => q[j].sock # q[i].sock
        /\ k[q[i].sock] # None => q[i].sock \in D
Silent == {h \in Handles : SrvCut(conn[h]) /\ up[conn[h]] = <<>>}
NetOK  == \A c \in Clients : NoRubbish(up[c]) /\ NoRubbish(down[c]) /\ (csocks[c] # None => c \in copen)

\* The handle of a READ or DISCONNECT.
LEMMA QueueHandles ==
    ASSUME NEW q \in Seq(SrvMsgs)
    PROVE  \A i \in DOMAIN q : q[i] \in SrvMsgs /\ (q[i].cmd \in {"ACCEPT", "READ", "DISCONNECT"} => q[i].sock \in Handles)
<1>1. \A i \in DOMAIN q : q[i] \in SrvMsgs OBVIOUS
<1> QED BY <1>1 DEF SrvMsgs

\* The same as CutInv.
LEMMA CutParts ==
    ASSUME TypeOK
    PROVE  CutInv <=> /\ NetOK /\ ServerSurvives
                      /\ ReadsOK(sq, socks, slife, strays) /\ CutsOK(sq, socks, Silent, strays)
<1>1. \A i \in DOMAIN sq : sq[i].cmd \in {"ACCEPT", "READ", "DISCONNECT"} => sq[i].sock \in Handles
  BY QueueHandles DEF TypeOK
<1>2. CutsOK(sq, socks, Silent, strays) <=>
        \A i \in DOMAIN sq : sq[i].cmd = "DISCONNECT" /\ sq[i].of \notin strays =>
            /\ \A j \in DOMAIN sq : j > i /\ sq[j].cmd = "READ" => sq[j].sock # sq[i].sock
            /\ socks[sq[i].sock] # None => SrvCut(conn[sq[i].sock]) /\ up[conn[sq[i].sock]] = <<>>
  BY <1>1 DEF CutsOK, Silent
<1> QED BY <1>2 DEF CutInv, NetOK, NoRubbish, ReadsOK

\* The same one step later.
LEMMA CutPartsPrime ==
    ASSUME TypeOK', NetOK', ReadsOK(sq', socks', slife', strays'), CutsOK(sq', socks', Silent', strays'),
           ServerSurvives'
    PROVE  CutInv'
<1>1. \A i \in DOMAIN sq' : sq'[i].cmd \in {"ACCEPT", "READ", "DISCONNECT"} => sq'[i].sock \in Handles
  BY QueueHandles DEF TypeOK
<1>2. \A i \in DOMAIN sq' : sq'[i].cmd = "DISCONNECT" /\ sq'[i].of \notin strays' =>
            /\ \A j \in DOMAIN sq' : j > i /\ sq'[j].cmd = "READ" => sq'[j].sock # sq'[i].sock
            /\ socks'[sq'[i].sock] # None => SrvCut(conn[sq[i].sock])' /\ up'[conn'[sq'[i].sock]] = <<>>
  BY <1>1 DEF CutsOK, Silent, SrvCut
<1> QED BY <1>2 DEF CutInv, NetOK, NoRubbish, ReadsOK, SrvCut

\* The queue without its head.
LEMMA CutTail ==
    ASSUME NEW q \in Seq(SrvMsgs), q # <<>>, NEW k, NEW life, NEW D, NEW Z
    PROVE  /\ ReadsOK(q, k, life, Z) => ReadsOK(Tail(q), k, life, Z)
           /\ CutsOK(q, k, D, Z) => CutsOK(Tail(q), k, D, Z)
<1> DEFINE t == Tail(q)
<1>1. \A i \in DOMAIN t : i + 1 \in DOMAIN q /\ t[i] = q[i + 1] /\ i \in Int OBVIOUS
<1>2. \A i, j \in DOMAIN t : j > i => j + 1 > i + 1 BY <1>1
<1> HIDE DEF t
<1>3. ReadsOK(q, k, life, Z) => ReadsOK(t, k, life, Z) BY <1>1 DEF ReadsOK
<1>4. ASSUME CutsOK(q, k, D, Z) PROVE CutsOK(t, k, D, Z)
  <2> SUFFICES ASSUME NEW i \in DOMAIN t, t[i].cmd = "DISCONNECT", t[i].of \notin Z
               PROVE  /\ \A j \in DOMAIN t : j > i /\ t[j].cmd = "READ" => t[j].sock # t[i].sock
                      /\ k[t[i].sock] # None => t[i].sock \in D
    BY DEF CutsOK
  <2>1. i + 1 \in DOMAIN q /\ q[i + 1].cmd = "DISCONNECT" /\ q[i + 1].of \notin Z /\ t[i] = q[i + 1] BY <1>1
  <2>2. k[t[i].sock] # None => t[i].sock \in D BY <1>4, <2>1 DEF CutsOK
  <2>3. ASSUME NEW j \in DOMAIN t, j > i, t[j].cmd = "READ" PROVE t[j].sock # t[i].sock
    <3>1. j + 1 \in DOMAIN q /\ q[j + 1] = t[j] /\ j + 1 > i + 1 BY <1>1, <1>2, <2>3
    <3> QED BY <1>4, <2>1, <2>3, <3>1 DEF CutsOK
  <2> QED BY <2>2, <2>3
<1> QED BY <1>3, <1>4 DEF t

\* A message is posted: a READ only for a handle from which more may come.
LEMMA CutAppend ==
    ASSUME NEW q \in Seq(SrvMsgs), NEW m \in SrvMsgs, NEW k, NEW life, NEW D, NEW Z,
           ReadsOK(q, k, life, Z), CutsOK(q, k, D, Z),
           m.cmd = "READ" => m.pkt.type # "rubbish" /\ k[m.sock] # None /\ m.sock \notin D,
           m.cmd = "DISCONNECT" => m.of \in Z \/ (k[m.sock] # None => m.sock \in D)
    PROVE  ReadsOK(Append(q, m), k, life, Z) /\ CutsOK(Append(q, m), k, D, Z)
<1> DEFINE r == Append(q, m)
<1>1. /\ DOMAIN r = 1 .. (Len(q) + 1) /\ DOMAIN q = 1 .. Len(q) /\ Len(q) \in Nat
      /\ \A i \in DOMAIN q : r[i] = q[i]
      /\ r[Len(q) + 1] = m
  OBVIOUS
<1> HIDE DEF r
<1>2. \A i \in DOMAIN r : i = Len(q) + 1 \/ i \in DOMAIN q BY <1>1
<1>3. ReadsOK(r, k, life, Z) BY <1>1, <1>2 DEF ReadsOK
<1>4. ASSUME NEW i \in DOMAIN r, r[i].cmd = "DISCONNECT", r[i].of \notin Z
      PROVE  /\ \A j \in DOMAIN r : j > i /\ r[j].cmd = "READ" => r[j].sock # r[i].sock
             /\ k[r[i].sock] # None => r[i].sock \in D
  <2>1. CASE i = Len(q) + 1
    <3>1. \A j \in DOMAIN r : ~(j > i) BY <1>1, <2>1
    <3> QED BY <1>1, <1>4, <2>1, <3>1
  <2>2. CASE i \in DOMAIN q
    <3>1. q[i].cmd = "DISCONNECT" /\ q[i].of \notin Z /\ r[i] = q[i] BY <1>1, <1>4, <2>2
    <3>2. k[q[i].sock] # None => q[i].sock \in D BY <2>2, <3>1 DEF CutsOK
    <3>3. ASSUME NEW j \in DOMAIN r, j > i, r[j].cmd = "READ" PROVE r[j].sock # r[i].sock
      <4>1. CASE j \in DOMAIN q BY <1>1, <2>2, <3>1, <3>3, <4>1 DEF CutsOK
      <4>2. CASE j = Len(q) + 1
        <5>1. r[j] = m BY <1>1, <4>2
        <5> QED BY <3>1, <3>2, <3>3, <5>1
      <4> QED BY <1>2, <4>1, <4>2
    <3> QED BY <3>1, <3>2, <3>3
  <2> QED BY <1>2, <2>1, <2>2
<1>5. CutsOK(r, k, D, Z) BY <1>4 DEF CutsOK
<1> QED BY <1>3, <1>5 DEF r

\* The listeners or the silent handles change.
LEMMA CutChange ==
    ASSUME NEW q, NEW k, NEW life, NEW D, NEW Z, ReadsOK(q, k, life, Z), CutsOK(q, k, D, Z),
           NEW k2, NEW life2, NEW D2,
           \A i \in DOMAIN q : q[i].cmd = "READ" /\ life2 # "gone" =>
               life # "gone" /\ (k[q[i].sock] # None => k2[q[i].sock] # None \/ q[i].of \in Z),
           \A i \in DOMAIN q : q[i].cmd = "DISCONNECT" /\ q[i].of \notin Z /\ k2[q[i].sock] # None =>
               k[q[i].sock] # None /\ (q[i].sock \in D => q[i].sock \in D2)
    PROVE  ReadsOK(q, k2, life2, Z) /\ CutsOK(q, k2, D2, Z)
<1>1. ReadsOK(q, k2, life2, Z) BY DEF ReadsOK
<1>2. CutsOK(q, k2, D2, Z) BY DEF CutsOK
<1> QED BY <1>1, <1>2

\* A step outside the server: a silent handle stays silent.
LEMMA OutsideCuts ==
    ASSUME TypeOK, TypeOK', HandleInv, CutInv, UNCHANGED <<conn, socks, sq, slife, strays>>, NetOK',
           \A h \in Handles : socks[h] # None /\ SrvCut(conn[h]) /\ up[conn[h]] = <<>> =>
               SrvCut(conn[h])' /\ up'[conn[h]] = <<>>
    PROVE  CutInv'
<1>1. ReadsOK(sq, socks, slife, strays) /\ CutsOK(sq, socks, Silent, strays) /\ ServerSurvives BY CutParts
<1>2. \A i \in DOMAIN sq : sq[i].cmd \in {"ACCEPT", "READ", "DISCONNECT"} => sq[i].sock \in Handles
  BY QueueHandles DEF TypeOK
<1>3. \A h \in Handles : socks[h] # None /\ h \in Silent => h \in Silent' BY DEF Silent
<1>4. ReadsOK(sq, socks, slife, strays) /\ CutsOK(sq, socks, Silent', strays) BY <1>1, <1>2, <1>3, CutChange
<1>5. ServerSurvives' BY <1>1 DEF ServerSurvives
<1> QED BY <1>4, <1>5, CutPartsPrime

\* Streams without rubbish.
LEMMA CleanStreams ==
    ASSUME NEW q \in Seq(Packets), NoRubbish(q)
    PROVE  /\ q # <<>> => NoRubbish(Tail(q)) /\ Head(q).type # "rubbish"
           /\ \A p \in Packets : p.type # "rubbish" => NoRubbish(Append(q, p))
           /\ NoRubbish(<<>>)
           /\ ~Holds(q, UpTokens) => q = <<>>
<1>1. ASSUME q # <<>> PROVE NoRubbish(Tail(q)) /\ Head(q).type # "rubbish"
  <2> DEFINE t == Tail(q)
  <2>1. \A i \in DOMAIN t : i + 1 \in DOMAIN q /\ t[i] = q[i + 1] BY <1>1
  <2>2. 1 \in DOMAIN q /\ Head(q) = q[1] BY <1>1
  <2> HIDE DEF t
  <2>3. NoRubbish(t) /\ Head(q).type # "rubbish" BY <2>1, <2>2 DEF NoRubbish
  <2> QED BY <2>3 DEF t
<1>2. ASSUME NEW p \in Packets, p.type # "rubbish" PROVE NoRubbish(Append(q, p))
  <2>1. \A i \in DOMAIN Append(q, p) : Append(q, p)[i] = p \/ \E j \in DOMAIN q : q[j] = Append(q, p)[i]
    BY AppendHas
  <2> QED BY <1>2, <2>1 DEF NoRubbish
<1>3. NoRubbish(<<>>) BY DEF NoRubbish
<1>4. ASSUME q # <<>> PROVE Holds(q, UpTokens)
  <2>1. 1 \in DOMAIN q /\ q[1] \in Packets BY <1>4
  <2>2. q[1] \in UpTokens BY <2>1 DEF NoRubbish, UpTokens
  <2> QED BY <2>1, <2>2 DEF Holds
<1> QED BY <1>1, <1>2, <1>3, <1>4

\* Connecting: a client that connects is nowhere at the server yet.
LEMMA ConnectCuts ==
    ASSUME TypeOK, TypeOK', HandleInv, TokenInv, CutInv, NEW c \in Clients, OnConnectBegin(c)
    PROVE  CutInv'
<1>1. NetOK BY CutParts
<1>2. UNCHANGED <<conn, socks, sq, slife, strays, up, down, reset>> BY DEF OnConnectBegin, selector
<1>3. \A x \in Clients : x # c => csocks'[x] = csocks[x] BY DEF OnConnectBegin, TypeOK
<1>4. copen' = copen \cup {c} BY DEF OnConnectBegin
<1>5. NetOK' BY <1>1, <1>2, <1>3, <1>4 DEF NetOK, NoRubbish
<1>6. \A h \in Handles : conn[h] # c
  <2>1. cq[c] # <<>> /\ Head(cq[c]) \in CliTokens /\ Head(cq[c]).cmd = "CONNECT_BEGIN"
    BY Handled DEF OnConnectBegin
  <2>2. ClientInv(c) BY DEF TokenInv
  <2>3. NoteOK(c, StagesOf(c), FileOf(c), Head(cq[c])) BY <2>1, <2>2, CliTakes
  <2> QED BY <2>1, <2>3 DEF NoteOK, StagesOf, Reached
<1>7. \A h \in Handles : SrvCut(conn[h]) => SrvCut(conn[h])' BY <1>2, <1>4, <1>6 DEF SrvCut
<1> QED BY <1>2, <1>5, <1>7, OutsideCuts

\* Sending: what is sent reaches a stream only where neither end is cut.
LEMMA SendCuts ==
    ASSUME TypeOK, TypeOK', HandleInv, CutInv, NEW c \in Clients, OnExchange(c) \/ OnRecvFileReq(c)
    PROVE  CutInv'
<1>0. up \in [Clients -> Seq(Packets)] BY DEF TypeOK
<1>1. NetOK BY CutParts
<1>2. UNCHANGED <<conn, socks, sq, slife, strays, down, csocks, copen, reset>>
  BY DEF OnExchange, OnRecvFileReq, server, selector
<1>3. PICK t \in {"asym", "sym", "user"}, n \in Nat : CliSends(c, t, n) /\ csocks[c] # None
  <2>1. filePos[c] \in Nat BY DEF TypeOK
  <2> QED BY <2>1 DEF OnExchange, OnRecvFileReq, CliMaySend
<1> DEFINE p == Packet(t, csocks[c].enc, "ok", n)
<1>4. p \in Packets /\ p.type # "rubbish"
  <2>1. csocks[c].enc \in Ciphers BY <1>3 DEF TypeOK, Listeners
  <2>2. p.type = t BY DEF Packet
  <2> QED BY <2>1, <2>2, PacketTypes
<1>5. up' = up \/ (~CliCut(c) /\ up' = [up EXCEPT ![c] = Append(@, p)]) BY <1>3 DEF CliSends
<1> HIDE DEF p
<1>6. \A x \in Clients : up'[x] = up[x] \/ (x = c /\ ~CliCut(c) /\ up'[x] = Append(up[x], p)) BY <1>0, <1>5
<1>7. NetOK'
  <2>1. ASSUME NEW x \in Clients PROVE NoRubbish(up'[x])
    <3>1. NoRubbish(up[x]) /\ up[x] \in Seq(Packets) BY <1>0, <1>1 DEF NetOK
    <3>2. NoRubbish(Append(up[x], p)) BY <1>4, <3>1, CleanStreams
    <3> QED BY <1>6, <3>1, <3>2
  <2> QED BY <1>1, <1>2, <2>1 DEF NetOK, NoRubbish
<1>8. ~CliCut(c) => ~SrvCut(c) BY <1>1, <1>3 DEF NetOK, CliCut, SrvCut
<1>9. \A h \in Handles : socks[h] # None => conn[h] \in Clients BY DEF HandleInv, TypeOK, Listeners
<1>10. \A x \in Clients : SrvCut(x) => SrvCut(x)' /\ up'[x] = up[x] BY <1>2, <1>6, <1>8 DEF SrvCut
<1>11. \A h \in Handles : socks[h] # None /\ SrvCut(conn[h]) /\ up[conn[h]] = <<>> =>
               SrvCut(conn[h])' /\ up'[conn[h]] = <<>>
  <2> SUFFICES ASSUME NEW h \in Handles, socks[h] # None, SrvCut(conn[h]), up[conn[h]] = <<>>
               PROVE  SrvCut(conn[h])' /\ up'[conn[h]] = <<>>
    OBVIOUS
  <2>1. up'[conn[h]] = up[conn[h]] BY <1>9, <1>10
  <2>2. SrvCut(conn[h])' BY <1>2 DEF SrvCut
  <2> QED BY <2>1, <2>2
<1> QED BY <1>2, <1>7, <1>11, OutsideCuts

\* Reading, resetting and closing.
LEMMA StreamCuts ==
    ASSUME TypeOK, TypeOK', HandleInv, CutInv, NEW c \in Clients,
           CliRecv(c) \/ Reset(c) \/ CliOnDisconnect(c) \/ CliOnFini(c)
    PROVE  CutInv'
<1>0. /\ up \in [Clients -> Seq(Packets)] /\ down \in [Clients -> Seq(Packets)]
      /\ csocks \in [Clients -> Listeners \cup {None}]
  BY DEF TypeOK
<1>1. NetOK BY CutParts
<1>2. UNCHANGED <<conn, socks, sq, slife, strays>>
  BY DEF CliRecv, Reset, CliOnDisconnect, CliOnFini, server, selector
<1>3. ASSUME NEW x \in Clients
      PROVE  /\ up'[x] = up[x] \/ up'[x] = <<>>
             /\ down'[x] = down[x] \/ down'[x] = <<>> \/ (down[x] # <<>> /\ down'[x] = Tail(down[x]))
  <2>1. CASE CliRecv(c) BY <1>0, <2>1 DEF CliRecv
  <2>2. CASE Reset(c) BY <1>0, <2>2 DEF Reset
  <2>3. CASE CliOnDisconnect(c) \/ CliOnFini(c) BY <2>3 DEF CliOnDisconnect, CliOnFini
  <2> QED BY <2>1, <2>2, <2>3
<1>4. /\ reset \subseteq reset' /\ copen' \subseteq copen
      /\ \A x \in Clients : (csocks'[x] = csocks[x] /\ (x \in copen => x \in copen')) \/ csocks'[x] = None
  <2>1. CASE CliRecv(c) \/ Reset(c) BY <2>1 DEF CliRecv, Reset, client, file
  <2>2. CASE CliOnDisconnect(c) \/ CliOnFini(c) BY <1>0, <2>2 DEF CliOnDisconnect, CliOnFini
  <2> QED BY <2>1, <2>2
<1>5. ASSUME NEW x \in Clients
      PROVE  NoRubbish(up'[x]) /\ NoRubbish(down'[x]) /\ (csocks'[x] # None => x \in copen')
  <2>1. NoRubbish(up[x]) /\ NoRubbish(down[x]) /\ up[x] \in Seq(Packets) /\ down[x] \in Seq(Packets)
    BY <1>0, <1>1 DEF NetOK
  <2>2. NoRubbish(<<>>) BY DEF NoRubbish
  <2>3. down[x] # <<>> => NoRubbish(Tail(down[x])) BY <2>1, CleanStreams
  <2>4. csocks'[x] # None => x \in copen' BY <1>1, <1>4 DEF NetOK
  <2> QED BY <1>3, <2>1, <2>2, <2>3, <2>4
<1>6. NetOK' BY <1>5 DEF NetOK, NoRubbish
<1>7. \A h \in Handles : socks[h] # None => conn[h] \in Clients BY DEF HandleInv, TypeOK, Listeners
<1>8. \A h \in Handles : socks[h] # None /\ SrvCut(conn[h]) /\ up[conn[h]] = <<>> =>
               SrvCut(conn[h])' /\ up'[conn[h]] = <<>>
  BY <1>2, <1>3, <1>4, <1>7 DEF SrvCut
<1> QED BY <1>2, <1>6, <1>8, OutsideCuts

\* Every step of a client and of the network.
LEMMA ClientCuts ==
    ASSUME TypeOK, TypeOK', HandleInv, TokenInv, CutInv, ~Tears, NEW c \in Clients,
           CliLoop(c) \/ CliSelect(c) \/ CliStop(c) \/ Reset(c)
    PROVE  CutInv'
<1>1. CASE OnConnectBegin(c) BY <1>1, ConnectCuts
<1>2. CASE OnExchange(c) \/ OnRecvFileReq(c) BY <1>2, SendCuts
<1>3. CASE CliRecv(c) \/ Reset(c) \/ CliOnDisconnect(c) \/ CliOnFini(c) BY <1>3, StreamCuts
<1>4. ASSUME UNCHANGED <<conn, socks, sq, slife, strays, up, down, copen, reset>>,
             \A x \in Clients : csocks'[x] # None => csocks[x] # None
      PROVE  CutInv'
  <2>1. NetOK BY CutParts
  <2>2. NetOK' BY <1>4, <2>1 DEF NetOK, NoRubbish
  <2>3. \A h \in Handles : SrvCut(conn[h]) => SrvCut(conn[h])' BY <1>4 DEF SrvCut
  <2> QED BY <1>4, <2>2, <2>3, OutsideCuts
<1>5. CASE CliReadAsym(c) \/ CliReadSym(c)
  <2>1. csocks[c] # None BY <1>5 DEF CliReadAsym, CliReadSym, CliReads
  <2>2. \A x \in Clients : x # c => csocks'[x] = csocks[x] BY <1>5 DEF CliReadAsym, CliReadSym, TypeOK
  <2>3. UNCHANGED <<conn, socks, sq, slife, strays, up, down, copen, reset>>
    BY <1>5 DEF CliReadAsym, CliReadSym, server, selector, net
  <2> QED BY <1>4, <2>1, <2>2, <2>3
<1>6. CASE OnConnectAdded(c) \/ OnConnectRefused(c) \/ OnConnectFailed(c) \/ OnConnectEnd(c)
           \/ OnUserStart(c) \/ CliSkips(c)
  <2>1. UNCHANGED <<conn, socks, sq, slife, strays, up, down, copen, reset, csocks>>
    BY <1>6 DEF OnConnectAdded, OnConnectRefused, OnConnectFailed, OnConnectEnd, OnUserStart,
                CliSkips, server, selector, net
  <2> QED BY <1>4, <2>1
<1>7. CASE CliDropRead(c) \/ CliReadUser(c) \/ CliNoFile(c) \/ CliNullPointer(c) \/ CliRecvFails(c)
           \/ CliStop(c)
  <2>1. UNCHANGED <<conn, socks, sq, slife, strays, up, down, copen, reset, csocks>>
    BY <1>7 DEF CliDropRead, CliReadUser, CliNoFile, CliNullPointer, CliRecvFails, CliStop, server,
                selector, net
  <2> QED BY <1>4, <2>1
<1>8. ~CliRecvBad(c) BY DEF CliRecvBad
<1> QED BY <1>1, <1>2, <1>3, <1>5, <1>6, <1>7, <1>8 DEF CliLoop, CliSelect

\* The server never finds a packet its certificate cannot open: what it reads is
\* in step, and a visit code that is wrong is found out under the symmetric ciphers.
LEMMA NeverRefused ==
    ASSUME TypeOK, HandleInv, TokenInv, CutInv, SrvHas("READ"), socks[Head(sq).sock] # None
    PROVE  ~Refused(socks[Head(sq).sock], Head(sq).pkt)
<1> DEFINE m == Head(sq)
           h == m.sock
           c == m.of
           p == m.pkt
<1>0. sq # <<>> /\ m.cmd = "READ" BY DEF SrvHas
<1>1. 1 \in DOMAIN sq /\ sq[1] = m /\ m \in SrvMsgs BY <1>0 DEF TypeOK
<1>2. h \in Handles /\ c \in Clients /\ p \in Packets BY <1>0, <1>1 DEF SrvMsgs
<1>3. socks[h].of = c BY <1>0, <1>1 DEF HandleInv, HandlesNotConfused
<1>4. conn[h] = c BY <1>2, <1>3 DEF HandleInv
<1>5. UpFits(c, p) BY <1>0, <1>1, <1>2 DEF TokenInv, ClientInv, TokenFits
<1>6. InStep(c, socks[h], p) BY <1>0, TokenInStep DEF CiphersInStep
<1>7. p.type # "rubbish" BY <1>0, <1>1 DEF CutInv
<1>8. CASE Legible(socks[h], p) BY <1>8 DEF Legible, Refused
<1>9. CASE p.type = "user"
  <2>1. socks[h].dec = SrvCiphers(c, "user").dec BY <1>2, <1>4, <1>5, <1>9 DEF UpFits, Reached
  <2>2. SrvCiphers(c, "user").dec \in {Clear, Random, SymKey("up", c, SrvCode)} BY DEF SrvCiphers
  <2>3. Random[1] = "random" /\ SymKey("up", c, SrvCode)[1] = "sym" BY DEF Random, SymKey
  <2> QED BY <2>1, <2>2, <2>3 DEF Refused
<1> QED BY <1>6, <1>7, <1>8, <1>9 DEF InStep

\* What a step of the server leaves of the packets and of the handles it cannot hear.
LEMMA NetKept ==
    ASSUME CutInv, TypeOK, UNCHANGED <<up, down, csocks, copen>>
    PROVE  NetOK'
<1>1. NetOK BY CutParts
<1> QED BY <1>1 DEF NetOK, NoRubbish

\* The server's selector.
LEMMA SelectCuts ==
    ASSUME TypeOK, TypeOK', HandleInv, CutInv, ~Tears, NEW h \in Handles, SrvSelect(h)
    PROVE  CutInv'
<1>0. /\ sq \in Seq(SrvMsgs) /\ up \in [Clients -> Seq(Packets)] /\ backlog \in Seq(Clients)
      /\ conn \in [Handles -> Clients \cup {None}]
  BY DEF TypeOK
<1>1. NetOK /\ ReadsOK(sq, socks, slife, strays) /\ CutsOK(sq, socks, Silent, strays) BY CutParts
<1>2. \A i \in DOMAIN sq : sq[i].cmd \in {"ACCEPT", "READ", "DISCONNECT"} => sq[i].sock \in Handles
  BY <1>0, QueueHandles
<1>8. \A k \in Handles : socks[k] # None => conn[k] \in Clients BY DEF HandleInv, TypeOK, Listeners
<1>9. ServerSurvives'
  BY DEF SrvSelect, SrvAccept, SrvReadGone, SrvRecv, SrvRecvFails, SrvRecvBad, Visits, SrvSelects,
         ServerSurvives
<1>3. CASE SrvAccept(h)
  <2> DEFINE m == SrvMsg("ACCEPT", h, Head(backlog), None)
  <2>1. Head(backlog) \in Clients BY <1>0, <1>3 DEF SrvAccept
  <2>2. m \in SrvMsgs /\ m.cmd = "ACCEPT" BY <2>1, SrvMsgTypes DEF SrvMsg
  <2>3. /\ sq' = Append(sq, m) /\ conn[h] = None /\ conn' = [conn EXCEPT ![h] = Head(backlog)]
        /\ UNCHANGED <<socks, slife, strays, up, down, csocks, copen, reset>>
    BY <1>3 DEF SrvAccept, net, client
  <2> HIDE DEF m
  <2>4. ReadsOK(sq', socks, slife, strays) /\ CutsOK(sq', socks, Silent, strays) BY <1>0, <1>1, <2>2, <2>3, CutAppend
  <2>5. socks[h] = None
    <3>1. socks[h] # None => socks[h].of \in Clients BY DEF TypeOK, Listeners
    <3> QED BY <2>3, <3>1, LinkAssumption DEF HandleInv
  <2>6. \A k \in Handles : socks[k] # None /\ k \in Silent => k \in Silent'
    <3>1. \A k \in Handles : k # h => conn'[k] = conn[k] BY <1>0, <2>3
    <3> QED BY <2>3, <2>5, <3>1 DEF Silent, SrvCut
  <2>7. \A i \in DOMAIN sq' : sq'[i].cmd \in {"ACCEPT", "READ", "DISCONNECT"} => sq'[i].sock \in Handles
    BY QueueHandles DEF TypeOK
  <2>8. ReadsOK(sq', socks, slife, strays) /\ CutsOK(sq', socks, Silent', strays) BY <2>4, <2>6, <2>7, CutChange
  <2>9. NetOK' BY <2>3, NetKept
  <2> QED BY <1>9, <2>3, <2>8, <2>9, CutPartsPrime
<1>4. CASE SrvRecv(h)
  <2> DEFINE b == conn[h]
             p == Head(up[b])
             m == SrvMsg("READ", h, b, p)
  <2>1. b \in Clients /\ up[b] # <<>> BY <1>4, <1>8 DEF SrvRecv
  <2>2. /\ sq' = Append(sq, m) /\ socks[h] # None
        /\ UNCHANGED <<conn, socks, slife, strays, down, csocks, copen, reset>>
        /\ up' = [up EXCEPT ![b] = Tail(up[b])]
    BY <1>4 DEF SrvRecv, client
  <2>3. p \in Packets /\ up[b] \in Seq(Packets) BY <1>0, <2>1
  <2>4. m \in SrvMsgs /\ m.cmd = "READ" /\ m.sock = h /\ m.pkt = p BY <2>1, <2>3, SrvMsgTypes DEF SrvMsg
  <2>5. NoRubbish(Tail(up[b])) /\ p.type # "rubbish" BY <1>1, <2>1, <2>3, CleanStreams DEF NetOK
  <2>6. h \notin Silent BY <2>1 DEF Silent
  <2>7. \A x \in Clients : up'[x] = up[x] \/ (x = b /\ up[x] # <<>> /\ up'[x] = Tail(up[b])) BY <1>0, <2>1, <2>2
  <2>8. \A x \in Clients : up[x] = <<>> => up'[x] = <<>> BY <2>7
  <2> HIDE DEF m, p
  <2>10. ReadsOK(sq', socks, slife, strays) /\ CutsOK(sq', socks, Silent, strays)
    BY <1>0, <1>1, <2>2, <2>4, <2>5, <2>6, CutAppend
  <2>11. \A k \in Handles : socks[k] # None /\ k \in Silent => k \in Silent'
    BY <1>8, <2>2, <2>8 DEF Silent, SrvCut
  <2>12. \A i \in DOMAIN sq' : sq'[i].cmd \in {"ACCEPT", "READ", "DISCONNECT"} => sq'[i].sock \in Handles
    BY QueueHandles DEF TypeOK
  <2>13. ReadsOK(sq', socks, slife, strays) /\ CutsOK(sq', socks, Silent', strays) BY <2>10, <2>11, <2>12, CutChange
  <2>14. NetOK'
    <3>1. \A x \in Clients : NoRubbish(up'[x]) BY <1>1, <2>5, <2>7 DEF NetOK
    <3> QED BY <1>1, <2>2, <3>1 DEF NetOK, NoRubbish
  <2> QED BY <1>9, <2>2, <2>13, <2>14, CutPartsPrime
<1>5. CASE SrvRecvFails(h)
  <2> DEFINE b == conn[h]
             m == SrvMsg("DISCONNECT", h, b, None)
  <2>1. b \in Clients BY <1>5, <1>8 DEF SrvRecvFails
  <2>2. /\ sq' = Append(sq, m) /\ up[b] = <<>> /\ strays' = IF SrvCut(b) THEN strays ELSE strays \cup {b}
        /\ UNCHANGED <<conn, socks, slife, up, down, csocks, copen, reset>>
    BY <1>5 DEF SrvRecvFails, client, net
  <2>3. m \in SrvMsgs /\ m.cmd = "DISCONNECT" /\ m.sock = h /\ m.of = b
    BY <2>1, SrvMsgTypes DEF SrvMsg
  <2>4. b \in strays' \/ h \in Silent BY <2>2 DEF Silent
  <2> HIDE DEF m
  <2>5. ReadsOK(sq, socks, slife, strays') /\ CutsOK(sq, socks, Silent, strays')
    <3>1. strays \subseteq strays' BY <2>2
    <3>2. ReadsOK(sq, socks, slife, strays') BY <1>1, <3>1 DEF ReadsOK
    <3>3. CutsOK(sq, socks, Silent, strays') BY <1>1, <3>1 DEF CutsOK
    <3> QED BY <3>2, <3>3
  <2>6. ReadsOK(sq', socks, slife, strays') /\ CutsOK(sq', socks, Silent, strays')
    BY <1>0, <2>2, <2>3, <2>4, <2>5, CutAppend
  <2>7. Silent' = Silent BY <2>2 DEF Silent, SrvCut
  <2>8. NetOK' BY <2>2, NetKept
  <2> QED BY <1>9, <2>2, <2>6, <2>7, <2>8, CutPartsPrime
<1>7. CASE SrvReadGone(h)
  <2>1. UNCHANGED <<conn, socks, sq, slife, strays, up, down, csocks, copen, reset>>
    BY <1>7 DEF SrvReadGone, client, net
  <2>2. NetOK' BY <2>1, NetKept
  <2>3. \A k \in Handles : SrvCut(conn[k]) => SrvCut(conn[k])' BY <2>1 DEF SrvCut
  <2> QED BY <2>1, <2>2, <2>3, OutsideCuts
<1>6. ~SrvRecvBad(h) BY DEF SrvRecvBad
<1> QED BY <1>3, <1>4, <1>5, <1>6, <1>7 DEF SrvSelect

\* Handlers of the server that touch no listener.
LEMMA PlainCuts ==
    ASSUME TypeOK, TypeOK', HandleInv, TokenInv, CutInv, OnListen \/ SrvDropRead \/ SrvNoListener \/ SrvStop
    PROVE  CutInv'
<1>0. sq \in Seq(SrvMsgs) BY DEF TypeOK
<1>1. NetOK /\ ReadsOK(sq, socks, slife, strays) /\ CutsOK(sq, socks, Silent, strays) BY CutParts
<1>2. UNCHANGED <<conn, socks, strays, up, down, csocks, copen, reset>>
  BY DEF OnListen, SrvDropRead, SrvNoListener, SrvStop, selector, net, client
<1>3. ~SrvNoListener => ServerSurvives'
  BY DEF OnListen, SrvDropRead, SrvStop, SrvHas, ServerSurvives
<1>4. Silent' = Silent BY <1>2 DEF Silent, SrvCut
<1>5. NetOK' BY <1>2, NetKept
<1>6. CASE SrvStop
  <2> DEFINE m == SrvMsg("FINI", None, None, None)
  <2>1. m \in SrvMsgs /\ m.cmd = "FINI" BY SrvMsgTypes DEF SrvMsg
  <2>2. sq' = Append(sq, m) /\ slife = "run" /\ slife' = "stopping" BY <1>6 DEF SrvStop
  <2> HIDE DEF m
  <2>3. ReadsOK(sq', socks, slife, strays) /\ CutsOK(sq', socks, Silent, strays) BY <1>0, <1>1, <2>1, <2>2, CutAppend
  <2>4. ReadsOK(sq', socks, slife', strays) BY <2>2, <2>3 DEF ReadsOK
  <2>5. ServerSurvives' BY <2>2 DEF ServerSurvives
  <2> QED BY <1>2, <1>4, <1>5, <2>3, <2>4, <2>5, CutPartsPrime
<1>7. CASE OnListen
  <2> DEFINE m == Head(sq)
             t == Tail(sq)
  <2>1. /\ sq # <<>> /\ m.cmd = "LISTEN" /\ (sq' = t \/ sq' = Append(t, m)) /\ slife' = slife
        /\ ServerSurvives'
    BY <1>7 DEF OnListen, SrvHas, Pop, ServerSurvives
  <2>2. m \in SrvMsgs /\ t \in Seq(SrvMsgs) BY <1>0, <2>1
  <2>3. ReadsOK(t, socks, slife, strays) /\ CutsOK(t, socks, Silent, strays) BY <1>0, <1>1, <2>1, CutTail
  <2> HIDE DEF m, t
  <2>4. ReadsOK(Append(t, m), socks, slife, strays) /\ CutsOK(Append(t, m), socks, Silent, strays)
    BY <2>1, <2>2, <2>3, CutAppend
  <2> QED BY <1>2, <1>4, <1>5, <2>1, <2>3, <2>4, CutPartsPrime
<1>8. CASE SrvDropRead
  <2>1. sq # <<>> /\ SrvHas("READ") /\ slife' = slife /\ ServerSurvives'
    BY <1>8 DEF SrvDropRead, SrvHas, ServerSurvives
  <2>2. sq' = Tail(sq) BY <1>8, <2>1, NeverRefused DEF SrvDropRead, Pop
  <2>3. ReadsOK(Tail(sq), socks, slife, strays) /\ CutsOK(Tail(sq), socks, Silent, strays) BY <1>0, <1>1, <2>1, CutTail
  <2> QED BY <1>2, <1>4, <1>5, <2>1, <2>2, <2>3, CutPartsPrime
<1>9. CASE SrvNoListener
  <2>1. sq # <<>> /\ Head(sq).cmd = "READ" /\ socks[Head(sq).sock] = None /\ slife # "gone" /\ sq' = sq
    BY <1>9 DEF SrvNoListener, SrvHas
  <2>2. 1 \in DOMAIN sq /\ sq[1] = Head(sq) BY <1>0, <2>1
  <2>3. Head(sq).of \in strays BY <1>1, <2>1, <2>2 DEF ReadsOK
  <2>4. ServerSurvives' BY <1>2, <2>1, <2>3 DEF ServerSurvives
  <2>5. ReadsOK(sq, socks, slife', strays) BY <1>1, <2>1 DEF ReadsOK
  <2> QED BY <1>1, <1>2, <1>4, <1>5, <2>1, <2>4, <2>5, CutPartsPrime
<1> QED BY <1>6, <1>7, <1>8, <1>9

\* A listener is added, handles are closed.
LEMMA HandleCuts ==
    ASSUME TypeOK, TypeOK', HandleInv, CutInv, OnSockAccept \/ SrvOnDisconnect \/ SrvOnFini
    PROVE  CutInv'
<1> DEFINE t == Tail(sq)
           h == Head(sq).sock
<1>0. /\ sq \in Seq(SrvMsgs) /\ sq # <<>> /\ t \in Seq(SrvMsgs) /\ sq' = t
      /\ conn \in [Handles -> Clients \cup {None}] /\ socks \in [Handles -> Listeners \cup {None}]
  BY DEF TypeOK, OnSockAccept, SrvOnDisconnect, SrvOnFini, SrvHas, Pop
<1>1. NetOK /\ ReadsOK(sq, socks, slife, strays) /\ CutsOK(sq, socks, Silent, strays) BY CutParts
<1>2. ReadsOK(t, socks, slife, strays) /\ CutsOK(t, socks, Silent, strays) BY <1>0, <1>1, CutTail
<1>3. UNCHANGED <<strays, up, down, csocks, copen, reset>> /\ ServerSurvives'
  BY DEF OnSockAccept, SrvOnDisconnect, SrvOnFini, SrvHas, ServerSurvives, selector, net, client
<1>4. NetOK' BY <1>3, NetKept
<1>5. 1 \in DOMAIN sq /\ sq[1] = Head(sq) /\ Head(sq) \in SrvMsgs BY <1>0
<1>6. \A i \in DOMAIN t : t[i] = sq[i + 1] /\ i + 1 \in DOMAIN sq /\ i + 1 > 1 BY <1>0
<1>7. \A i \in DOMAIN t : t[i].cmd \in {"ACCEPT", "READ", "DISCONNECT"} => t[i].sock \in Handles
  BY <1>0, QueueHandles
<1> HIDE DEF t, h
<1>8. CASE OnSockAccept
  <2>1. Head(sq).cmd = "ACCEPT" BY <1>8 DEF OnSockAccept, SrvHas
  <2>2. h \in Handles /\ Head(sq).of \in Clients BY <1>5, <2>1 DEF SrvMsgs, h
  <2>3. conn[h] \in Clients /\ \A i \in DOMAIN t : t[i].sock # h
    BY <1>5, <1>6, <2>1, <2>2 DEF HandleInv, h
  <2>4. /\ socks' = socks \/ socks' = [socks EXCEPT ![h] = NewListener(conn[h])]
        /\ slife' = slife /\ conn' = conn
    BY <1>8 DEF OnSockAccept, h
  <2>5. NewListener(conn[h]) # None
    <3>1. NewListener(conn[h]) \in Listeners BY <2>3, CipherTypes DEF NewListener, Listeners
    <3> QED BY <3>1, LinkAssumption
  <2>6. \A k \in Handles : /\ socks[k] # None => socks'[k] # None
                           /\ k # h => socks'[k] = socks[k]
    BY <1>0, <2>4, <2>5
  <2>7. Silent' = Silent BY <1>3, <2>4 DEF Silent, SrvCut
  <2>8. \A i \in DOMAIN t : t[i].cmd = "READ" => (socks[t[i].sock] # None => socks'[t[i].sock] # None)
    BY <1>7, <2>6
  <2>9. \A i \in DOMAIN t : t[i].cmd = "DISCONNECT" /\ socks'[t[i].sock] # None =>
            socks[t[i].sock] # None /\ (t[i].sock \in Silent => t[i].sock \in Silent')
    BY <1>7, <2>3, <2>6, <2>7
  <2>10. ReadsOK(t, socks', slife, strays) /\ CutsOK(t, socks', Silent', strays) BY <1>2, <2>8, <2>9, CutChange
  <2> QED BY <1>0, <1>3, <1>4, <2>4, <2>10, CutPartsPrime
<1>9. CASE SrvOnDisconnect
  <2>1. Head(sq).cmd = "DISCONNECT" /\ slife' = slife BY <1>9 DEF SrvOnDisconnect, SrvHas
  <2>2. ASSUME NEW i \in DOMAIN t, t[i].cmd = "READ", t[i].sock = h, socks[h] # None
        PROVE  t[i].of \in strays
    <3>1. socks[h].of = Head(sq).of BY <1>5, <2>1, <2>2 DEF HandleInv, HandlesNotConfused, h
    <3>2. socks[h].of = t[i].of BY <1>6, <2>2 DEF HandleInv, HandlesNotConfused
    <3>3. Head(sq).of \in strays BY <1>1, <1>5, <1>6, <2>1, <2>2 DEF CutsOK, h
    <3> QED BY <3>1, <3>2, <3>3
  <2>3. \/ UNCHANGED <<socks, conn>>
        \/ socks' = [socks EXCEPT ![h] = None] /\ conn' = [conn EXCEPT ![h] = None]
    BY <1>9 DEF SrvOnDisconnect, h
  <2>4. \A k \in Handles : /\ k # h => socks'[k] = socks[k] /\ conn'[k] = conn[k]
                           /\ socks'[k] # None => socks'[k] = socks[k] /\ conn'[k] = conn[k]
    BY <1>0, <2>3
  <2>5. \A k \in Handles : socks'[k] # None /\ k \in Silent => k \in Silent'
    BY <1>3, <2>4 DEF Silent, SrvCut
  <2>6. \A i \in DOMAIN t : t[i].cmd = "READ" =>
            (socks[t[i].sock] # None => socks'[t[i].sock] # None \/ t[i].of \in strays)
    BY <1>7, <2>2, <2>4
  <2>7. \A i \in DOMAIN t : t[i].cmd = "DISCONNECT" /\ socks'[t[i].sock] # None =>
            socks[t[i].sock] # None /\ (t[i].sock \in Silent => t[i].sock \in Silent')
    BY <1>7, <2>4, <2>5
  <2>8. ReadsOK(t, socks', slife, strays) /\ CutsOK(t, socks', Silent', strays) BY <1>2, <2>6, <2>7, CutChange
  <2> QED BY <1>0, <1>3, <1>4, <2>1, <2>8, CutPartsPrime
<1>10. CASE SrvOnFini
  <2>1. slife' = "gone" /\ socks' = [k \in Handles |-> None] BY <1>10 DEF SrvOnFini
  <2>2. ReadsOK(t, socks', slife', strays) BY <1>2, <2>1 DEF ReadsOK
  <2>3. \A i \in DOMAIN t : t[i].cmd = "DISCONNECT" => socks'[t[i].sock] = None BY <1>7, <2>1
  <2>4. CutsOK(t, socks', Silent', strays) BY <1>2, <2>3 DEF CutsOK
  <2> QED BY <1>0, <1>3, <1>4, <2>1, <2>2, <2>4, CutPartsPrime
<1> QED BY <1>8, <1>9, <1>10

\* What the server's readers answer, and that they keep every listener.
LEMMA AnswerIs ==
    ASSUME TypeOK, HandleInv, TokenInv, SrvReadAsym \/ SrvReadSym \/ SrvReadUser
    PROVE  /\ \E p \in Packets : p.type # "rubbish" /\ SrvAnswers(p)
           /\ \A k \in Handles : socks'[k] # None <=> socks[k] # None
<1>0. socks \in [Handles -> Listeners \cup {None}] /\ sq \in Seq(SrvMsgs) BY DEF TypeOK
<1> DEFINE h == Head(sq).sock
           l == socks[h]
           c == l.of
           q == Head(sq).pkt
<1>1. /\ sq # <<>> /\ Head(sq).cmd = "READ" /\ l # None BY DEF SrvReadAsym, SrvReadSym, SrvReadUser, SrvReads, SrvHas
<1>2. h \in Handles /\ q \in Packets
  <2>1. Head(sq) \in SrvMsgs BY <1>0, <1>1
  <2> QED BY <1>1, <2>1 DEF SrvMsgs
<1>3. l \in Listeners BY <1>0, <1>1, <1>2
<1>4. c \in Clients /\ l.enc \in Ciphers /\ q.n \in Nat BY <1>2, <1>3 DEF Listeners, Packets
<1>5. \A e, d \in Ciphers : [l EXCEPT !.enc = e, !.dec = d] \in Listeners BY <1>3 DEF Listeners
<1>6. ASSUME NEW e \in Ciphers, NEW d \in Ciphers, socks' = [socks EXCEPT ![h] = [l EXCEPT !.enc = e, !.dec = d]]
      PROVE  \A k \in Handles : socks'[k] # None <=> socks[k] # None
  <2>1. [l EXCEPT !.enc = e, !.dec = d] \in Listeners BY <1>5
  <2>4. [l EXCEPT !.enc = e, !.dec = d] # None BY ONLY <2>1, LinkAssumption
  <2>2. socks'[h] # None BY <1>0, <1>2, <1>6, <2>4
  <2>3. \A k \in Handles : k # h => socks'[k] = socks[k] BY <1>0, <1>2, <1>6
  <2> QED BY <1>1, <2>2, <2>3
<1>7. \A t \in {"asym", "sym", "user"}, r \in {"ok", "end", "bad"}, n \in Nat :
        Packet(t, l.enc, r, n) \in Packets /\ Packet(t, l.enc, r, n).type # "rubbish"
  BY <1>4, PacketTypes DEF Packet
<1>8. CASE SrvReadAsym
  <2>1. PICK n \in Certs : SrvAnswers(Packet("asym", l.enc, "ok", n)) BY <1>8 DEF SrvReadAsym
  <2>2. n \in Nat BY LinkAssumption
  <2>3. socks' = [socks EXCEPT ![h] = [l EXCEPT !.enc = Asym(c), !.dec = Asym("server")]]
    BY <1>8 DEF SrvReadAsym
  <2>4. Asym(c) \in Ciphers /\ Asym("server") \in Ciphers BY <1>4, CipherTypes
  <2> HIDE DEF h, l, c, q
  <2> QED BY <1>6, <1>7, <2>1, <2>2, <2>3, <2>4
<1>9. CASE SrvReadSym
  <2> DEFINE r == IF Code(c) = SrvCode THEN "ok" ELSE "bad"
             E == SymKey("down", c, SrvCode)
             D == IF Code(c) = SrvCode THEN SymKey("up", c, SrvCode) ELSE Random
  <2>1. SrvAnswers(Packet("sym", l.enc, r, 0)) BY <1>9 DEF SrvReadSym
  <2>2. socks' = [socks EXCEPT ![h] = [l EXCEPT !.enc = E, !.dec = D]] BY <1>9 DEF SrvReadSym
  <2>3. E \in Ciphers /\ D \in Ciphers /\ r \in {"ok", "end", "bad"} BY <1>4, CipherTypes
  <2> HIDE DEF h, l, c, q, E, D, r
  <2> QED BY <1>6, <1>7, <2>1, <2>2, <2>3
<1>10. CASE SrvReadUser
  <2> DEFINE r == IF Legible(l, q) THEN sfReadFile(q.n) ELSE "bad"
  <2>1. SrvAnswers(Packet("user", l.enc, r, q.n)) /\ socks' = socks BY <1>10 DEF SrvReadUser
  <2>2. r \in {"ok", "end", "bad"} BY DEF sfReadFile
  <2> HIDE DEF h, l, c, q, r
  <2> QED BY <1>4, <1>7, <2>1, <2>2
<1> QED BY <1>8, <1>9, <1>10

\* A failing answer posts DISCONNECT: the client's token was the READ, so nothing
\* else is on its way up.
LEMMA AnswerCuts ==
    ASSUME TypeOK, TypeOK', HandleInv, TokenInv, CutInv, SrvReadAsym \/ SrvReadSym \/ SrvReadUser
    PROVE  CutInv'
<1> DEFINE t == Tail(sq)
<1>0. sq \in Seq(SrvMsgs) /\ down \in [Clients -> Seq(Packets)] /\ up \in [Clients -> Seq(Packets)] BY DEF TypeOK
<1>1. NetOK /\ ReadsOK(sq, socks, slife, strays) /\ CutsOK(sq, socks, Silent, strays) BY CutParts
<1>2. UNCHANGED <<conn, slife, strays, up, csocks, copen, reset>>
  BY DEF SrvReadAsym, SrvReadSym, SrvReadUser, client, selector
<1>3. Silent' = Silent BY <1>2 DEF Silent, SrvCut
<1>4. PICK type \in {"asym", "sym", "user"} : SrvReads(type) BY DEF SrvReadAsym, SrvReadSym, SrvReadUser
<1>5. PICK c \in Clients, h \in Handles :
        /\ h = Head(sq).sock /\ conn[h] = c /\ sq # <<>>
        /\ Quiet(c, begun, cq[c], up[c], Tail(sq), down[c])
  BY <1>4, TokenRead
<1>6. up[c] = <<>>
  <2>1. up[c] \in Seq(Packets) /\ NoRubbish(up[c]) /\ ~Holds(up[c], UpTokens) BY <1>0, <1>1, <1>5 DEF NetOK, Quiet
  <2> QED BY <2>1, CleanStreams
<1>7. PICK p \in Packets : p.type # "rubbish" /\ SrvAnswers(p) BY AnswerIs
<1>8. \A k \in Handles : socks'[k] # None <=> socks[k] # None BY AnswerIs
<1>9. t \in Seq(SrvMsgs) /\ ReadsOK(t, socks, slife, strays) /\ CutsOK(t, socks, Silent, strays) BY <1>0, <1>1, <1>5, CutTail
<1> DEFINE m == SrvMsg("DISCONNECT", h, c, None)
<1>10. m \in SrvMsgs /\ m.cmd = "DISCONNECT" /\ m.sock = h BY SrvMsgTypes DEF SrvMsg
<1>11. sq' = t \/ (SrvCut(c) /\ sq' = Append(t, m)) BY <1>5, <1>7 DEF SrvAnswers, Pop
<1>12. \A x \in Clients : down'[x] = down[x] \/ down'[x] = Append(down[x], p)
  BY <1>0, <1>5, <1>7 DEF SrvAnswers
<1> HIDE DEF m, t
<1>13. ReadsOK(sq', socks, slife, strays) /\ CutsOK(sq', socks, Silent, strays)
  <2>1. CASE sq' = t BY <1>9, <2>1
  <2>2. CASE SrvCut(c) /\ sq' = Append(t, m)
    <3>1. h \in Silent BY <1>5, <1>6, <2>2 DEF Silent
    <3> QED BY <1>9, <1>10, <2>2, <3>1, CutAppend
  <2> QED BY <1>11, <2>1, <2>2
<1>14. \A i \in DOMAIN sq' : sq'[i].cmd \in {"ACCEPT", "READ", "DISCONNECT"} => sq'[i].sock \in Handles
  BY QueueHandles DEF TypeOK
<1>15. ReadsOK(sq', socks', slife, strays) /\ CutsOK(sq', socks', Silent', strays)
  <2>1. \A i \in DOMAIN sq' : sq'[i].cmd = "READ" => (socks[sq'[i].sock] # None => socks'[sq'[i].sock] # None)
    BY <1>8, <1>14
  <2>2. \A i \in DOMAIN sq' : sq'[i].cmd = "DISCONNECT" /\ socks'[sq'[i].sock] # None =>
            socks[sq'[i].sock] # None /\ (sq'[i].sock \in Silent => sq'[i].sock \in Silent')
    BY <1>3, <1>8, <1>14
  <2>3. ReadsOK(sq', socks', slife, strays) BY <1>13, <2>1 DEF ReadsOK
  <2>4. CutsOK(sq', socks', Silent', strays) BY <1>13, <2>2 DEF CutsOK
  <2> QED BY <2>3, <2>4
<1>16. NetOK'
  <2>1. ASSUME NEW x \in Clients PROVE NoRubbish(down'[x])
    <3>1. NoRubbish(down[x]) /\ down[x] \in Seq(Packets) BY <1>0, <1>1 DEF NetOK
    <3>2. NoRubbish(Append(down[x], p)) BY <1>7, <3>1, CleanStreams
    <3> QED BY <1>12, <3>1, <3>2
  <2> QED BY <1>1, <1>2, <2>1 DEF NetOK, NoRubbish
<1>17. ServerSurvives' BY <1>2, <1>4 DEF SrvReads, SrvHas, ServerSurvives
<1> QED BY <1>2, <1>15, <1>16, <1>17, CutPartsPrime

\* Every step keeps CutInv where packets are not torn.
LEMMA CutStep ==
    ASSUME TypeOK, TypeOK', HandleInv, TokenInv, CutInv, ~Tears, [Next]_vars
    PROVE  CutInv'
<1>1. CASE UNCHANGED vars \/ SrvPoll \/ SrvAcceptFails
  <2>1. UNCHANGED <<conn, socks, sq, slife, strays, up, down, copen, reset, csocks>>
    BY <1>1 DEF vars, SrvPoll, SrvAcceptFails, server, selector, client, net
  <2>2. NetOK' BY <2>1, NetKept
  <2>3. \A h \in Handles : SrvCut(conn[h]) => SrvCut(conn[h])' BY <2>1 DEF SrvCut
  <2> QED BY <2>1, <2>2, <2>3, OutsideCuts
<1>2. CASE SrvStop \/ OnListen \/ SrvDropRead \/ SrvNoListener BY <1>2, PlainCuts
<1>3. CASE OnSockAccept \/ SrvOnDisconnect \/ SrvOnFini BY <1>3, HandleCuts
<1>4. CASE SrvReadAsym \/ SrvReadSym \/ SrvReadUser BY <1>4, AnswerCuts
<1>5. ASSUME NEW h \in Handles, SrvSelect(h) PROVE CutInv' BY <1>5, SelectCuts
<1>6. ASSUME NEW c \in Clients, CliLoop(c) \/ CliSelect(c) \/ CliStop(c) \/ Reset(c) PROVE CutInv'
  BY <1>6, ClientCuts
<1> QED BY <1>1, <1>2, <1>3, <1>4, <1>5, <1>6 DEF Next, SrvLoop, SrvSelector

-----------------------------------------------------------------------------
(* The theorems                                                            *)

\* TypeOK and HandleInv are inductive together: a READ or DISCONNECT can only be
\* typed because the handle it is posted for has a connection.
THEOREM HandleInvariant == Spec => [](TypeOK /\ HandleInv)
<1>1. Init => TypeOK /\ HandleInv
  <2> SUFFICES ASSUME Init PROVE TypeOK /\ HandleInv OBVIOUS
  <2>1. SrvMsg("LISTEN", None, None, None) \in SrvMsgs BY SrvMsgTypes
  <2>2. sq \in Seq(SrvMsgs) BY <2>1 DEF Init
  <2>3. Note("CONNECT_BEGIN") \in CliMsgs BY CliMsgTypes DEF CliCmds
  <2>4. cq \in [Clients -> Seq(CliMsgs)] BY <2>3 DEF Init
  <2>5. /\ backlog \in Seq(Clients) /\ conn \in [Handles -> Clients \cup {None}]
        /\ socks \in [Handles -> Listeners \cup {None}] /\ slife \in Lives /\ faults \in Nat
    BY DEF Init, Lives
  <2>6. /\ csocks \in [Clients -> Listeners \cup {None}] /\ clife \in [Clients -> Lives]
        /\ begun \subseteq Clients /\ outcome \in [Clients -> {"none", "done", "failed", "crashed"}]
    BY DEF Init, Lives
  <2>7. up \in [Clients -> Seq(Packets)] /\ down \in [Clients -> Seq(Packets)] /\ got \in [Clients -> Seq(Nat)]
        /\ filePos \in [Clients -> Nat] /\ short \subseteq Clients
        /\ ready \subseteq Handles \cup {Port} /\ dropped \subseteq Handles /\ strays \subseteq Clients
    BY DEF Init
  <2>8. listening \in BOOLEAN /\ csock \in [Clients -> BOOLEAN] BY DEF Init
  <2>9. TypeOK BY <2>2, <2>4, <2>5, <2>6, <2>7, <2>8 DEF Init, TypeOK
  <2>10. DOMAIN sq = {1} /\ sq[1].cmd = "LISTEN" BY DEF Init, SrvMsg
  <2>11. HandleInv BY <2>10 DEF Init, HandleInv, HandlesNotConfused
  <2> QED BY <2>9, <2>11
<1>2. TypeOK /\ HandleInv /\ [Next]_vars => (TypeOK /\ HandleInv)'
  BY TypeStep, HandleStep
<1> QED BY <1>1, <1>2, PTL DEF Spec

\* Type correctness of endpoints, queues and streams.
THEOREM TypeCorrect == Spec => []TypeOK
BY HandleInvariant, PTL

\* Nothing queued for a closed connection reaches the next connection on its
\* handle (JyTcpSelector::del, JyTcpEndpoint::onSockRead).
THEOREM HandlesKeptApart == Spec => []HandlesNotConfused
<1>1. TypeOK /\ HandleInv => HandlesNotConfused BY DEF HandleInv
<1> QED BY <1>1, HandleInvariant, PTL

\* Every client has at most one token, and the token says what the ciphers of both
\* listeners are: the invariant behind the next two.
THEOREM TokenInvariant == Spec => []TokenInv
<1>1. Init => TokenInv BY TokenInit
<1>2. TypeOK /\ HandleInv /\ TypeOK' /\ TokenInv /\ [Next]_vars => TokenInv' BY TokenStep
<1> QED BY <1>1, <1>2, HandleInvariant, PTL DEF Spec

\* Whatever packet is handled was encrypted with what its reader decrypts with.
THEOREM SwitchInStep == Spec => []CiphersInStep
<1>1. TypeOK /\ HandleInv /\ TokenInv => CiphersInStep BY TokenInStep
<1> QED BY <1>1, HandleInvariant, TokenInvariant, PTL

\* A download that ends well has every segment, once and in order, unless fwrite
\* stored less than it was given (sfWriteFile does not look at what it says).
THEOREM DownloadsWhole == Spec => []DownloadWhole
<1>1. TokenInv => DownloadWhole BY TokenWhole
<1> QED BY <1>1, TokenInvariant, PTL

\* The inductive invariant of the link.  Its last part: where packets arrive whole,
\* nothing comes after a DISCONNECT, unless a stale answer of select() made
\* JyTcpSelector::onRead give up a connection that works.
THEOREM LinkInvariant == Spec => []LinkInv
<1>1. Init => CutInv
  <2> SUFFICES ASSUME Init PROVE CutInv OBVIOUS
  <2>1. DOMAIN sq = {1} /\ sq[1].cmd = "LISTEN" BY DEF Init, SrvMsg
  <2>2. \A c \in Clients : up[c] = <<>> /\ down[c] = <<>> /\ csocks[c] = None BY DEF Init
  <2>3. ServerSurvives BY DEF Init, ServerSurvives
  <2> QED BY <2>1, <2>2, <2>3 DEF CutInv
<1>2. TypeOK /\ HandleInv /\ TypeOK' /\ TokenInv /\ (Tears \/ CutInv) /\ [Next]_vars => (Tears \/ CutInv)'
  BY CutStep
<1>3. Spec => [](Tears \/ CutInv) BY <1>1, <1>2, HandleInvariant, TokenInvariant, PTL DEF Spec
<1>4. TypeOK /\ HandleInv /\ TokenInv /\ (Tears \/ CutInv) => LinkInv BY DEF LinkInv
<1> QED BY <1>3, <1>4, HandleInvariant, TokenInvariant, PTL

\* Where packets arrive whole, no order of resets, closes, stops and queued packets
\* makes the server use the listener of a socket that is no longer in socks_
\* (JyTcpEndpoint::onSockRead), but for a packet of a connection that a stale answer
\* of select() has disconnected.
THEOREM ServerKeepsRunning == Spec => [](Tears \/ ServerSurvives)
<1>1. LinkInv => Tears \/ ServerSurvives BY DEF LinkInv, CutInv
<1> QED BY <1>1, LinkInvariant, PTL

=============================================================================
