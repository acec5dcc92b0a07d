------------------------------ MODULE TcpStream ------------------------------
(***************************************************************************)
(* One direction of a connection, byte by byte: JyTcpSelector::send and     *)
(* onWrite at the sender, onRead and hasWholePacket in the selector thread  *)
(* of the receiver (a JyTcpServer), the messages they post, the handlers    *)
(* of the receiver's loop, and the buffers of its JyBufPool.                *)
(*                                                                         *)
(* A packet is its place in the stream: where it begins and its size, which *)
(* is what its header says.  A write takes as many bytes as the system has  *)
(* room for, a read gives as many as have arrived.                         *)
(***************************************************************************)
EXTENDS Integers, Sequences, FiniteSets

CONSTANTS
    Sizes,       \* sizes of packets, header included
    Header,      \* sizeof(int) + sizeof(short), 6 in the code
    Unit,        \* getUnitSize() of the receiver's pool
    Rubbish,     \* sizes that the middle of a packet may show as a header
    MaxReserved, \* maxReserved_ of the pool (10 in the code)
    Capacity,    \* bytes the system holds between a send and a recv
    Windows,     \* packets a sender may have unanswered
    MaxPackets,  \* bound: packets sent
    MaxFaults,   \* bound: resets of the connection
    MaxDisc      \* bound: disconnects waiting in the queue

ASSUME StreamAssumption ==
    /\ Header \in Nat \ {0} /\ Unit \in Nat /\ Unit > Header
    /\ Sizes \subseteq Nat /\ \A n \in Sizes : n > Header
    /\ Rubbish \subseteq Nat
    /\ MaxReserved \in Nat /\ Capacity \in Nat \ {0} /\ Windows \subseteq Nat \ {0}
    /\ MaxPackets \in Nat /\ MaxFaults \in Nat /\ MaxDisc \in Nat \ {0}

VARIABLES
    window,   \* packets the sender may have unanswered
    sent,     \* packets given to send
    sender,   \* idle, writing (inside onWrite), closed
    written,  \* bytes the system has taken from the sender
    net,      \* open, reset, dry (reset, and nothing can be read any more)
    faults,
    taken,    \* bytes the receiver has read
    recvLen,  \* recvLen_ of recvBuf_; 0: there is no recvBuf_
    sock,     \* socks_ of the receiver has the connection
    queue,    \* the messages of the receiver's loop
    life,     \* of the receiver: run, stopping (FINI posted), gone (selector_ reset), dead
    handled,  \* packets that reached onRead
    bufs      \* the pool, and how many of its buffers are in use

senderVars   == <<window, sent, sender, written>>
netVars      == <<net, faults>>
selectorVars == <<taken, recvLen>>
vars == <<senderVars, netVars, selectorVars, sock, queue, life, handled, bufs>>

Packet(at, size) == [at |-> at, size |-> size]
Read(p)          == [cmd |-> "READ", pkt |-> p]
Note(cmd)        == [cmd |-> cmd, pkt |-> Packet(0, 0)]
Count(cmd)       == Cardinality({i \in 1 .. Len(queue) : queue[i].cmd = cmd})

\* Where the n-th of some packets ends, and where the next one will begin.
EndOf(s, n) == IF n = 0 THEN 0 ELSE s[n].at + s[n].size
EndOfSent   == EndOf(sent, Len(sent))

Init ==
    /\ window \in Windows
    /\ sent = <<>> /\ sender = "idle" /\ written = 0
    /\ net = "open" /\ faults = 0
    /\ taken = 0 /\ recvLen = 0
    /\ sock = TRUE /\ queue = <<>> /\ life = "run" /\ handled = <<>>
    /\ bufs = [pool |-> 0, used |-> 0]

-----------------------------------------------------------------------------
(* The buffer pool                                                         *)

\* JyBufPool::get
Get(b) == [pool |-> IF b.pool = 0 THEN 0 ELSE b.pool - 1, used |-> b.used + 1]

\* JyBufPool::ret
Ret(b) == [pool |-> IF b.pool < MaxReserved THEN b.pool + 1 ELSE b.pool, used |-> b.used - 1]

\* recvBuf_ is destroyed, if there is one.
Dropped == IF recvLen = 0 THEN bufs ELSE Ret(bufs)

-----------------------------------------------------------------------------
(* The sender                                                              *)

\* JyTcpSelector::send.  The protocols wait for answers, and an answer comes
\* after the packet was handled.
Send(n) ==
    /\ sender = "idle" /\ Len(sent) < MaxPackets
    /\ Len(sent) - Len(handled) < window
    /\ sent' = Append(sent, Packet(EndOfSent, n))
    /\ sender' = "writing"
    /\ UNCHANGED <<window, written, netVars, selectorVars, sock, queue, life, handled, bufs>>

\* JyTcpSelector::onWrite, one turn: waitForWritable, then ::send of a part.
Write(k) ==
    /\ sender = "writing" /\ net = "open"
    /\ k <= EndOfSent - written /\ k <= Capacity - (written - taken)
    /\ written' = written + k
    /\ sender' = IF written' = EndOfSent THEN "idle" ELSE "writing"
    /\ UNCHANGED <<window, sent, netVars, selectorVars, sock, queue, life, handled, bufs>>

\* Mutant: onWrite tries again.
WriteFailsAgain ==
    /\ sender = "writing" /\ (net # "open" \/ ~sock)
    /\ UNCHANGED vars

\* JyTcpSelector::onWrite: ::send fails, DISCONNECT closes the sender's end.
WriteFails ==
    /\ sender = "writing" /\ (net # "open" \/ ~sock)
    /\ sender' = "closed"
    /\ UNCHANGED <<window, sent, written, netVars, selectorVars, sock, queue, life, handled, bufs>>

\* The sender's endpoint is stopped between two sends (both are its loop's).
Close ==
    /\ sender = "idle" /\ sender' = "closed"
    /\ UNCHANGED <<window, sent, written, netVars, selectorVars, sock, queue, life, handled, bufs>>

\* The network resets the connection: what was not read may be lost.
Reset ==
    /\ net = "open" /\ faults < MaxFaults
    /\ net' = "reset" /\ faults' = faults + 1
    /\ UNCHANGED <<senderVars, selectorVars, sock, queue, life, handled, bufs>>

-----------------------------------------------------------------------------
(* The receiver's selector thread                                          *)

Selects == life \in {"run", "stopping"} /\ sock

\* The header found at a place in the stream: in the middle of a packet it is
\* any number (-1: any that is negative).
HeaderAt(at) ==
    LET begun == {i \in 1 .. Len(sent) : sent[i].at = at}
    IN  IF begun = {} THEN Rubbish \cup {-1} ELSE {sent[i].size : i \in begun}

\* Mutant: no limit.
HasWholePacketNoLimit(len, total) ==
    IF len <= Header THEN "bad" ELSE IF len < total THEN "none"
    ELSE IF len = total THEN "one" ELSE IF total >= 0 THEN "more" ELSE "wild"

\* Mutant: the packet is missed when nothing follows it.
HasWholePacketLate(len, total) ==
    IF len <= Header \/ total >= Unit THEN "bad" ELSE IF len <= total THEN "none"
    ELSE IF total >= 0 THEN "more" ELSE "wild"

\* JyTcpListener::hasWholePacket.  A negative size copies from before the
\* buffer and too much of it.
HasWholePacket(len, total) ==
    IF len <= Header \/ total >= Unit THEN "bad" ELSE IF len < total THEN "none"
    ELSE IF len = total THEN "one" ELSE IF total >= 0 THEN "more" ELSE "wild"

\* Mutant: a bad packet is thrown away and nobody is told.
RecvSilent(k) ==
    /\ Selects /\ net # "dry"
    /\ k <= written - taken /\ k <= Unit - recvLen
    /\ taken' = taken + k
    /\ LET len  == recvLen + k
           at   == taken - recvLen
           mine == IF recvLen = 0 THEN Get(bufs) ELSE bufs
       IN \E total \in HeaderAt(at) : LET found == HasWholePacket(len, total) IN
          /\ recvLen' = CASE found \in {"one", "bad"} -> 0
                          [] found = "more" -> len - total
                          [] OTHER -> len
          /\ queue' = IF found \in {"one", "more"} THEN Append(queue, Read(Packet(at, total)))
                      ELSE queue
          /\ bufs' = CASE found = "more" -> Get(mine) [] found = "bad" -> Ret(mine)
                       [] OTHER -> mine
          /\ life' = IF found = "wild" THEN "dead" ELSE life
          /\ sock' = (found # "wild")
    /\ UNCHANGED <<senderVars, netVars, handled>>

\* JyTcpSelector::onRead: at most one packet is posted, what follows it is
\* copied to a new recvBuf_.
Recv(k) ==
    /\ Selects /\ net # "dry"
    /\ k <= written - taken /\ k <= Unit - recvLen
    /\ taken' = taken + k
    /\ LET len  == recvLen + k
           at   == taken - recvLen
           mine == IF recvLen = 0 THEN Get(bufs) ELSE bufs
       IN \E total \in HeaderAt(at) : LET found == HasWholePacket(len, total) IN
          /\ recvLen' = CASE found \in {"one", "bad"} -> 0
                          [] found = "more" -> len - total
                          [] OTHER -> len
          /\ queue' = CASE found \in {"one", "more"} -> Append(queue, Read(Packet(at, total)))
                        [] found = "bad" -> Append(queue, Note("DISCONNECT"))
                        [] OTHER -> queue
          /\ bufs' = CASE found = "more" -> Get(mine) [] found = "bad" -> Ret(mine)
                       [] OTHER -> mine
          /\ life' = IF found = "wild" THEN "dead" ELSE life
          /\ sock' = (found # "wild")
    /\ UNCHANGED <<senderVars, netVars, handled>>

\* recv answers 0 or less at the end of the stream, after a reset, and when
\* recvBuf_ has no room.
RecvEnds == \/ net # "open"
            \/ sender = "closed" /\ written = taken
            \/ recvLen = Unit /\ written > taken

\* JyTcpSelector::onRead: recv fails, again and again until the loop calls del.
RecvFails ==
    /\ Selects /\ RecvEnds /\ Count("DISCONNECT") < MaxDisc
    /\ net' = IF net = "open" THEN net ELSE "dry"
    /\ recvLen' = 0 /\ bufs' = Dropped
    /\ queue' = Append(queue, Note("DISCONNECT"))
    /\ UNCHANGED <<senderVars, faults, taken, sock, life, handled>>

-----------------------------------------------------------------------------
(* The receiver's loop                                                     *)

Handles(cmd) == life # "dead" /\ queue # <<>> /\ Head(queue).cmd = cmd

\* JyTcpEndpoint::onSockRead: the buffer goes to the handler's ds and back to
\* the pool with it.
OnSockRead ==
    /\ Handles("READ") /\ life # "gone" /\ sock
    /\ queue' = Tail(queue)
    /\ handled' = Append(handled, Head(queue).pkt)
    /\ bufs' = Ret(bufs)
    /\ UNCHANGED <<senderVars, netVars, selectorVars, sock, life>>

\* After FINI the packet is dropped with its buffer.
OnSockReadGone ==
    /\ Handles("READ") /\ life = "gone"
    /\ queue' = Tail(queue)
    /\ bufs' = Ret(bufs)
    /\ UNCHANGED <<senderVars, netVars, selectorVars, sock, life, handled>>

\* getListener finds nothing and its answer is used unchecked.
OnSockReadNoListener ==
    /\ Handles("READ") /\ life # "gone" /\ ~sock
    /\ life' = "dead"
    /\ UNCHANGED <<senderVars, netVars, selectorVars, sock, queue, handled, bufs>>

\* JyTcpServer::onDisconnect, JyTcpSelector::del: the listener goes with its
\* recvBuf_.
OnDisconnect ==
    /\ Handles("DISCONNECT")
    /\ queue' = Tail(queue)
    /\ IF life # "gone" THEN sock' = FALSE /\ recvLen' = 0 /\ bufs' = Dropped
       ELSE UNCHANGED <<sock, recvLen, bufs>>
    /\ UNCHANGED <<senderVars, netVars, taken, life, handled>>

\* JyTcpServer::onFini: the selector thread is joined, then its listeners go.
OnFini ==
    /\ Handles("FINI")
    /\ queue' = Tail(queue) /\ life' = "gone"
    /\ sock' = FALSE /\ recvLen' = 0 /\ bufs' = Dropped
    /\ UNCHANGED <<senderVars, netVars, taken, handled>>

\* JyMsgLoop::stop of the receiver.
Stop ==
    /\ life = "run" /\ life' = "stopping"
    /\ queue' = Append(queue, Note("FINI"))
    /\ UNCHANGED <<senderVars, netVars, selectorVars, sock, handled, bufs>>

-----------------------------------------------------------------------------
Writes   == (\E k \in 1 .. Capacity : Write(k)) \/ WriteFails
Selector == (\E k \in 1 .. Unit : Recv(k)) \/ RecvFails
Loop     == OnSockRead \/ OnSockReadGone \/ OnSockReadNoListener \/ OnDisconnect \/ OnFini

Next == \/ (\E n \in Sizes : Send(n)) \/ Writes \/ Close \/ Reset
        \/ Selector \/ Loop \/ Stop

Spec == Init /\ [][Next]_vars

\* The threads run; sending, closing and stopping are up to their owners.
FairSpec == Spec /\ WF_vars(Writes) /\ WF_vars(Selector) /\ WF_vars(Loop)

-----------------------------------------------------------------------------
(* Properties                                                              *)

PacketSet == [at : Nat, size : Nat]

\* The types of the variables.
TypeOK ==
    /\ window \in Windows /\ sent \in Seq(PacketSet) /\ handled \in Seq(PacketSet)
    /\ sender \in {"idle", "writing", "closed"} /\ net \in {"open", "reset", "dry"}
    /\ written \in Nat /\ taken \in Nat /\ faults \in Nat /\ recvLen \in Nat
    /\ sock \in BOOLEAN /\ life \in {"run", "stopping", "gone", "dead"}
    /\ queue \in Seq([cmd : {"READ", "DISCONNECT", "FINI"}, pkt : PacketSet])
    /\ bufs \in [pool : Nat, used : Nat]

\* Every buffer in use is recvBuf_ or belongs to a READ in the queue, so none is
\* left when the loop has ended (onRead, onSockRead, onFini); the pool keeps at
\* most MaxReserved; and as long as no DISCONNECT is queued recv is never called
\* without room, which onRead would take for the end of the connection.
BufferInv ==
    /\ life # "dead" => bufs.used = Count("READ") + (IF recvLen > 0 THEN 1 ELSE 0)
    /\ life = "gone" => recvLen = 0
    /\ bufs.pool <= MaxReserved
    /\ life # "dead" /\ (\A i \in 1 .. Len(queue) : queue[i].cmd # "DISCONNECT")
            => recvLen < Unit

-----------------------------------------------------------------------------
(* The inductive invariant                                                 *)

NoDisconnect == \A i \in 1 .. Len(queue) : queue[i].cmd # "DISCONNECT"

\* The packets lie one behind the other, and nobody is ahead of the bytes.
StreamInv ==
    /\ \A i \in 1 .. Len(sent) : sent[i].size > Header /\ sent[i].at = EndOf(sent, i - 1)
    /\ \A i, j \in 1 .. Len(sent) : i < j => EndOf(sent, i) <= sent[j].at
    /\ recvLen <= taken /\ taken <= written /\ written <= EndOfSent

\* As long as no DISCONNECT is queued recvBuf_ begins where a packet begins.
AlignedInv == sock /\ NoDisconnect => \E p \in 0 .. Len(sent) : taken - recvLen = EndOf(sent, p)

\* The READs in front of the queue are the packets that come next, and when there
\* is nothing else recvBuf_ begins with the packet behind them.
QueueInv ==
    sock => \A n \in 0 .. Len(queue) : (\A i \in 1 .. n : queue[i].cmd = "READ") =>
        /\ Len(handled) + n <= Len(sent)
        /\ \A i \in 1 .. n : queue[i].pkt = sent[Len(handled) + i]
        /\ n = Len(queue) => taken - recvLen = EndOf(sent, Len(handled) + n)

\* A connection that is gone has no recvBuf_, unless the process has died.
GoneInv ==
    /\ life \in {"gone", "dead"} => ~sock
    /\ ~sock /\ life # "dead" => recvLen = 0

InductiveInv == TypeOK /\ StreamInv /\ AlignedInv /\ QueueInv /\ GoneInv /\ BufferInv

-----------------------------------------------------------------------------
Channel == INSTANCE PacketChannel
    WITH Packets <- PacketSet, sent <- sent, got <- handled, open <- sock

\* However the bytes were cut by writes and reads, the handlers get the packets
\* that were sent, whole and in order; a header read in the middle of a packet
\* never reaches them, because DISCONNECT is in front of it in the queue.
ChannelSpec == Channel!Spec

\* A sender that waits for answers has every packet handled, or the connection
\* ends.  With two packets under way the second may stay in recvBuf_ for ever.
LockStepArrives ==
    window = 1 /\ Len(handled) < Len(sent) ~> Len(handled) = Len(sent) \/ ~sock

\* A send never hangs: the receiver's selector thread reads whatever its loop
\* does, and a connection that is gone makes ::send fail (onWrite).
SendEnds == sender = "writing" ~> sender # "writing"
=============================================================================
