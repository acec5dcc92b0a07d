--------------------------- MODULE TcpStreamProofs ---------------------------
(***************************************************************************)
(* The invariant of TcpStream, and that it implements PacketChannel, for    *)
(* every set of packet sizes, every size of the header, of a buffer and of  *)
(* the pool, whatever the middle of a packet looks like.                    *)
(***************************************************************************)
EXTENDS TcpStream, SequenceTheorems, FiniteSetTheorems, TLAPS

\* The places of a queue that hold a message of one kind.
Of(q, cmd) == {i \in 1 .. Len(q) : q[i].cmd = cmd}

LEMMA CountIsOf == \A cmd : Count(cmd) = Cardinality(Of(queue, cmd))
BY DEF Count, Of

\* The places are finitely many.
LEMMA OfFinite ==
    ASSUME NEW T, NEW q \in Seq(T), NEW cmd
    PROVE  IsFiniteSet(Of(q, cmd)) /\ Cardinality(Of(q, cmd)) \in Nat
<1>1. IsFiniteSet(1 .. Len(q))
  BY LenProperties, FS_Interval
<1>2. Of(q, cmd) \subseteq 1 .. Len(q)
  BY DEF Of
<1>3. QED BY <1>1, <1>2, FS_Subset, FS_CardinalityType

\* A message that is posted counts once, as what it is.
LEMMA OfAppend ==
    ASSUME NEW T, NEW q \in Seq(T), NEW m \in T, NEW cmd
    PROVE  Cardinality(Of(Append(q, m), cmd))
              = Cardinality(Of(q, cmd)) + (IF m.cmd = cmd THEN 1 ELSE 0)
<1>. DEFINE n == Len(q)
<1>1. /\ n \in Nat /\ Len(Append(q, m)) = n + 1
      /\ \A i \in 1 .. n : Append(q, m)[i] = q[i]
      /\ Append(q, m)[n + 1] = m
  BY AppendProperties, LenProperties
<1>2. IsFiniteSet(Of(q, cmd)) /\ Cardinality(Of(q, cmd)) \in Nat
  BY OfFinite
<1>3. CASE m.cmd = cmd
  <2>1. Of(Append(q, m), cmd) = Of(q, cmd) \cup {n + 1}
    BY <1>1, <1>3 DEF Of
  <2>2. n + 1 \notin Of(q, cmd)
    BY <1>1 DEF Of
  <2>3. QED BY <1>2, <1>3, <2>1, <2>2, FS_AddElement
<1>4. CASE m.cmd # cmd
  <2>1. Of(Append(q, m), cmd) = Of(q, cmd)
    BY <1>1, <1>4 DEF Of
  <2>2. QED BY <1>2, <1>4, <2>1
<1>5. QED BY <1>3, <1>4

\* A message that is taken no longer counts.
LEMMA OfTail ==
    ASSUME NEW T, NEW q \in Seq(T), q # <<>>, NEW cmd
    PROVE  Cardinality(Of(q, cmd))
              = Cardinality(Of(Tail(q), cmd)) + (IF Head(q).cmd = cmd THEN 1 ELSE 0)
<1>. DEFINE n == Len(q)
            rest == Of(q, cmd) \ {1}
            f == [i \in rest |-> i - 1]
<1>1. /\ n \in Nat \ {0} /\ Tail(q) \in Seq(T) /\ Len(Tail(q)) = n - 1
      /\ \A i \in 1 .. n - 1 : Tail(q)[i] = q[i + 1]
      /\ Head(q) = q[1]
  BY HeadTailProperties, EmptySeq, LenProperties
<1>2. IsFiniteSet(Of(q, cmd)) /\ Cardinality(Of(q, cmd)) \in Nat
  BY OfFinite
<1>3. /\ IsFiniteSet(rest)
      /\ Cardinality(rest) = IF 1 \in Of(q, cmd) THEN Cardinality(Of(q, cmd)) - 1
                             ELSE Cardinality(Of(q, cmd))
  BY <1>2, FS_RemoveElement
<1>4. f \in Bijection(rest, Of(Tail(q), cmd))
  <2>1. f \in [rest -> Of(Tail(q), cmd)]
    BY <1>1 DEF Of
  <2>2. \A i, j \in rest : f[i] = f[j] => i = j
    BY <1>1 DEF Of
  <2>3. ASSUME NEW j \in Of(Tail(q), cmd) PROVE \E i \in rest : f[i] = j
    <3>1. j + 1 \in rest /\ f[j + 1] = j
      BY <1>1 DEF Of
    <3>2. QED BY <3>1
  <2>4. QED
    BY <2>1, <2>2, <2>3 DEF Bijection, Injection, Surjection, IsInjective
<1>5. Cardinality(Of(Tail(q), cmd)) = Cardinality(rest)
  <2>1. ExistsBijection(rest, Of(Tail(q), cmd))
    BY <1>4 DEF ExistsBijection
  <2>2. QED BY <1>3, <2>1, FS_Bijection
<1>6. 1 \in Of(q, cmd) <=> Head(q).cmd = cmd
  BY <1>1 DEF Of
<1>7. QED BY <1>2, <1>3, <1>5, <1>6

-----------------------------------------------------------------------------
(* Sequences of the model                                                  *)

Msgs == [cmd : {"READ", "DISCONNECT", "FINI"}, pkt : PacketSet]

\* What a post does to the queue (JyMsgLoop::pushMsg).
LEMMA PostFacts ==
    ASSUME queue \in Seq(Msgs), NEW m \in Msgs, queue' = Append(queue, m)
    PROVE  /\ queue' \in Seq(Msgs) /\ Len(queue) \in Nat /\ Len(queue') = Len(queue) + 1
           /\ \A i \in 1 .. Len(queue) : queue'[i] = queue[i]
           /\ queue'[Len(queue) + 1] = m
           /\ \A cmd : Cardinality(Of(queue', cmd))
                  = Cardinality(Of(queue, cmd)) + (IF m.cmd = cmd THEN 1 ELSE 0)
           /\ \A cmd : Cardinality(Of(queue, cmd)) \in Nat
<1>1. \A cmd : Cardinality(Of(queue', cmd))
                  = Cardinality(Of(queue, cmd)) + (IF m.cmd = cmd THEN 1 ELSE 0)
  BY OfAppend
<1>2. \A cmd : Cardinality(Of(queue, cmd)) \in Nat
  BY OfFinite
<1>3. QED BY <1>1, <1>2, AppendProperties, LenProperties

\* What taking the first message does to the queue (JyMutexWaitList::popFront).
LEMMA TakeFacts ==
    ASSUME queue \in Seq(Msgs), queue # <<>>, queue' = Tail(queue)
    PROVE  /\ queue' \in Seq(Msgs) /\ Len(queue) \in Nat \ {0}
           /\ Len(queue') = Len(queue) - 1
           /\ \A i \in 1 .. Len(queue) - 1 : queue'[i] = queue[i + 1]
           /\ Head(queue) = queue[1] /\ Head(queue) \in Msgs
           /\ \A cmd : Cardinality(Of(queue, cmd))
                  = Cardinality(Of(queue', cmd)) + (IF Head(queue).cmd = cmd THEN 1 ELSE 0)
           /\ \A cmd : Cardinality(Of(queue', cmd)) \in Nat
<1>1. \A cmd : Cardinality(Of(queue, cmd))
                  = Cardinality(Of(queue', cmd)) + (IF Head(queue).cmd = cmd THEN 1 ELSE 0)
  BY OfTail
<1>2. queue' \in Seq(Msgs)
  BY HeadTailProperties
<1>3. \A cmd : Cardinality(Of(queue', cmd)) \in Nat
  BY <1>2, OfFinite
<1>4. QED BY <1>1, <1>2, <1>3, HeadTailProperties, EmptySeq, LenProperties

LEMMA NoteIsMsg == \A cmd \in {"DISCONNECT", "FINI"} : Note(cmd) \in Msgs /\ Note(cmd).cmd = cmd
BY DEF Note, Packet, Msgs, PacketSet

\* The invariant spelled with the names of this module.
LEMMA InvFacts ==
    ASSUME InductiveInv
    PROVE  /\ window \in Nat \ {0}
           /\ sent \in Seq(PacketSet) /\ Len(sent) \in Nat
           /\ \A i \in 1 .. Len(sent) : sent[i].at \in Nat /\ sent[i].size \in Nat
           /\ \A i \in 0 .. Len(sent) : EndOf(sent, i) \in Nat
           /\ EndOfSent \in Nat /\ EndOfSent = EndOf(sent, Len(sent))
           /\ handled \in Seq(PacketSet) /\ Len(handled) \in Nat
           /\ queue \in Seq(Msgs) /\ Len(queue) \in Nat
           /\ bufs.used \in Nat /\ bufs.pool \in Nat
           /\ bufs = [pool |-> bufs.pool, used |-> bufs.used]
           /\ life # "dead" => bufs.used = Cardinality(Of(queue, "READ"))
                                             + (IF recvLen > 0 THEN 1 ELSE 0)
           /\ Cardinality(Of(queue, "READ")) \in Nat
<1>1. /\ window \in Windows /\ sent \in Seq(PacketSet) /\ handled \in Seq(PacketSet)
      /\ queue \in Seq(Msgs) /\ bufs \in [pool : Nat, used : Nat]
  BY DEF InductiveInv, TypeOK, Msgs
<1>2. Cardinality(Of(queue, "READ")) \in Nat
  BY <1>1, OfFinite
<1>3. Len(sent) \in Nat /\ \A i \in 1 .. Len(sent) : sent[i].at \in Nat /\ sent[i].size \in Nat
  <2>1. Len(sent) \in Nat /\ \A i \in 1 .. Len(sent) : sent[i] \in PacketSet
    BY <1>1, LenProperties, ElementOfSeq
  <2>2. QED BY <2>1 DEF PacketSet
<1>4. \A i \in 0 .. Len(sent) : EndOf(sent, i) \in Nat
  BY <1>3 DEF EndOf
<1>5. EndOfSent = EndOf(sent, Len(sent))
  BY DEF EndOfSent
<1>6. Len(handled) \in Nat /\ Len(queue) \in Nat
  BY <1>1, LenProperties
<1>7. /\ bufs.used \in Nat /\ bufs.pool \in Nat
      /\ bufs = [pool |-> bufs.pool, used |-> bufs.used]
  BY <1>1
<1>8. life # "dead" => bufs.used = Cardinality(Of(queue, "READ")) + (IF recvLen > 0 THEN 1 ELSE 0)
  BY CountIsOf DEF InductiveInv, BufferInv
<1>9. EndOfSent \in Nat
  BY <1>3, <1>4, <1>5
<1>10. window \in Nat \ {0}
  BY <1>1, StreamAssumption
<1>11. QED BY <1>1, <1>2, <1>3, <1>4, <1>5, <1>6, <1>7, <1>8, <1>9, <1>10

-----------------------------------------------------------------------------
(* The sender                                                              *)

\* JyTcpSelector::send puts a packet behind the others.
LEMMA SendStep ==
    ASSUME InductiveInv, NEW n \in Sizes, Send(n)
    PROVE  InductiveInv'
<1>1. n \in Nat /\ n > Header /\ Header \in Nat
  BY StreamAssumption
<1>2. /\ sent \in Seq(PacketSet) /\ Len(sent) \in Nat
      /\ \A i \in 1 .. Len(sent) : sent[i].at \in Nat /\ sent[i].size \in Nat
      /\ \A i \in 0 .. Len(sent) : EndOf(sent, i) \in Nat
      /\ EndOfSent \in Nat /\ EndOfSent = EndOf(sent, Len(sent))
      /\ Len(handled) \in Nat /\ Len(queue) \in Nat
  BY InvFacts
<1>3. Packet(EndOfSent, n) \in PacketSet
  BY <1>1, <1>2 DEF Packet, PacketSet
<1>4. /\ sent' \in Seq(PacketSet) /\ Len(sent') = Len(sent) + 1
      /\ \A i \in 1 .. Len(sent) : sent'[i] = sent[i]
      /\ sent'[Len(sent) + 1].at = EndOfSent /\ sent'[Len(sent) + 1].size = n
      /\ sent' # <<>>
  <2>1. sent' = Append(sent, Packet(EndOfSent, n))
    BY DEF Send
  <2>2. /\ sent' \in Seq(PacketSet) /\ Len(sent') = Len(sent) + 1
        /\ \A i \in 1 .. Len(sent) : sent'[i] = sent[i]
        /\ sent'[Len(sent) + 1] = Packet(EndOfSent, n) /\ sent' # <<>>
    BY <1>2, <1>3, <2>1, AppendProperties
  <2>3. QED BY <2>2 DEF Packet
<1>5. /\ \A i \in 0 .. Len(sent) : EndOf(sent', i) = EndOf(sent, i)
      /\ EndOf(sent', Len(sent) + 1) = EndOfSent + n /\ EndOfSent' = EndOfSent + n
  <2>1. ASSUME NEW i \in 0 .. Len(sent) PROVE EndOf(sent', i) = EndOf(sent, i)
    <3>1. CASE i = 0
      BY <3>1 DEF EndOf
    <3>2. CASE i \in 1 .. Len(sent)
      BY <3>2, <1>4 DEF EndOf
    <3>3. QED BY <3>1, <3>2, <1>2
  <2>2. EndOf(sent', Len(sent) + 1) = EndOfSent + n
    BY <1>1, <1>2, <1>4 DEF EndOf
  <2>3. EndOfSent' = EndOfSent + n
    BY <1>1, <1>2, <1>4 DEF EndOfSent, EndOf
  <2>4. QED BY <2>1, <2>2, <2>3
<1>6. UNCHANGED <<window, written, net, faults, taken, recvLen, sock, queue, life, handled, bufs>>
  BY DEF Send, netVars, selectorVars
<1>7. TypeOK'
  BY <1>4, <1>6 DEF InductiveInv, TypeOK, Send
<1>8. StreamInv'
  <2>1. ASSUME NEW i \in 1 .. Len(sent')
        PROVE  sent'[i].size > Header /\ sent'[i].at = EndOf(sent', i - 1)
    <3>1. CASE i \in 1 .. Len(sent)
      <4>1. sent[i].size > Header /\ sent[i].at = EndOf(sent, i - 1)
        BY <3>1 DEF InductiveInv, StreamInv
      <4>2. i - 1 \in 0 .. Len(sent)
        BY <3>1, <1>2
      <4>3. QED BY <3>1, <4>1, <4>2, <1>4, <1>5
    <3>2. CASE i = Len(sent) + 1
      BY <3>2, <1>1, <1>2, <1>4, <1>5
    <3>3. QED BY <3>1, <3>2, <1>2, <1>4
  <2>2. ASSUME NEW i \in 1 .. Len(sent'), NEW j \in 1 .. Len(sent'), i < j
        PROVE  EndOf(sent', i) <= sent'[j].at
    <3>1. i \in 1 .. Len(sent) /\ EndOf(sent', i) = EndOf(sent, i) /\ EndOf(sent, i) \in Nat
      BY <2>2, <1>2, <1>4, <1>5
    <3>2. CASE j \in 1 .. Len(sent)
      BY <3>1, <3>2, <2>2, <1>2, <1>4 DEF InductiveInv, StreamInv
    <3>3. CASE j = Len(sent) + 1
      <4>1. CASE i = Len(sent)
        BY <3>1, <3>3, <4>1, <1>2, <1>4
      <4>2. CASE i < Len(sent)
        <5>1. EndOf(sent, i) <= sent[Len(sent)].at /\ Len(sent) \in 1 .. Len(sent)
          BY <3>1, <4>2, <1>2 DEF InductiveInv, StreamInv
        <5>2. sent[Len(sent)].at <= EndOf(sent, Len(sent)) /\ sent[Len(sent)].at \in Nat
          BY <5>1, <1>2 DEF EndOf
        <5>3. QED BY <3>1, <3>3, <5>1, <5>2, <1>2, <1>4
      <4>3. QED BY <4>1, <4>2, <3>1, <1>2
    <3>4. QED BY <3>2, <3>3, <1>2, <1>4
  <2>3. recvLen' <= taken' /\ taken' <= written' /\ written' <= EndOfSent'
    BY <1>1, <1>2, <1>5, <1>6 DEF InductiveInv, StreamInv, TypeOK
  <2>4. QED BY <2>1, <2>2, <2>3 DEF StreamInv
<1>9. AlignedInv'
  BY <1>2, <1>4, <1>5, <1>6 DEF InductiveInv, AlignedInv, NoDisconnect
<1>10. QueueInv'
  <2>1. SUFFICES ASSUME sock, NEW m \in 0 .. Len(queue), \A i \in 1 .. m : queue[i].cmd = "READ"
                 PROVE  /\ Len(handled) + m <= Len(sent')
                        /\ \A i \in 1 .. m : queue[i].pkt = sent'[Len(handled) + i]
                        /\ m = Len(queue) => taken - recvLen = EndOf(sent', Len(handled) + m)
    BY <1>6 DEF QueueInv
  <2>2. /\ Len(handled) + m <= Len(sent)
        /\ \A i \in 1 .. m : queue[i].pkt = sent[Len(handled) + i]
        /\ m = Len(queue) => taken - recvLen = EndOf(sent, Len(handled) + m)
    BY <2>1 DEF InductiveInv, QueueInv
  <2>3. /\ Len(handled) + m \in 0 .. Len(sent)
        /\ \A i \in 1 .. m : Len(handled) + i \in 1 .. Len(sent)
    BY <2>1, <2>2, <1>2
  <2>4. EndOf(sent', Len(handled) + m) = EndOf(sent, Len(handled) + m)
    BY <2>3, <1>5
  <2>5. \A i \in 1 .. m : queue[i].pkt = sent'[Len(handled) + i]
    BY <2>2, <2>3, <1>4
  <2>6. Len(handled) + m <= Len(sent')
    BY <2>3, <1>2, <1>4
  <2>7. QED BY <2>2, <2>4, <2>5, <2>6
<1>11. GoneInv' /\ BufferInv'
  BY <1>6 DEF InductiveInv, GoneInv, BufferInv, Count
<1>12. QED BY <1>7, <1>8, <1>9, <1>10, <1>11 DEF InductiveInv

\* Steps that leave the packets, the receiver and its buffers alone.
LEMMA QuietStep ==
    ASSUME InductiveInv, TypeOK', UNCHANGED <<sent, recvLen, taken, sock, queue, life, handled, bufs>>,
           written <= written', written' <= EndOfSent
    PROVE  InductiveInv'
<1>1. EndOfSent' = EndOfSent /\ \A i : EndOf(sent', i) = EndOf(sent, i)
  BY DEF EndOfSent, EndOf
<1>2. StreamInv'
  BY <1>1 DEF InductiveInv, StreamInv, TypeOK
<1>3. AlignedInv' /\ QueueInv'
  BY <1>1 DEF InductiveInv, AlignedInv, QueueInv, NoDisconnect
<1>4. GoneInv' /\ BufferInv'
  BY DEF InductiveInv, GoneInv, BufferInv, Count
<1>5. QED BY <1>2, <1>3, <1>4 DEF InductiveInv

\* onWrite, the end of the sender and of the network.
LEMMA SenderStep ==
    ASSUME InductiveInv, Writes \/ Close \/ Reset
    PROVE  InductiveInv'
<1>1. written \in Nat /\ EndOfSent \in Nat /\ written <= EndOfSent
  <2>1. EndOfSent \in Nat
    BY InvFacts
  <2>2. QED BY <2>1 DEF InductiveInv, TypeOK, StreamInv
<1>2. ASSUME NEW k \in 1 .. Capacity, Write(k) PROVE InductiveInv'
  <2>1. k \in Nat /\ written' = written + k /\ written' <= EndOfSent /\ written' \in Nat
    BY <1>1, <1>2, StreamAssumption DEF Write, InductiveInv, TypeOK
  <2>2. TypeOK'
    BY <1>2, <2>1 DEF Write, InductiveInv, TypeOK, netVars, selectorVars
  <2>3. QED BY <1>1, <1>2, <2>1, <2>2, QuietStep DEF Write, netVars, selectorVars
<1>3. ASSUME WriteFails \/ Close \/ Reset PROVE InductiveInv'
  <2>1. TypeOK' /\ written' = written
    BY <1>3 DEF WriteFails, Close, Reset, InductiveInv, TypeOK, netVars, selectorVars, senderVars
  <2>2. QED
    BY <1>1, <1>3, <2>1, QuietStep
    DEF WriteFails, Close, Reset, netVars, selectorVars, senderVars
<1>4. QED BY <1>2, <1>3 DEF Writes

-----------------------------------------------------------------------------
(* The buffers                                                             *)

\* JyBufPool::get and ret: one buffer more, or less, is in use, and the pool
\* keeps no more than it may.
LEMMA PoolFacts ==
    ASSUME NEW b, b = [pool |-> b.pool, used |-> b.used],
           b.pool \in Nat, b.used \in Nat, b.pool <= MaxReserved
    PROVE  /\ Get(b) \in [pool : Nat, used : Nat] /\ Get(b).used = b.used + 1
           /\ Get(b).pool <= MaxReserved
           /\ b.used > 0 => Ret(b) \in [pool : Nat, used : Nat]
           /\ Ret(b).used = b.used - 1 /\ Ret(b).pool <= MaxReserved
BY StreamAssumption DEF Get, Ret

\* Where the receiver's thread looks into its queue and its buffers.
LEMMA BufFacts ==
    ASSUME InductiveInv
    PROVE  /\ Get(bufs) \in [pool : Nat, used : Nat] /\ Get(bufs).used = bufs.used + 1
           /\ Get(bufs).pool <= MaxReserved
           /\ bufs.used > 0 => Ret(bufs) \in [pool : Nat, used : Nat]
           /\ Ret(bufs).used = bufs.used - 1 /\ Ret(bufs).pool <= MaxReserved
           /\ bufs.pool <= MaxReserved
           /\ life # "dead" =>
                /\ Dropped \in [pool : Nat, used : Nat]
                /\ Dropped.used = Cardinality(Of(queue, "READ")) /\ Dropped.pool <= MaxReserved
<1>1. /\ bufs.used \in Nat /\ bufs.pool \in Nat /\ bufs \in [pool : Nat, used : Nat]
      /\ bufs = [pool |-> bufs.pool, used |-> bufs.used]
      /\ Cardinality(Of(queue, "READ")) \in Nat
      /\ life # "dead" => bufs.used = Cardinality(Of(queue, "READ"))
                                        + (IF recvLen > 0 THEN 1 ELSE 0)
  BY InvFacts DEF InductiveInv, TypeOK
<1>2. bufs.pool <= MaxReserved /\ recvLen \in Nat
  BY DEF InductiveInv, BufferInv, TypeOK
<1>3. /\ Get(bufs) \in [pool : Nat, used : Nat] /\ Get(bufs).used = bufs.used + 1
      /\ Get(bufs).pool <= MaxReserved
      /\ bufs.used > 0 => Ret(bufs) \in [pool : Nat, used : Nat]
      /\ Ret(bufs).used = bufs.used - 1 /\ Ret(bufs).pool <= MaxReserved
  BY <1>1, <1>2, PoolFacts
<1>4. ASSUME life # "dead"
      PROVE  /\ Dropped \in [pool : Nat, used : Nat]
             /\ Dropped.used = Cardinality(Of(queue, "READ")) /\ Dropped.pool <= MaxReserved
  <2>1. CASE recvLen = 0
    BY <1>1, <1>2, <1>4, <2>1 DEF Dropped
  <2>2. CASE recvLen > 0
    BY <1>1, <1>2, <1>3, <1>4, <2>2 DEF Dropped
  <2>3. QED BY <2>1, <2>2, <1>2
<1>5. QED BY <1>2, <1>3, <1>4
-----------------------------------------------------------------------------
(* The receiver's loop                                                     *)

\* The packet in front of the queue is the one that comes next.
LEMMA FrontIsNext ==
    ASSUME InductiveInv, sock, queue # <<>>, Head(queue).cmd = "READ"
    PROVE  /\ Len(handled) + 1 <= Len(sent)
           /\ Head(queue).pkt = sent[Len(handled) + 1]
<1>1. queue \in Seq(Msgs) /\ Len(queue) \in Nat \ {0} /\ Head(queue) = queue[1]
  BY InvFacts, HeadTailProperties, EmptySeq
<1>2. 1 \in 0 .. Len(queue) /\ \A i \in 1 .. 1 : queue[i].cmd = "READ"
  BY <1>1
<1>3. QED BY <1>1, <1>2 DEF InductiveInv, QueueInv

\* JyTcpEndpoint::onSockRead with its listener.
LEMMA OnSockReadStep ==
    ASSUME InductiveInv, OnSockRead
    PROVE  InductiveInv'
<1>1. /\ queue \in Seq(Msgs) /\ queue # <<>> /\ queue' = Tail(queue)
      /\ Head(queue).cmd = "READ" /\ life \notin {"gone", "dead"} /\ sock
      /\ handled' = Append(handled, Head(queue).pkt) /\ bufs' = Ret(bufs)
      /\ UNCHANGED <<window, sent, sender, written, net, faults, taken, recvLen, sock, life>>
  BY InvFacts DEF OnSockRead, Handles, senderVars, netVars, selectorVars
<1>2. /\ queue' \in Seq(Msgs) /\ Len(queue) \in Nat \ {0}
      /\ Len(queue') = Len(queue) - 1
      /\ \A i \in 1 .. Len(queue) - 1 : queue'[i] = queue[i + 1]
      /\ Head(queue) = queue[1] /\ Head(queue) \in Msgs
      /\ Cardinality(Of(queue, "READ")) = Cardinality(Of(queue', "READ")) + 1
      /\ Cardinality(Of(queue', "READ")) \in Nat
  BY <1>1, TakeFacts
<1>3. Len(handled) + 1 <= Len(sent) /\ Head(queue).pkt = sent[Len(handled) + 1]
  BY <1>1, FrontIsNext
<1>4. /\ handled' \in Seq(PacketSet) /\ Len(handled) \in Nat /\ Len(handled') = Len(handled) + 1
      /\ Len(sent) \in Nat
  <2>1. Head(queue).pkt \in PacketSet
    BY <1>2 DEF Msgs
  <2>2. QED BY <1>1, <2>1, InvFacts, AppendProperties
<1>5. /\ bufs' \in [pool : Nat, used : Nat] /\ bufs'.pool <= MaxReserved
      /\ bufs'.used = Cardinality(Of(queue', "READ")) + (IF recvLen' > 0 THEN 1 ELSE 0)
  <2>1. recvLen \in Nat
    BY DEF InductiveInv, TypeOK
  <2>2. bufs.used = Cardinality(Of(queue', "READ")) + 1 + (IF recvLen > 0 THEN 1 ELSE 0)
    BY <1>1, <1>2, <2>1, InvFacts
  <2>3. bufs.used > 0
    BY <1>2, <2>2
  <2>4. bufs' \in [pool : Nat, used : Nat] /\ bufs'.pool <= MaxReserved /\ bufs'.used = bufs.used - 1
    BY <1>1, <2>3, BufFacts
  <2>5. QED BY <1>1, <1>2, <2>1, <2>2, <2>4
<1>6. TypeOK'
  BY <1>1, <1>2, <1>4, <1>5 DEF InductiveInv, TypeOK, Msgs
<1>7. StreamInv'
  BY <1>1 DEF InductiveInv, StreamInv, EndOfSent
<1>8. NoDisconnect' => NoDisconnect
  <2>1. SUFFICES ASSUME NoDisconnect', NEW i \in 1 .. Len(queue)
                 PROVE  queue[i].cmd # "DISCONNECT"
    BY DEF NoDisconnect
  <2>2. CASE i = 1
    BY <2>2, <1>1, <1>2
  <2>3. CASE i > 1
    <3>1. i - 1 \in 1 .. Len(queue) - 1 /\ queue'[i - 1] = queue[i]
      BY <2>3, <1>2
    <3>2. QED BY <2>1, <3>1, <1>2 DEF NoDisconnect
  <2>4. QED BY <2>2, <2>3, <1>2
<1>9. AlignedInv'
  BY <1>1, <1>8 DEF InductiveInv, AlignedInv
<1>10. QueueInv'
  <2>1. SUFFICES ASSUME NEW m \in 0 .. Len(queue'), \A i \in 1 .. m : queue'[i].cmd = "READ"
                 PROVE  /\ Len(handled') + m <= Len(sent)
                        /\ \A i \in 1 .. m : queue'[i].pkt = sent[Len(handled') + i]
                        /\ m = Len(queue') => taken - recvLen = EndOf(sent, Len(handled') + m)
    BY <1>1 DEF QueueInv
  <2>2. m + 1 \in 0 .. Len(queue) /\ \A i \in 1 .. m + 1 : queue[i].cmd = "READ"
    <3>1. ASSUME NEW i \in 1 .. m + 1 PROVE queue[i].cmd = "READ"
      <4>1. CASE i = 1
        BY <4>1, <1>1, <1>2
      <4>2. CASE i > 1
        <5>1. i - 1 \in 1 .. m /\ i - 1 \in 1 .. Len(queue) - 1 /\ queue'[i - 1] = queue[i]
          BY <4>2, <1>2
        <5>2. QED BY <5>1, <2>1
      <4>3. QED BY <4>1, <4>2
    <3>2. QED BY <3>1, <1>2
  <2>3. /\ Len(handled) + (m + 1) <= Len(sent)
        /\ \A i \in 1 .. m + 1 : queue[i].pkt = sent[Len(handled) + i]
        /\ m + 1 = Len(queue) => taken - recvLen = EndOf(sent, Len(handled) + (m + 1))
    BY <2>2, <1>1 DEF InductiveInv, QueueInv
  <2>4. ASSUME NEW i \in 1 .. m PROVE queue'[i].pkt = sent[Len(handled') + i]
    <3>1. i + 1 \in 1 .. m + 1 /\ i \in 1 .. Len(queue) - 1 /\ queue'[i] = queue[i + 1]
      BY <1>2
    <3>2. Len(handled') + i = Len(handled) + (i + 1)
      BY <1>4
    <3>3. QED BY <3>1, <3>2, <2>3
  <2>5. Len(handled') + m = Len(handled) + (m + 1) /\ (m = Len(queue') <=> m + 1 = Len(queue))
    BY <1>2, <1>4
  <2>6. QED BY <2>3, <2>4, <2>5
<1>11. GoneInv'
  BY <1>1 DEF InductiveInv, GoneInv
<1>12. BufferInv'
  BY <1>1, <1>5, <1>8 DEF InductiveInv, BufferInv, NoDisconnect, Count, Of
<1>13. QED BY <1>6, <1>7, <1>9, <1>10, <1>11, <1>12 DEF InductiveInv

\* After the connection has gone, for the receiver, what is left is its buffers.
LEMMA NoConnectionStep ==
    ASSUME InductiveInv, TypeOK', ~sock', recvLen' = 0 \/ life' = "dead",
           UNCHANGED <<sent, written>>, recvLen' <= taken', taken' <= written,
           bufs'.pool <= MaxReserved,
           life' # "dead" => bufs'.used = Cardinality(Of(queue', "READ"))
    PROVE  InductiveInv'
<1>1. StreamInv'
  BY DEF InductiveInv, StreamInv, EndOfSent, TypeOK
<1>2. AlignedInv' /\ QueueInv' /\ GoneInv'
  BY DEF AlignedInv, QueueInv, GoneInv
<1>3. BufferInv'
  <2>1. Count("READ")' = Cardinality(Of(queue', "READ"))
    BY DEF Count, Of
  <2>2. life' # "dead" => recvLen' = 0 /\ Cardinality(Of(queue', "READ")) \in Nat
    BY OfFinite DEF TypeOK
  <2>3. life' # "dead" => recvLen' < Unit
    BY <2>2, StreamAssumption
  <2>4. life' = "gone" => recvLen' = 0
    BY <2>2
  <2>5. life' # "dead" => bufs'.used = Count("READ")' + (IF recvLen' > 0 THEN 1 ELSE 0)
    BY <2>1, <2>2
  <2>6. QED BY <2>3, <2>4, <2>5 DEF BufferInv
<1>4. QED BY <1>1, <1>2, <1>3 DEF InductiveInv

\* onSockRead after FINI, and without a listener; onDisconnect and onFini.
LEMMA EndingStep ==
    ASSUME InductiveInv, OnSockReadGone \/ OnSockReadNoListener \/ OnDisconnect \/ OnFini
    PROVE  InductiveInv'
<1>1. /\ queue \in Seq(Msgs) /\ queue # <<>> /\ life # "dead"
      /\ UNCHANGED <<window, sent, sender, written, net, faults, taken, handled>>
      /\ recvLen <= taken /\ taken <= written
  BY InvFacts
  DEF InductiveInv, StreamInv, OnSockReadGone, OnSockReadNoListener, OnDisconnect, OnFini, Handles,
      senderVars, netVars, selectorVars
<1>2. /\ window \in Windows /\ sent \in Seq(PacketSet) /\ handled \in Seq(PacketSet)
      /\ sender \in {"idle", "writing", "closed"} /\ net \in {"open", "reset", "dry"}
      /\ written \in Nat /\ taken \in Nat /\ faults \in Nat /\ recvLen \in Nat
      /\ sock \in BOOLEAN /\ life \in {"run", "stopping", "gone", "dead"}
      /\ bufs \in [pool : Nat, used : Nat]
  BY DEF InductiveInv, TypeOK
<1>3. CASE OnSockReadNoListener
  <2>1. life' = "dead" /\ UNCHANGED <<recvLen, sock, queue, bufs>> /\ ~sock
    BY <1>3 DEF OnSockReadNoListener, selectorVars
  <2>2. TypeOK'
    BY <1>1, <1>2, <2>1 DEF TypeOK, Msgs
  <2>3. QED BY <1>1, <2>1, <2>2, BufFacts, NoConnectionStep
<1>4. CASE ~OnSockReadNoListener
  <2>1. queue' = Tail(queue)
    BY <1>4 DEF OnSockReadGone, OnDisconnect, OnFini
  <2>2. /\ queue' \in Seq(Msgs) /\ Cardinality(Of(queue', "READ")) \in Nat
        /\ Cardinality(Of(queue, "READ"))
              = Cardinality(Of(queue', "READ")) + (IF Head(queue).cmd = "READ" THEN 1 ELSE 0)
    BY <1>1, <2>1, TakeFacts
  <2>3. CASE OnSockReadGone
    <3>1. /\ life = "gone" /\ Head(queue).cmd = "READ" /\ bufs' = Ret(bufs)
          /\ UNCHANGED <<recvLen, sock, life>>
      BY <2>3 DEF OnSockReadGone, Handles, selectorVars
    <3>2. ~sock /\ recvLen = 0
      BY <3>1 DEF InductiveInv, GoneInv
    <3>3. bufs.used = Cardinality(Of(queue', "READ")) + 1
      BY <2>2, <3>1, <3>2, <1>1, InvFacts
    <3>4. /\ bufs' \in [pool : Nat, used : Nat] /\ bufs'.pool <= MaxReserved
          /\ bufs'.used = bufs.used - 1
      BY <2>2, <3>1, <3>3, BufFacts
    <3>5. TypeOK'
      BY <1>1, <1>2, <2>2, <3>1, <3>4 DEF TypeOK, Msgs
    <3>6. QED BY <1>1, <1>2, <2>2, <3>1, <3>2, <3>3, <3>4, <3>5, NoConnectionStep
  <2>4. CASE ~OnSockReadGone
    <3>1. Head(queue).cmd # "READ"
      BY <1>4, <2>4 DEF OnDisconnect, OnFini, Handles
    <3>2. \/ life # "gone" /\ sock' = FALSE /\ recvLen' = 0 /\ bufs' = Dropped /\ life' = life
          \/ life = "gone" /\ UNCHANGED <<sock, recvLen, bufs, life>>
          \/ sock' = FALSE /\ recvLen' = 0 /\ bufs' = Dropped /\ life' = "gone"
      BY <1>4, <2>4 DEF OnDisconnect, OnFini
    <3>3. /\ sock' = FALSE /\ recvLen' = 0
          /\ bufs' \in [pool : Nat, used : Nat] /\ bufs'.pool <= MaxReserved
          /\ bufs'.used = Cardinality(Of(queue, "READ"))
      <4>1. CASE bufs' = Dropped /\ recvLen' = 0 /\ sock' = FALSE
        BY <4>1, <1>1, BufFacts
      <4>2. CASE life = "gone" /\ UNCHANGED <<sock, recvLen, bufs, life>>
        <5>1. ~sock /\ recvLen = 0
          BY <4>2 DEF InductiveInv, GoneInv
        <5>2. bufs.used = Cardinality(Of(queue, "READ"))
          BY <5>1, <1>1, InvFacts
        <5>3. QED BY <4>2, <5>1, <5>2, <1>2, BufFacts
      <4>3. QED BY <4>1, <4>2, <3>2
    <3>4. Cardinality(Of(queue, "READ")) = Cardinality(Of(queue', "READ"))
      BY <2>2, <3>1
    <3>5. life' \in {"run", "stopping", "gone", "dead"}
      BY <1>2, <3>2
    <3>6. TypeOK'
      BY <1>1, <1>2, <2>2, <3>3, <3>5 DEF TypeOK, Msgs
    <3>7. QED BY <1>1, <1>2, <3>3, <3>4, <3>6, NoConnectionStep
  <2>5. QED BY <2>3, <2>4
<1>5. QED BY <1>3, <1>4

-----------------------------------------------------------------------------
(* The selector thread of the receiver                                     *)

\* A message that is no READ changes the queue's tail only.
LEMMA NoteStep ==
    ASSUME InductiveInv, NEW cmd \in {"DISCONNECT", "FINI"}, queue' = Append(queue, Note(cmd)),
           UNCHANGED <<sent, written, sock, handled>>,
           cmd = "FINI" => UNCHANGED <<taken, recvLen>>,
           recvLen' <= taken', taken' <= written
    PROVE  /\ queue' \in Seq(Msgs) /\ StreamInv' /\ AlignedInv' /\ QueueInv'
           /\ Count("READ")' = Cardinality(Of(queue, "READ"))
           /\ NoDisconnect' <=> NoDisconnect /\ cmd = "FINI"
<1>1. /\ queue' \in Seq(Msgs) /\ Len(queue) \in Nat /\ Len(queue') = Len(queue) + 1
      /\ \A i \in 1 .. Len(queue) : queue'[i] = queue[i]
      /\ queue'[Len(queue) + 1].cmd = cmd
      /\ Cardinality(Of(queue', "READ")) = Cardinality(Of(queue, "READ"))
  <2>1. Note(cmd) \in Msgs /\ Note(cmd).cmd = cmd /\ queue \in Seq(Msgs)
    BY NoteIsMsg, InvFacts
  <2>2. cmd # "READ"
    OBVIOUS
  <2>3. QED BY <2>1, <2>2, PostFacts
<1>2. Count("READ")' = Cardinality(Of(queue, "READ"))
  BY <1>1 DEF Count, Of
<1>3. NoDisconnect' <=> NoDisconnect /\ cmd = "FINI"
  BY <1>1 DEF NoDisconnect
<1>4. StreamInv'
  BY DEF InductiveInv, StreamInv, EndOfSent, TypeOK
<1>5. AlignedInv'
  BY <1>3 DEF InductiveInv, AlignedInv
<1>6. QueueInv'
  <2>1. SUFFICES ASSUME sock, NEW m \in 0 .. Len(queue'), \A i \in 1 .. m : queue'[i].cmd = "READ"
                 PROVE  /\ Len(handled) + m <= Len(sent)
                        /\ \A i \in 1 .. m : queue'[i].pkt = sent[Len(handled) + i]
                        /\ m # Len(queue')
    BY DEF QueueInv
  <2>2. m # Len(queue')
    BY <2>1, <1>1
  <2>3. m \in 0 .. Len(queue) /\ \A i \in 1 .. m : queue[i].cmd = "READ"
    BY <2>1, <2>2, <1>1
  <2>4. /\ Len(handled) + m <= Len(sent)
        /\ \A i \in 1 .. m : queue[i].pkt = sent[Len(handled) + i]
    BY <2>1, <2>3 DEF InductiveInv, QueueInv
  <2>5. QED BY <2>2, <2>3, <2>4, <1>1
<1>7. QED BY <1>1, <1>2, <1>3, <1>4, <1>5, <1>6

\* recv fails (onRead), and the stop of the receiver.
LEMMA RecvFailsStep ==
    ASSUME InductiveInv, RecvFails
    PROVE  InductiveInv'
<1>1. /\ sock /\ life \in {"run", "stopping"} /\ recvLen' = 0 /\ bufs' = Dropped
      /\ queue' = Append(queue, Note("DISCONNECT"))
      /\ UNCHANGED <<window, sent, sender, written, faults, taken, sock, life, handled>>
      /\ net' \in {net, "dry"} /\ taken \in Nat /\ taken <= written
  BY DEF RecvFails, Selects, senderVars, InductiveInv, StreamInv, TypeOK
<1>2. /\ queue' \in Seq(Msgs) /\ StreamInv' /\ AlignedInv' /\ QueueInv'
      /\ Count("READ")' = Cardinality(Of(queue, "READ")) /\ ~NoDisconnect'
  BY <1>1, NoteStep
<1>3. /\ bufs' \in [pool : Nat, used : Nat] /\ bufs'.pool <= MaxReserved
      /\ bufs'.used = Cardinality(Of(queue, "READ")) /\ Cardinality(Of(queue, "READ")) \in Nat
  BY <1>1, BufFacts, InvFacts
<1>4. TypeOK'
  BY <1>1, <1>2, <1>3 DEF InductiveInv, TypeOK, Msgs
<1>5. GoneInv'
  BY <1>1 DEF InductiveInv, GoneInv
<1>6. BufferInv'
  BY <1>1, <1>2, <1>3 DEF BufferInv, NoDisconnect
<1>7. QED BY <1>2, <1>4, <1>5, <1>6 DEF InductiveInv

LEMMA StopStep ==
    ASSUME InductiveInv, Stop
    PROVE  InductiveInv'
<1>1. /\ life = "run" /\ life' = "stopping" /\ queue' = Append(queue, Note("FINI"))
      /\ UNCHANGED <<window, sent, sender, written, net, faults, taken, recvLen, sock, handled, bufs>>
      /\ recvLen <= taken /\ taken <= written
  BY DEF Stop, senderVars, netVars, selectorVars, InductiveInv, StreamInv
<1>2. /\ queue' \in Seq(Msgs) /\ StreamInv' /\ AlignedInv' /\ QueueInv'
      /\ Count("READ")' = Cardinality(Of(queue, "READ")) /\ (NoDisconnect' => NoDisconnect)
  BY <1>1, NoteStep
<1>3. TypeOK'
  BY <1>1, <1>2 DEF InductiveInv, TypeOK, Msgs
<1>4. GoneInv'
  BY <1>1 DEF InductiveInv, GoneInv
<1>5. BufferInv'
  BY <1>1, <1>2, CountIsOf DEF InductiveInv, BufferInv, NoDisconnect
<1>6. QED BY <1>2, <1>3, <1>4, <1>5 DEF InductiveInv

\* A header says a size, or, in the middle of a packet, any number.
LEMMA HeaderType ==
    ASSUME InductiveInv, NEW at, NEW total \in HeaderAt(at)
    PROVE  total \in Nat \cup {-1}
<1>1. Rubbish \subseteq Nat /\ \A i \in 1 .. Len(sent) : sent[i].size \in Nat
  BY StreamAssumption, InvFacts
<1>2. QED BY <1>1 DEF HeaderAt

\* When recvBuf_ begins behind a packet, what it begins with is the header of
\* the next one (hasWholePacket).
LEMMA HeaderFacts ==
    ASSUME InductiveInv, taken < written,
           NEW p \in 0 .. Len(sent), taken - recvLen = EndOf(sent, p),
           NEW total \in HeaderAt(taken - recvLen)
    PROVE  /\ p + 1 <= Len(sent) /\ total = sent[p + 1].size /\ total > Header
           /\ sent[p + 1] = Packet(taken - recvLen, total)
           /\ EndOf(sent, p + 1) = taken - recvLen + total
<1>1. /\ sent \in Seq(PacketSet) /\ Len(sent) \in Nat
      /\ \A i \in 1 .. Len(sent) : sent[i].at \in Nat /\ sent[i].size \in Nat
      /\ EndOfSent \in Nat /\ EndOfSent = EndOf(sent, Len(sent))
      /\ taken \in Nat /\ recvLen \in Nat /\ written \in Nat /\ Header \in Nat
      /\ \A i \in 0 .. Len(sent) : EndOf(sent, i) \in Nat
  BY InvFacts, StreamAssumption DEF InductiveInv, TypeOK
<1>2. p # Len(sent)
  <2>1. written <= EndOfSent /\ recvLen <= taken
    BY DEF InductiveInv, StreamInv
  <2>2. QED BY <1>1, <2>1
<1>3. p + 1 \in 1 .. Len(sent)
  BY <1>1, <1>2
<1>4. sent[p + 1].at = EndOf(sent, p) /\ sent[p + 1].size > Header
  <2>1. \A i \in 1 .. Len(sent) : sent[i].size > Header /\ sent[i].at = EndOf(sent, i - 1)
    BY DEF InductiveInv, StreamInv
  <2>2. (p + 1) - 1 = p
    BY <1>1
  <2>3. QED BY <1>3, <2>1, <2>2
<1>5. \A i, j \in 1 .. Len(sent) : i < j => sent[i].at < sent[j].at
  <2>1. SUFFICES ASSUME NEW i \in 1 .. Len(sent), NEW j \in 1 .. Len(sent), i < j
                 PROVE  sent[i].at < sent[j].at
    OBVIOUS
  <2>2. EndOf(sent, i) <= sent[j].at /\ sent[i].size > Header
    BY <2>1 DEF InductiveInv, StreamInv
  <2>3. EndOf(sent, i) = sent[i].at + sent[i].size
    BY DEF EndOf
  <2>4. /\ sent[i].at \in Nat /\ sent[i].size \in Nat /\ sent[j].at \in Nat
        /\ Header \in Nat
    BY <1>1
  <2>5. sent[i].at + sent[i].size <= sent[j].at
    BY <2>2, <2>3
  <2>6. sent[i].size > 0
    BY <2>2, <2>4
  <2>7. QED BY <2>4, <2>5, <2>6
<1>6. \A i \in 1 .. Len(sent) : sent[i].at = taken - recvLen => i = p + 1
  <2>1. SUFFICES ASSUME NEW i \in 1 .. Len(sent), sent[i].at = sent[p + 1].at, i # p + 1
                 PROVE  FALSE
    BY <1>4
  <2>2. CASE i < p + 1
    BY <2>1, <2>2, <1>1, <1>3, <1>5
  <2>3. CASE i > p + 1
    BY <2>1, <2>3, <1>1, <1>3, <1>5
  <2>4. QED BY <2>1, <2>2, <2>3, <1>1
<1>7. total = sent[p + 1].size
  <2>1. {i \in 1 .. Len(sent) : sent[i].at = taken - recvLen} = {p + 1}
    BY <1>3, <1>4, <1>6
  <2>2. QED BY <2>1 DEF HeaderAt
<1>8. sent[p + 1] = Packet(taken - recvLen, total)
  <2>1. sent[p + 1] \in PacketSet
    BY <1>1, <1>3, ElementOfSeq
  <2>2. sent[p + 1] = [at |-> sent[p + 1].at, size |-> sent[p + 1].size]
    BY <2>1 DEF PacketSet
  <2>3. QED BY <2>2, <1>4, <1>7 DEF Packet
<1>9. EndOf(sent, p + 1) = taken - recvLen + total
  BY <1>1, <1>3, <1>4, <1>7 DEF EndOf
<1>10. QED BY <1>3, <1>4, <1>7, <1>8, <1>9, <1>1

\* What JyTcpListener::hasWholePacket answers about the bytes of recvBuf_.
LEMMA WholePacketFacts ==
    ASSUME NEW len \in Nat, NEW total \in Nat \cup {-1}
    PROVE  /\ HasWholePacket(len, total) \in {"bad", "none", "one", "more", "wild"}
           /\ HasWholePacket(len, total) # "bad" => len > Header /\ total < Unit
           /\ HasWholePacket(len, total) = "none" => len < total
           /\ HasWholePacket(len, total) = "one" => len = total
           /\ HasWholePacket(len, total) = "more" => len > total /\ total \in Nat
           /\ HasWholePacket(len, total) = "wild" => total = -1
BY StreamAssumption DEF HasWholePacket

\* JyTcpSelector::onRead
LEMMA RecvStep ==
    ASSUME InductiveInv, NEW k \in 1 .. Unit, Recv(k)
    PROVE  InductiveInv'
<1>. DEFINE len  == recvLen + k
            at   == taken - recvLen
            mine == IF recvLen = 0 THEN Get(bufs) ELSE bufs
<1>1. PICK total \in HeaderAt(at) :
        /\ recvLen' = CASE HasWholePacket(len, total) \in {"one", "bad"} -> 0
                        [] HasWholePacket(len, total) = "more" -> len - total
                        [] OTHER -> len
        /\ queue' = CASE HasWholePacket(len, total) \in {"one", "more"}
                            -> Append(queue, Read(Packet(at, total)))
                      [] HasWholePacket(len, total) = "bad" -> Append(queue, Note("DISCONNECT"))
                      [] OTHER -> queue
        /\ bufs' = CASE HasWholePacket(len, total) = "more" -> Get(mine)
                     [] HasWholePacket(len, total) = "bad" -> Ret(mine)
                     [] OTHER -> mine
        /\ life' = IF HasWholePacket(len, total) = "wild" THEN "dead" ELSE life
        /\ sock' = (HasWholePacket(len, total) # "wild")
  BY DEF Recv
<1>. DEFINE found == HasWholePacket(len, total)
<1>2. /\ recvLen \in Nat /\ taken \in Nat /\ written \in Nat /\ k \in Nat \ {0} /\ Unit \in Nat
      /\ recvLen <= taken /\ taken <= written /\ written <= EndOfSent
      /\ sock = TRUE /\ life \in {"run", "stopping"}
      /\ taken' = taken + k /\ taken' <= written /\ taken < written /\ len <= Unit
      /\ len \in Nat /\ at \in Nat /\ taken' \in Nat
      /\ UNCHANGED <<window, sent, sender, written, net, faults, handled>>
  <2>1. /\ sock /\ life \in {"run", "stopping"} /\ k <= written - taken /\ k <= Unit - recvLen
        /\ taken' = taken + k
        /\ UNCHANGED <<window, sent, sender, written, net, faults, handled>>
    BY DEF Recv, Selects, senderVars, netVars
  <2>2. /\ recvLen \in Nat /\ taken \in Nat /\ written \in Nat /\ sock \in BOOLEAN
        /\ recvLen <= taken /\ taken <= written /\ written <= EndOfSent
    BY DEF InductiveInv, TypeOK, StreamInv
  <2>3. k \in Nat \ {0} /\ Unit \in Nat
    BY StreamAssumption
  <2>4. QED BY <2>1, <2>2, <2>3
<1>3. total \in Nat \cup {-1}
  BY HeaderType
<1>4. /\ found \in {"bad", "none", "one", "more", "wild"}
      /\ found # "bad" => len > Header /\ total < Unit
      /\ found = "none" => len < total
      /\ found = "one" => len = total
      /\ found = "more" => len > total /\ total \in Nat
      /\ found = "wild" => total = -1
  BY <1>2, <1>3, WholePacketFacts
<1>5. /\ mine \in [pool : Nat, used : Nat] /\ mine.pool <= MaxReserved
      /\ mine.used = Cardinality(Of(queue, "READ")) + 1
      /\ Cardinality(Of(queue, "READ")) \in Nat
      /\ Get(mine) \in [pool : Nat, used : Nat] /\ Get(mine).pool <= MaxReserved
      /\ Get(mine).used = Cardinality(Of(queue, "READ")) + 2
      /\ Ret(mine) \in [pool : Nat, used : Nat] /\ Ret(mine).pool <= MaxReserved
      /\ Ret(mine).used = Cardinality(Of(queue, "READ"))
  <2>1. /\ Cardinality(Of(queue, "READ")) \in Nat /\ bufs \in [pool : Nat, used : Nat]
        /\ bufs.used = Cardinality(Of(queue, "READ")) + (IF recvLen > 0 THEN 1 ELSE 0)
    BY <1>2, InvFacts DEF InductiveInv, TypeOK
  <2>2. /\ mine \in [pool : Nat, used : Nat] /\ mine.pool <= MaxReserved
        /\ mine.used = Cardinality(Of(queue, "READ")) + 1
    BY <1>2, <2>1, BufFacts
  <2>3. /\ mine = [pool |-> mine.pool, used |-> mine.used] /\ mine.pool \in Nat
        /\ mine.used \in Nat /\ mine.used > 0
    BY <2>1, <2>2
  <2>. HIDE DEF mine
  <2>4. /\ Get(mine) \in [pool : Nat, used : Nat] /\ Get(mine).used = mine.used + 1
        /\ Get(mine).pool <= MaxReserved
        /\ Ret(mine) \in [pool : Nat, used : Nat]
        /\ Ret(mine).used = mine.used - 1 /\ Ret(mine).pool <= MaxReserved
    BY <2>2, <2>3, PoolFacts
  <2>5. QED BY <2>1, <2>2, <2>4
<1>6. /\ window \in Windows /\ sent \in Seq(PacketSet) /\ handled \in Seq(PacketSet)
      /\ sender \in {"idle", "writing", "closed"} /\ net \in {"open", "reset", "dry"}
      /\ faults \in Nat /\ queue \in Seq(Msgs)
  BY InvFacts DEF InductiveInv, TypeOK
<1>. HIDE DEF mine
<1>7. CASE found = "wild"
  <2>1. /\ sock' = FALSE /\ life' = "dead" /\ recvLen' = len /\ queue' = queue /\ bufs' = mine
    BY <1>1, <1>7
  <2>2. TypeOK'
    BY <1>2, <1>5, <1>6, <2>1 DEF TypeOK, Msgs
  <2>3. recvLen' <= taken'
    BY <1>2, <2>1
  <2>4. QED BY <1>2, <1>5, <2>1, <2>2, <2>3, NoConnectionStep
<1>8. CASE found = "bad"
  <2>1. /\ sock' = TRUE /\ life' = life /\ recvLen' = 0 /\ bufs' = Ret(mine)
        /\ queue' = Append(queue, Note("DISCONNECT"))
    BY <1>1, <1>8
  <2>2. /\ queue' \in Seq(Msgs) /\ StreamInv' /\ AlignedInv' /\ QueueInv'
        /\ Count("READ")' = Cardinality(Of(queue, "READ")) /\ ~NoDisconnect'
    BY <1>2, <2>1, NoteStep
  <2>3. TypeOK'
    BY <1>2, <1>5, <1>6, <2>1, <2>2 DEF TypeOK, Msgs
  <2>4. GoneInv'
    BY <1>2, <2>1 DEF GoneInv
  <2>5. BufferInv'
    BY <1>2, <1>5, <2>1, <2>2 DEF BufferInv, NoDisconnect
  <2>6. QED BY <2>2, <2>3, <2>4, <2>5 DEF InductiveInv
<1>9. CASE found = "none"
  <2>1. /\ sock' = TRUE /\ life' = life /\ recvLen' = len /\ bufs' = mine /\ queue' = queue
    BY <1>1, <1>9
  <2>2. taken' - recvLen' = taken - recvLen /\ recvLen' < Unit /\ recvLen' > 0
        /\ recvLen' <= taken'
    BY <1>2, <1>3, <1>4, <1>9, <2>1
  <2>3. TypeOK'
    BY <1>2, <1>5, <1>6, <2>1 DEF TypeOK, Msgs
  <2>4. StreamInv'
    BY <1>2, <2>2 DEF InductiveInv, StreamInv, EndOfSent
  <2>5. AlignedInv' /\ QueueInv'
    BY <1>2, <2>1, <2>2 DEF InductiveInv, AlignedInv, QueueInv, NoDisconnect
  <2>6. GoneInv'
    BY <1>2, <2>1 DEF GoneInv
  <2>7. BufferInv'
    BY <1>2, <1>5, <2>1, <2>2 DEF BufferInv, Count, Of
  <2>8. QED BY <2>3, <2>4, <2>5, <2>6, <2>7 DEF InductiveInv
<1>10. CASE found \in {"one", "more"}
  <2>1. /\ sock' = TRUE /\ life' = life /\ total \in Nat
        /\ queue' = Append(queue, Read(Packet(at, total)))
        /\ recvLen' = len - total /\ recvLen' \in Nat
        /\ bufs' = IF found = "more" THEN Get(mine) ELSE mine
        /\ found = "more" <=> recvLen' > 0
    <3>1. /\ sock' = TRUE /\ life' = life
          /\ queue' = Append(queue, Read(Packet(at, total)))
          /\ bufs' = IF found = "more" THEN Get(mine) ELSE mine
          /\ recvLen' = IF found = "one" THEN 0 ELSE len - total
      BY <1>1, <1>10
    <3>2. total \in Nat /\ len \in Nat
      BY <1>2, <1>4, <1>10
    <3>3. CASE found = "one"
      BY <1>4, <3>1, <3>2, <3>3
    <3>4. CASE found = "more"
      BY <1>4, <3>1, <3>2, <3>4
    <3>5. QED BY <1>10, <3>3, <3>4
  <2>2. Read(Packet(at, total)) \in Msgs /\ Read(Packet(at, total)).cmd = "READ"
        /\ Read(Packet(at, total)).pkt = Packet(at, total)
    BY <1>2, <2>1 DEF Read, Packet, Msgs, PacketSet
  <2>3. /\ queue' \in Seq(Msgs) /\ Len(queue) \in Nat /\ Len(queue') = Len(queue) + 1
        /\ \A i \in 1 .. Len(queue) : queue'[i] = queue[i]
        /\ queue'[Len(queue) + 1] = Read(Packet(at, total))
        /\ Cardinality(Of(queue', "READ")) = Cardinality(Of(queue, "READ")) + 1
    BY <1>6, <2>1, <2>2, PostFacts
  <2>4. taken' - recvLen' = at + total /\ recvLen' <= taken'
    BY <1>2, <1>3, <2>1
  <2>5. TypeOK'
    BY <1>2, <1>5, <1>6, <2>1, <2>3 DEF TypeOK, Msgs
  <2>6. StreamInv'
    BY <1>2, <2>4 DEF InductiveInv, StreamInv, EndOfSent
  <2>7. NoDisconnect' => NoDisconnect
    BY <2>3 DEF NoDisconnect
  <2>8. ASSUME NEW p \in 0 .. Len(sent), at = EndOf(sent, p)
        PROVE  /\ p + 1 \in 0 .. Len(sent) /\ total > Header
               /\ sent[p + 1] = Packet(at, total) /\ EndOf(sent, p + 1) = at + total
    <3>1. total \in HeaderAt(taken - recvLen) /\ taken < written
      BY <1>2
    <3>2. /\ p + 1 <= Len(sent) /\ total > Header
          /\ sent[p + 1] = Packet(at, total) /\ EndOf(sent, p + 1) = at + total
      BY <2>8, <3>1, HeaderFacts
    <3>3. Len(sent) \in Nat
      BY InvFacts
    <3>4. QED BY <3>2, <3>3
  <2>9. AlignedInv'
    <3>1. SUFFICES ASSUME NoDisconnect PROVE \E p \in 0 .. Len(sent) : at + total = EndOf(sent, p)
      BY <1>2, <2>4, <2>7 DEF AlignedInv
    <3>2. PICK p \in 0 .. Len(sent) : at = EndOf(sent, p)
      BY <1>2, <3>1 DEF InductiveInv, AlignedInv
    <3>3. QED BY <3>2, <2>8
  <2>10. QueueInv'
    <3>1. SUFFICES ASSUME NEW m \in 0 .. Len(queue'), \A i \in 1 .. m : queue'[i].cmd = "READ"
                   PROVE  /\ Len(handled) + m <= Len(sent)
                          /\ \A i \in 1 .. m : queue'[i].pkt = sent[Len(handled) + i]
                          /\ m = Len(queue') => at + total = EndOf(sent, Len(handled) + m)
      BY <1>2, <2>4 DEF QueueInv
    <3>2. CASE m \in 0 .. Len(queue)
      <4>1. \A i \in 1 .. m : queue[i].cmd = "READ"
        BY <3>1, <3>2, <2>3
      <4>2. /\ Len(handled) + m <= Len(sent)
            /\ \A i \in 1 .. m : queue[i].pkt = sent[Len(handled) + i]
        BY <1>2, <3>2, <4>1 DEF InductiveInv, QueueInv
      <4>3. m # Len(queue') /\ \A i \in 1 .. m : queue'[i] = queue[i]
        BY <3>2, <2>3
      <4>4. QED BY <4>2, <4>3
    <3>3. CASE m = Len(queue) + 1
      <4>1. \A i \in 1 .. Len(queue) : queue[i].cmd = "READ"
        BY <3>1, <3>3, <2>3
      <4>2. Len(queue) \in 0 .. Len(queue)
        BY <2>3
      <4>3. /\ Len(handled) + Len(queue) <= Len(sent)
            /\ \A i \in 1 .. Len(queue) : queue[i].pkt = sent[Len(handled) + i]
            /\ at = EndOf(sent, Len(handled) + Len(queue))
        BY <1>2, <4>1, <4>2 DEF InductiveInv, QueueInv
      <4>4. Len(handled) \in Nat /\ Len(sent) \in Nat
        BY InvFacts
      <4>5. Len(handled) + Len(queue) \in 0 .. Len(sent)
        BY <4>3, <4>4, <2>3
      <4>6. /\ (Len(handled) + Len(queue)) + 1 \in 0 .. Len(sent)
            /\ sent[(Len(handled) + Len(queue)) + 1] = Packet(at, total)
            /\ EndOf(sent, (Len(handled) + Len(queue)) + 1) = at + total
        BY <4>3, <4>5, <2>8
      <4>7. (Len(handled) + Len(queue)) + 1 = Len(handled) + m
        BY <3>3, <4>4, <2>3
      <4>8. ASSUME NEW i \in 1 .. m PROVE queue'[i].pkt = sent[Len(handled) + i]
        <5>1. CASE i \in 1 .. Len(queue)
          BY <5>1, <4>3, <2>3
        <5>2. CASE i = m
          BY <5>2, <3>3, <4>6, <4>7, <2>2, <2>3
        <5>3. QED BY <5>1, <5>2, <3>3, <2>3
      <4>9. QED BY <4>4, <4>6, <4>7, <4>8
    <3>4. QED BY <3>2, <3>3, <2>3
  <2>11. GoneInv'
    BY <1>2, <2>1 DEF GoneInv
  <2>12. BufferInv'
    <3>1. Count("READ")' = Cardinality(Of(queue, "READ")) + 1
      BY <2>3 DEF Count, Of
    <3>2. NoDisconnect => recvLen' < Unit
      <4>1. SUFFICES ASSUME NoDisconnect PROVE recvLen' < Unit
        OBVIOUS
      <4>2. PICK p \in 0 .. Len(sent) : at = EndOf(sent, p)
        BY <1>2, <4>1 DEF InductiveInv, AlignedInv
      <4>3. total > Header
        BY <4>2, <2>8
      <4>4. QED BY <4>3, <1>2, <2>1, StreamAssumption
    <3>3. bufs'.used = Count("READ")' + (IF recvLen' > 0 THEN 1 ELSE 0) /\ bufs'.pool <= MaxReserved
      BY <1>5, <2>1, <3>1
    <3>4. life' # "gone"
      BY <1>2, <2>1
    <3>5. QED BY <3>2, <3>3, <3>4, <2>7 DEF BufferInv, NoDisconnect
  <2>13. QED BY <2>5, <2>6, <2>9, <2>10, <2>11, <2>12 DEF InductiveInv
<1>11. QED BY <1>4, <1>7, <1>8, <1>9, <1>10

-----------------------------------------------------------------------------
(* The theorems                                                            *)

LEMMA InitInductive == Init => InductiveInv
<1>. SUFFICES ASSUME Init PROVE InductiveInv
  OBVIOUS
<1>1. /\ <<>> \in Seq(PacketSet) /\ <<>> \in Seq(Msgs) /\ Len(<<>>) = 0
  BY EmptySeq
<1>2. Header \in Nat /\ Unit \in Nat \ {0} /\ MaxReserved \in Nat
  BY StreamAssumption
<1>3. TypeOK
  BY <1>1 DEF Init, TypeOK, Msgs
<1>4. StreamInv
  BY <1>1 DEF Init, StreamInv, EndOfSent, EndOf
<1>5. AlignedInv
  BY <1>1 DEF Init, AlignedInv, EndOf
<1>6. QueueInv /\ GoneInv
  BY <1>1 DEF Init, QueueInv, GoneInv, EndOf
<1>7. Count("READ") = 0
  <2>1. Of(queue, "READ") = {}
    BY <1>1 DEF Init, Of
  <2>2. QED BY <2>1, CountIsOf, FS_EmptySet
<1>8. BufferInv
  BY <1>2, <1>7 DEF Init, BufferInv
<1>9. QED BY <1>3, <1>4, <1>5, <1>6, <1>8 DEF InductiveInv

LEMMA NextInductive == InductiveInv /\ [Next]_vars => InductiveInv'
<1>. SUFFICES ASSUME InductiveInv, [Next]_vars PROVE InductiveInv'
  OBVIOUS
<1>1. ASSUME NEW n \in Sizes, Send(n) PROVE InductiveInv'
  BY <1>1, SendStep
<1>2. CASE Writes \/ Close \/ Reset
  BY <1>2, SenderStep
<1>3. ASSUME NEW k \in 1 .. Unit, Recv(k) PROVE InductiveInv'
  BY <1>3, RecvStep
<1>4. CASE RecvFails
  BY <1>4, RecvFailsStep
<1>5. CASE OnSockRead
  BY <1>5, OnSockReadStep
<1>6. CASE OnSockReadGone \/ OnSockReadNoListener \/ OnDisconnect \/ OnFini
  BY <1>6, EndingStep
<1>7. CASE Stop
  BY <1>7, StopStep
<1>8. CASE UNCHANGED vars
  BY <1>8
  DEF vars, senderVars, netVars, selectorVars, InductiveInv, TypeOK, StreamInv, AlignedInv,
      QueueInv, GoneInv, BufferInv, NoDisconnect, Count, EndOfSent
<1>9. QED
  BY <1>1, <1>2, <1>3, <1>4, <1>5, <1>6, <1>7, <1>8 DEF Next, Selector, Loop

\* Every step of Spec keeps the inductive invariant.
LEMMA InductiveAlways == Spec => []InductiveInv
BY InitInductive, NextInductive, PTL DEF Spec

\* The variables keep their types.
THEOREM StreamTypes == Spec => []TypeOK
<1>1. InductiveInv => TypeOK
  BY DEF InductiveInv
<1>2. QED BY <1>1, InductiveAlways, PTL

\* Every buffer in use is recvBuf_ or belongs to a READ in the queue, the pool
\* keeps no more than maxReserved_, and onRead always has room (JyBufPool,
\* onRead, onSockRead, onDisconnect, onFini).
THEOREM BuffersAccounted == Spec => []BufferInv
<1>1. InductiveInv => BufferInv
  BY DEF InductiveInv
<1>2. QED BY <1>1, InductiveAlways, PTL

\* What a step does to the packets given to send, to those handed to onRead and
\* to the connection is a step of PacketChannel, or nothing.
LEMMA StepIsChannelStep ==
    ASSUME InductiveInv, InductiveInv', [Next]_vars
    PROVE  [Channel!Next]_(Channel!chanVars)
<1>1. ASSUME NEW n \in Sizes, Send(n) PROVE Channel!Send
  <2>1. /\ sent' = Append(sent, Packet(EndOfSent, n)) /\ UNCHANGED <<handled, sock>>
        /\ sent \in Seq(PacketSet) /\ EndOfSent \in Nat /\ n \in Nat
    BY <1>1, InvFacts, StreamAssumption DEF Send
  <2>2. Packet(EndOfSent, n) \in PacketSet
    BY <2>1 DEF Packet, PacketSet
  <2>3. /\ sent' \in Seq(PacketSet) /\ Len(sent') = Len(sent) + 1
        /\ \A i \in 1 .. Len(sent) : sent'[i] = sent[i]
    BY <2>1, <2>2, AppendProperties
  <2>4. QED BY <2>1, <2>3 DEF Channel!Send
<1>2. CASE OnSockRead
  <2>1. /\ sock /\ queue # <<>> /\ Head(queue).cmd = "READ"
        /\ handled' = Append(handled, Head(queue).pkt) /\ UNCHANGED <<sent, sock>>
    BY <1>2 DEF OnSockRead, Handles, senderVars
  <2>2. Len(handled) + 1 <= Len(sent) /\ Head(queue).pkt = sent[Len(handled) + 1]
    BY <2>1, FrontIsNext
  <2>3. Len(handled) \in Nat /\ Len(sent) \in Nat
    BY InvFacts
  <2>4. QED BY <2>1, <2>2, <2>3 DEF Channel!Deliver, Channel!Next
<1>3. ASSUME UNCHANGED <<sent, handled>>, sock' \in {sock, FALSE}
      PROVE  Channel!End \/ UNCHANGED Channel!chanVars
  BY <1>3 DEF Channel!End, Channel!chanVars, InductiveInv, TypeOK
<1>4. ASSUME NEW k \in 1 .. Unit, Recv(k) PROVE UNCHANGED <<sent, handled>> /\ sock' \in {sock, FALSE}
  <2>1. sock = TRUE /\ UNCHANGED <<sent, handled>>
    BY <1>4 DEF Recv, Selects, senderVars, InductiveInv, TypeOK
  <2>2. sock' \in BOOLEAN
    BY DEF InductiveInv, TypeOK
  <2>3. QED BY <2>1, <2>2
<1>5. ASSUME Writes \/ Close \/ Reset
      PROVE  UNCHANGED <<sent, handled>> /\ sock' \in {sock, FALSE}
  BY <1>5 DEF Writes, Write, WriteFails, Close, Reset, senderVars
<1>6. ASSUME RecvFails \/ OnSockReadGone \/ OnSockReadNoListener \/ OnDisconnect \/ OnFini \/ Stop
      PROVE  UNCHANGED <<sent, handled>> /\ sock' \in {sock, FALSE}
  BY <1>6 DEF RecvFails, OnSockReadGone, OnSockReadNoListener, OnDisconnect, OnFini, Stop, senderVars
<1>7. ASSUME UNCHANGED vars PROVE UNCHANGED <<sent, handled>> /\ sock' \in {sock, FALSE}
  BY <1>7 DEF vars, senderVars
<1>8. QED
  BY <1>1, <1>2, <1>3, <1>4, <1>5, <1>6, <1>7 DEF Next, Selector, Loop, Channel!Next

\* However the bytes are cut by writes and reads, wherever the connection breaks
\* and whatever the middle of a packet looks like, onRead is handed the packets
\* that were given to send, whole, once and in order (hasWholePacket, onRead).
THEOREM StreamImplementsChannel == Spec => ChannelSpec
<1>1. Init => Channel!Init
  BY DEF Init, Channel!Init
<1>2. InductiveInv /\ InductiveInv' /\ [Next]_vars => [Channel!Next]_(Channel!chanVars)
  BY StepIsChannelStep
<1>3. QED
  BY <1>1, <1>2, InductiveAlways, PTL DEF Spec, ChannelSpec, Channel!Spec
=============================================================================
