--------------------------- MODULE WaylandStream ---------------------------
(***************************************************************************)
(* Connection::recv_packet (whale-land/src/connection.rs) over the stream  *)
(* socket of socket-fd-ext/src/lib.rs, called anew in each round of the    *)
(* tokio::select! of one-true-pairing/src/main.rs.                         *)
(*                                                                         *)
(* recv_packet suspends at four places: before the first byte, for the     *)
(* rest of the header, and twice for the payload.  When another branch of  *)
(* select! is ready while it is suspended its future is dropped, with the  *)
(* bytes and descriptors that it holds.  A read that finds data never      *)
(* suspends, so only a future that has found the socket empty can be       *)
(* dropped.  The compositor (external) writes packets into a buffer and    *)
(* flushes the buffer at will; descriptors travel with the first byte of   *)
(* the flush.                                                              *)
(***************************************************************************)
EXTENDS Naturals, Sequences

CONSTANTS
    Shapes, MaxPackets, \* see PacketChannel
    SplitsPackets,      \* may a flush end within a packet?
    MixesDescriptors,   \* may a packet with descriptors follow another in
                        \* one flush?
    MayClose,           \* may the compositor close its end?
    MaxGarbage,         \* bound: payload read under a misread header
    MaxOthers           \* bound: times another branch becomes ready

ASSUME StreamAssumption ==
    /\ Shapes \subseteq [payload : Nat, fds : Nat]
    /\ {SplitsPackets, MixesDescriptors, MayClose} \subseteq BOOLEAN
    /\ MaxPackets \in Nat /\ MaxGarbage \in Nat /\ MaxOthers \in Nat

VARIABLES
    sent, out, outFds,  \* compositor: packets, words and fds not flushed
    stream,             \* words in the socket
    eof,                \* the compositor has closed its end
    pc,                 \* "first", "header", "empty" or "payload"
    waiting,            \* the future is suspended
    fixed_buf, payload, \* words received so far
    payload_size,       \* words announced by the header
    fds,                \* descriptors received with the first read
    received,           \* packets returned to the loop
    other, others,      \* another branch is ready; how often it was
    dropped,            \* ghost: a dropped future held part of a packet
    mixed               \* ghost: descriptors went to another packet or to none

server   == << sent, out, outFds >>
branches == << other, others, dropped, mixed >>
vars     == << server, stream, eof, pc, waiting, fixed_buf, payload,
                 payload_size, fds, received, branches >>

(* The channel of packets that the client sees.  It is lost when the client *)
(* drops part of a packet, when a packet's descriptors come with another's  *)
(* words or are closed by a read of no bytes, and when the connection ends.*)
Channel == INSTANCE PacketChannel
               WITH sent <- sent, received <- received,
                    lost <- dropped \/ mixed \/ eof

-----------------------------------------------------------------------------
Init ==
    /\ sent = <<>> /\ out = <<>> /\ outFds = <<>>
    /\ stream = <<>> /\ eof = FALSE
    /\ pc = "first" /\ waiting = FALSE
    /\ fixed_buf = <<>> /\ payload = <<>> /\ payload_size = 0 /\ fds = <<>>
    /\ received = <<>>
    /\ other = FALSE /\ others = 0 /\ dropped = FALSE /\ mixed = FALSE

(* Reading the socket.  A read returns what is there, up to the length     *)
(* wanted, but does not go past the end of a flush whose descriptors it    *)
(* has taken.  recvmsg hands these out; read makes the kernel close them.  *)
ReadLength(wanted) ==
    CHOOSE k \in 1 .. wanted :
        /\ k <= Len(stream)
        /\ \A i, j \in 1 .. k - 1 :
                stream[j].fds # <<>> /\ j <= i => ~stream[i].last
        /\ \/ k = wanted \/ k = Len(stream)
           \/ stream[k].last /\ \E j \in 1 .. k : stream[j].fds # <<>>

WordsRead(k) ==
    [i \in 1 .. k |-> [pkt |-> stream[i].pkt, off |-> stream[i].off]]

FdsRead(k) ==
    IF \E i \in 1 .. k : stream[i].fds # <<>>
    THEN stream[CHOOSE i \in 1 .. k : stream[i].fds # <<>>].fds
    ELSE <<>>

Consume(k) ==
    /\ stream' = SubSeq(stream, k + 1, Len(stream))
    /\ waiting' = FALSE

(* recv_with_fds, with which a call of recv_packet begins.                 *)
RecvFirst ==
    /\ pc = "first" /\ stream # <<>>
    /\ LET k == ReadLength(Channel!HeaderWords) IN
       /\ Consume(k)
       /\ fixed_buf' = WordsRead(k)
       /\ fds' = FdsRead(k)
    /\ pc' = "header"
    /\ UNCHANGED << server, eof, payload, payload_size, received, branches >>

(* At the end of the file recv_with_fds returns 0, and the loop for the    *)
(* rest of the header goes round without suspending, for good.             *)
RecvNothing ==
    /\ pc = "first" /\ stream = <<>> /\ eof
    /\ pc' = "header" /\ waiting' = FALSE
    /\ UNCHANGED << server, stream, eof, fixed_buf, payload, payload_size,
                    fds, received, branches >>

(* Mutated form: each read starts at the beginning of the buffer's length. *)
RecvHeaderAgain ==
    /\ pc = "header" /\ stream # <<>> /\ Len(fixed_buf) < Channel!HeaderWords
    /\ LET k == ReadLength(Channel!HeaderWords) IN
       /\ Consume(k)
       /\ fixed_buf' = fixed_buf \o WordsRead(k)
    /\ UNCHANGED << server, eof, pc, payload, payload_size, fds, received,
                    branches >>

(* recv, for the rest of the header.                                       *)
RecvHeader ==
    /\ pc = "header" /\ stream # <<>> /\ Len(fixed_buf) < Channel!HeaderWords
    /\ LET k == ReadLength(Channel!HeaderWords - Len(fixed_buf)) IN
       /\ Consume(k)
       /\ fixed_buf' = fixed_buf \o WordsRead(k)
    /\ UNCHANGED << server, eof, pc, payload, payload_size, fds, received,
                    branches >>

(* Two words that are not the header of a packet.                          *)
Misread == fixed_buf # SubSeq(Channel!Words(fixed_buf[1].pkt), 1, 2)

(* Mutated form: the header's own size is not subtracted.                  *)
SizesWithHeader ==
    IF Misread THEN 0 .. MaxGarbage
    ELSE {sent[fixed_buf[1].pkt].payload + Channel!HeaderWords}

(* The sizes that fixed_buf may announce: that of its packet, or any when  *)
(* it holds no header.                                                     *)
PayloadSizes ==
    IF Misread THEN 0 .. MaxGarbage ELSE {sent[fixed_buf[1].pkt].payload}

(* Mutated form: a short first read is taken for a whole header.           *)
HeaderStarted == pc = "header" /\ fixed_buf # <<>>

HeaderComplete == pc = "header" /\ Len(fixed_buf) = Channel!HeaderWords

ReadSize ==
    /\ HeaderComplete
    /\ payload_size' \in PayloadSizes
    /\ pc' = IF payload_size' = 0 THEN "empty" ELSE "payload"
    /\ UNCHANGED << server, stream, eof, waiting, fixed_buf, payload, fds,
                    received, branches >>

(* The start of the next call.                                             *)
Restart ==
    /\ pc' = "first" /\ waiting' = FALSE
    /\ fixed_buf' = <<>> /\ payload' = <<>> /\ payload_size' = 0 /\ fds' = <<>>

(* PacketTooShort and ZeroObjectId: the loop logs the error and goes on.   *)
HeaderError ==
    /\ HeaderComplete /\ Misread
    /\ Restart
    /\ UNCHANGED << server, stream, eof, received, branches >>

(* The payload is read even when it is empty.  A read of no bytes waits for *)
(* some as any other does, and takes the descriptors that come with them;  *)
(* the kernel closes these.                                                *)
RecvEmptyPayload ==
    /\ pc = "empty" /\ (stream # <<>> \/ eof)
    /\ IF stream # <<>>
       THEN /\ stream' = [stream EXCEPT ![1].fds = <<>>]
            /\ mixed' = (mixed \/ Head(stream).fds # <<>>)
       ELSE UNCHANGED << stream, mixed >>
    /\ waiting' = FALSE /\ pc' = "payload"
    /\ UNCHANGED << server, eof, fixed_buf, payload, payload_size, fds,
                    received, other, others, dropped >>

RecvPayload ==
    /\ pc = "payload" /\ stream # <<>> /\ Len(payload) < payload_size
    /\ LET k == ReadLength(payload_size - Len(payload)) IN
       /\ Consume(k)
       /\ payload' = payload \o WordsRead(k)
    /\ UNCHANGED << server, eof, pc, fixed_buf, payload_size, fds, received,
                    branches >>

ReturnPacket ==
    /\ pc = "payload" /\ Len(payload) = payload_size
    /\ received' = Append(received, [words |-> fixed_buf \o payload,
                                     fds   |-> fds])
    /\ Restart
    /\ UNCHANGED << server, stream, eof, branches >>

(* The future finds the socket empty and suspends.                         *)
Needed ==
    \/ pc \in {"first", "empty"}
    \/ pc = "header" /\ Len(fixed_buf) < Channel!HeaderWords
    \/ pc = "payload" /\ Len(payload) < payload_size

Suspend ==
    /\ Needed /\ ~waiting /\ stream = <<>> /\ ~eof
    /\ waiting' = TRUE
    /\ UNCHANGED << server, stream, eof, pc, fixed_buf, payload, payload_size,
                    fds, received, branches >>

(* A future suspended within a packet is polled again after the close.     *)
WakeAtEof ==
    /\ pc # "first" /\ waiting /\ stream = <<>> /\ eof
    /\ waiting' = FALSE
    /\ UNCHANGED << server, stream, eof, pc, fixed_buf, payload, payload_size,
                    fds, received, branches >>

(* Mutated form: a future that is suspended is not dropped.                *)
TakeOtherBetween ==
    /\ other /\ pc = "first" /\ ~waiting
    /\ other' = FALSE
    /\ Restart
    /\ UNCHANGED << server, stream, eof, received, others, dropped, mixed >>

(* select! takes another branch and drops the future of recv_packet.       *)
TakeOther ==
    /\ other /\ (pc = "first" \/ waiting)
    /\ other' = FALSE
    /\ dropped' = (dropped \/ fixed_buf # <<>>)
    /\ Restart
    /\ UNCHANGED << server, stream, eof, received, others, mixed >>

-----------------------------------------------------------------------------
(* The compositor and the other branches (external).                       *)

SendPacket(shape) ==
    /\ Len(sent) < MaxPackets /\ ~eof
    /\ shape.fds > 0 /\ ~MixesDescriptors => out = <<>>
    /\ sent' = Append(sent, shape)
    /\ out' = out \o [off \in 1 .. Channel!HeaderWords + shape.payload |->
                         [pkt |-> Len(sent) + 1, off |-> off]]
    /\ outFds' = outFds \o [i \in 1 .. shape.fds |->
                               [pkt |-> Len(sent) + 1, arg |-> i]]
    /\ UNCHANGED << stream, eof, pc, waiting, fixed_buf, payload,
                      payload_size, fds, received, branches >>

EndsPacket(k) == k < Len(out) => out[k + 1].off = 1

(* The descriptors leave with a word that does not start their packet, or  *)
(* with those of another packet.                                           *)
MixesIn(k) ==
    /\ outFds # <<>>
    /\ \/ out[1].off # 1
       \/ outFds # Channel!Descriptors(out[1].pkt)

Flush(k) ==
    /\ ~eof
    /\ ~SplitsPackets => EndsPacket(k)
    /\ stream' = stream \o
           [i \in 1 .. k |-> [pkt |-> out[i].pkt, off |-> out[i].off,
                              fds |-> IF i = 1 THEN outFds ELSE <<>>,
                              last |-> i = k]]
    /\ out' = SubSeq(out, k + 1, Len(out)) /\ outFds' = <<>>
    /\ mixed' = (mixed \/ MixesIn(k))
    /\ UNCHANGED << sent, eof, pc, waiting, fixed_buf, payload, payload_size,
                    fds, received, other, others, dropped >>

Close ==
    /\ MayClose /\ ~eof
    /\ eof' = TRUE
    /\ UNCHANGED << server, stream, pc, waiting, fixed_buf, payload,
                      payload_size, fds, received, branches >>

OtherReady ==
    /\ ~other /\ others < MaxOthers
    /\ other' = TRUE /\ others' = others + 1
    /\ UNCHANGED << server, stream, eof, pc, waiting, fixed_buf, payload,
                      payload_size, fds, received, dropped, mixed >>

Recv == \/ RecvFirst \/ RecvNothing \/ RecvHeader \/ ReadSize \/ HeaderError
        \/ RecvEmptyPayload \/ RecvPayload \/ ReturnPacket \/ Suspend \/ WakeAtEof

Next == \/ Recv \/ TakeOther
        \/ \E shape \in Shapes : SendPacket(shape)
        \/ \E k \in DOMAIN out : Flush(k)
        \/ Close \/ OtherReady

Spec == Init /\ [][Next]_vars

(* The main task is polled whenever it can go on, select! polls its        *)
(* branches in random order, and the compositor flushes what it wrote.     *)
Fairness ==
    /\ WF_vars(Recv) /\ WF_vars(TakeOther)
    /\ WF_vars(\E k \in DOMAIN out : Flush(k))

FairSpec == Spec /\ Fairness

-----------------------------------------------------------------------------
(* Properties.                                                             *)

Word == [pkt : 1 .. MaxPackets, off : Nat \ {0}]
Fd   == [pkt : 1 .. MaxPackets, arg : Nat \ {0}]

(* Types; the buffers never hold more than the lengths that were asked for.*)
StreamTypeOK ==
    /\ sent \in Seq(Shapes) /\ out \in Seq(Word) /\ outFds \in Seq(Fd)
    /\ stream \in Seq([pkt : 1 .. MaxPackets, off : Nat \ {0}, fds : Seq(Fd),
                       last : BOOLEAN])
    /\ {eof, waiting, other, dropped, mixed} \subseteq BOOLEAN
    /\ others \in 0 .. MaxOthers
    /\ pc \in {"first", "header", "empty", "payload"}
    /\ fixed_buf \in Seq(Word) /\ Len(fixed_buf) <= Channel!HeaderWords
    /\ payload \in Seq(Word) /\ Len(payload) <= payload_size
    /\ payload_size \in Nat /\ fds \in Seq(Fd)
    /\ received \in Seq([words : Seq(Word), fds : Seq(Fd)])

(* recv_packet implements the channel of packets that the rest of the      *)
(* program relies on: until it loses its place, each packet arrives whole, *)
(* once, in order and with its own descriptors, and every packet arrives   *)
(* that has arguments or a successor.                                      *)
ChannelImplemented == Channel!Spec

(* What the expects of wayland_dispatch assert of the words of a packet:   *)
(* the packets returned are those sent, in order.                          *)
FramingKept ==
    \A n \in DOMAIN received :
        n \in DOMAIN sent /\ received[n].words = Channel!Words(n)

(* However the compositor splits its flushes, mixes descriptors into them  *)
(* or closes, and whatever another branch does: only a future dropped      *)
(* within a packet makes the client lose its place in the stream.          *)
FramingKeptUntilDrop == ~dropped => FramingKept

(* Every packet arrives, unless the client loses its place: an event of    *)
(* eight bytes, "the fixed header and thereby the minimum"                 *)
(* (connection.rs:93), as much as a longer one.                            *)
EveryPacketArrives ==
    \A n \in 1 .. MaxPackets :
        n \in DOMAIN sent ~> (n \in DOMAIN received \/ dropped \/ mixed \/ eof)

(* What the expects of wayland_dispatch assert of the descriptors of a     *)
(* packet: read_fd finds each of its arguments, and finish finds no more.  *)
DescriptorsMatch ==
    \A n \in DOMAIN received : received[n].fds = Channel!Descriptors(n)

(* Another branch that is ready - Exit among them - is taken, even when the *)
(* client has lost its place, unless the compositor closes.                *)
OthersTakenWhileOpen == other ~> (~other \/ eof)

=============================================================================
