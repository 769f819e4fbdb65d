---------------------------- MODULE StreamProofs ----------------------------
(***************************************************************************)
(* Proofs about WaylandStream: the reader's and the writer's data are well *)
(* typed; until a cancellation drops an unfinished read or write, the      *)
(* reader's place in the stream, whole words and whole packets, is where   *)
(* its state says it is; and the stream implements the safety part of      *)
(* PacketChannel: packets are received in the order they were sent, each   *)
(* at most once, and one is missing only when it was lost.                 *)
(***************************************************************************)
EXTENDS WaylandStream, SequenceTheorems, WellFoundedInduction, TLAPS

-----------------------------------------------------------------------------
(* Reading the socket.                                                     *)

(* What remains of a length is a length.                                   *)
LEMMA Remaining ==
    ASSUME NEW a \in Nat, NEW b \in Nat, b < a
    PROVE  a - b \in Nat \ {0}
    OBVIOUS

(* A set of numbers that is not empty has a least one.                     *)
LEMMA LeastNumber ==
    ASSUME NEW T, T \subseteq Nat, T # {}
    PROVE  \E x \in T : \A y \in T : x <= y
<1>1. PICK x \in T : \A y \in T : ~ (<<y, x>> \in OpToRel(<, Nat))
    BY NatLessThanWellFounded, WFMin
<1>2. \A y \in T : ~(y < x)
    BY <1>1 DEF OpToRel
<1>3. x \in Nat /\ \A y \in T : y \in Nat
    OBVIOUS
<1>4. \A y \in T : x <= y
  <2>1. TAKE y \in T
  <2>2. ~(y < x) /\ x \in Nat /\ y \in Nat
    BY <1>2, <1>3
  <2> QED
    BY <2>2
<1> QED
    BY <1>4

(* A word in the socket; its place in its packet.                          *)
SocketWord == [pkt : 1 .. MaxPackets, off : Nat \ {0}, fds : Seq(Fd),
               last : BOOLEAN]
Place(w)   == [pkt |-> w.pkt, off |-> w.off]

(* A read that finds words returns one at least, and no more than wanted.  *)
LEMMA ReadLengthBounds ==
    ASSUME stream \in Seq(SocketWord), stream # <<>>, NEW wanted \in Nat \ {0}
    PROVE  /\ ReadLength(wanted) \in 1 .. wanted
           /\ ReadLength(wanted) \in 1 .. Len(stream)
<1> DEFINE Ends(k) ==
        \/ k = wanted \/ k = Len(stream)
        \/ stream[k].last /\ \E j \in 1 .. k : stream[j].fds # <<>>
    T == {k \in 1 .. wanted : k <= Len(stream) /\ Ends(k)}
<1>1. Len(stream) \in Nat \ {0}
    BY EmptySeq
<1>2. T \subseteq Nat /\ T # {}
  <2>1. CASE wanted <= Len(stream)
    BY <1>1, <2>1, wanted \in T
  <2>2. CASE ~(wanted <= Len(stream))
    BY <1>1, <2>2, Len(stream) \in T
  <2> QED
    BY <2>1, <2>2
<1>3. PICK k \in T : \A y \in T : k <= y
    BY <1>2, LeastNumber
<1>4. \A i, j \in 1 .. k - 1 :
          stream[j].fds # <<>> /\ j <= i => ~stream[i].last
  <2>1. SUFFICES ASSUME NEW i \in 1 .. k - 1, NEW j \in 1 .. k - 1,
                        stream[j].fds # <<>>, j <= i, stream[i].last
                 PROVE  FALSE
    OBVIOUS
  <2>2. k \in Nat /\ k <= wanted /\ k <= Len(stream)
    BY <1>1
  <2>3. i \in 1 .. wanted /\ i <= Len(stream) /\ i < k /\ j \in 1 .. i
    BY <2>1, <2>2, <1>1
  <2>4. Ends(i)
    BY <2>1, <2>3
  <2>5. i \in T
    BY <2>3, <2>4
  <2> QED
    BY <1>3, <2>2, <2>3, <2>5
<1>5. \E m \in 1 .. wanted :
        /\ m <= Len(stream)
        /\ \A i, j \in 1 .. m - 1 :
                stream[j].fds # <<>> /\ j <= i => ~stream[i].last
        /\ Ends(m)
    BY <1>3, <1>4
<1>6. /\ ReadLength(wanted) \in 1 .. wanted
      /\ ReadLength(wanted) <= Len(stream)
    BY <1>5 DEF ReadLength
<1> QED
    BY <1>1, <1>6

(* What a read returns and what it leaves in the socket.                   *)
LEMMA ReadWords ==
    ASSUME stream \in Seq(SocketWord), NEW k \in 1 .. Len(stream)
    PROVE  /\ WordsRead(k) \in Seq(Word) /\ Len(WordsRead(k)) = k
           /\ \A i \in 1 .. k : WordsRead(k)[i] = Place(stream[i])
           /\ FdsRead(k) \in Seq(Fd)
           /\ SubSeq(stream, k + 1, Len(stream)) \in Seq(SocketWord)
           /\ Len(SubSeq(stream, k + 1, Len(stream))) = Len(stream) - k
           /\ \A i \in 1 .. Len(stream) - k :
                SubSeq(stream, k + 1, Len(stream))[i] = stream[i + k]
<1>1. Len(stream) \in Nat /\ \A i \in 1 .. Len(stream) : stream[i] \in SocketWord
    BY ElementOfSeq
<1>2. \A i \in 1 .. k : Place(stream[i]) \in Word
  <2>1. TAKE i \in 1 .. k
  <2>2. i \in 1 .. Len(stream)
    BY <1>1
  <2>3. stream[i].pkt \in 1 .. MaxPackets /\ stream[i].off \in Nat \ {0}
    BY <1>1, <2>2 DEF SocketWord
  <2> QED
    BY <2>3 DEF Place, Word
<1>3. WordsRead(k) = [i \in 1 .. k |-> Place(stream[i])]
    BY DEF WordsRead, Place
<1>4. WordsRead(k) \in Seq(Word) /\ Len(WordsRead(k)) = k
  <2>1. WordsRead(k) \in [1 .. k -> Word]
    BY <1>2, <1>3
  <2> QED
    BY <2>1
<1>5. FdsRead(k) \in Seq(Fd)
  <2>1. \A i \in 1 .. k : stream[i].fds \in Seq(Fd)
    BY <1>1 DEF SocketWord
  <2>2. <<>> \in Seq(Fd)
    BY EmptySeq
  <2> QED
    BY <2>1, <2>2 DEF FdsRead
<1>6. \A i \in k + 1 .. Len(stream) : stream[i] \in SocketWord
    BY <1>1
<1>7. /\ SubSeq(stream, k + 1, Len(stream)) \in Seq(SocketWord)
      /\ Len(SubSeq(stream, k + 1, Len(stream)))
            = IF k + 1 <= Len(stream) THEN Len(stream) - (k + 1) + 1 ELSE 0
      /\ \A i \in 1 .. Len(stream) - (k + 1) + 1 :
            SubSeq(stream, k + 1, Len(stream))[i] = stream[k + 1 + i - 1]
    BY <1>1, <1>6, SubSeqProperties
<1> QED
    BY <1>1, <1>3, <1>4, <1>5, <1>7

-----------------------------------------------------------------------------
(* The inductive invariant.                                                *)

(* With s the shapes of the packets sent: the words of the nth, whether a  *)
(* word is one of its packet's, and the place that comes after it.         *)
Start(n)       == [pkt |-> n, off |-> 1]
Total(s, n)    == Channel!HeaderWords + s[n].payload
Exists(s, w)   == w.pkt \in DOMAIN s /\ w.off \in 1 .. Total(s, w.pkt)
After(s, w)    == IF w.off < Total(s, w.pkt)
                  THEN [pkt |-> w.pkt, off |-> w.off + 1]
                  ELSE Start(w.pkt + 1)

(* The words of q follow each other and end where e is next; and the place *)
(* of the first one, or e.                                                 *)
Runs(s, q, e) ==
    \A i \in 1 .. Len(q) :
        /\ Exists(s, q[i])
        /\ After(s, q[i]) = IF i < Len(q) THEN Place(q[i + 1]) ELSE e
First(q, e) == IF q = <<>> THEN e ELSE Place(q[1])

(* The places at which the compositor goes on to write, to flush, and the  *)
(* client to read.                                                         *)
WritePlace == Start(Len(sent) + 1)
FlushPlace == First(out, WritePlace)
ReadPlace  == First(stream, FlushPlace)

(* No word is lost or repeated on the way to the client.                   *)
WordsInv == Runs(sent, out, WritePlace) /\ Runs(sent, stream, FlushPlace)

(* What the future holds belongs to its phase.                             *)
BuffersInv ==
    /\ \A i \in DOMAIN fixed_buf : Exists(sent, fixed_buf[i])
    /\ pc = "first" => fixed_buf = <<>>
    /\ pc \in {"first", "header", "empty"} => payload = <<>>

(* The packet that the client reads, and the words it has of it.           *)
Current == Len(received) + 1
Taken   == Len(fixed_buf) + Len(payload)

(* The client is at its place: what it returned and what it holds are the  *)
(* words that were sent, and it goes on with the one that follows.         *)
PlaceKept ==
    /\ FramingKept
    /\ \A i \in 1 .. Len(fixed_buf) :
            fixed_buf[i] = [pkt |-> Current, off |-> i]
    /\ \A i \in 1 .. Len(payload) :
            payload[i] = [pkt |-> Current, off |-> Channel!HeaderWords + i]
    /\ fixed_buf = <<>> => ReadPlace = Start(Current)
    /\ fixed_buf # <<>> =>
            /\ Current \in DOMAIN sent
            /\ ReadPlace = After(sent, [pkt |-> Current, off |-> Taken])
    /\ pc \in {"empty", "payload"} =>
            /\ Len(fixed_buf) = Channel!HeaderWords
            /\ payload_size = sent[Current].payload

StreamInv == StreamTypeOK /\ WordsInv /\ BuffersInv /\ (~dropped => PlaceKept)

-----------------------------------------------------------------------------
(* Types.                                                                  *)

(* The lengths and the elements of the sequences.                          *)
LEMMA StreamTypes ==
    ASSUME StreamTypeOK
    PROVE  /\ stream \in Seq(SocketWord) /\ Len(stream) \in Nat
           /\ DOMAIN stream = 1 .. Len(stream)
           /\ out \in Seq(Word) /\ Len(out) \in Nat /\ DOMAIN out = 1 .. Len(out)
           /\ sent \in Seq(Shapes) /\ Len(sent) \in Nat
           /\ DOMAIN sent = 1 .. Len(sent)
           /\ outFds \in Seq(Fd) /\ Len(outFds) \in Nat
           /\ DOMAIN outFds = 1 .. Len(outFds)
           /\ fixed_buf \in Seq(Word) /\ Len(fixed_buf) \in Nat
           /\ Len(fixed_buf) <= 2
           /\ DOMAIN fixed_buf = 1 .. Len(fixed_buf)
           /\ payload \in Seq(Word) /\ Len(payload) \in Nat
           /\ DOMAIN payload = 1 .. Len(payload)
           /\ fds \in Seq(Fd)
           /\ received \in Seq([words : Seq(Word), fds : Seq(Fd)])
           /\ Len(received) \in Nat /\ DOMAIN received = 1 .. Len(received)
           /\ Channel!HeaderWords = 2
<1>1. Channel!HeaderWords = 2
    BY DEF Channel!HeaderWords
<1>2. Len(fixed_buf) \in Nat /\ Len(fixed_buf) <= 2
  <2>1. fixed_buf \in Seq(Word)
    BY DEF StreamTypeOK
  <2>2. Len(fixed_buf) <= 2
    BY DEF StreamTypeOK, Channel!HeaderWords
  <2>3. Len(fixed_buf) \in Nat
    BY <2>1, LenProperties
  <2> QED
    BY <2>2, <2>3
<1>3. /\ out \in Seq(Word) /\ sent \in Seq(Shapes) /\ outFds \in Seq(Fd)
      /\ fixed_buf \in Seq(Word) /\ payload \in Seq(Word) /\ fds \in Seq(Fd)
      /\ received \in Seq([words : Seq(Word), fds : Seq(Fd)])
    BY DEF StreamTypeOK
<1>4. stream \in Seq(SocketWord)
    BY DEF StreamTypeOK, SocketWord
<1>5. /\ Len(out) \in Nat /\ DOMAIN out = 1 .. Len(out)
      /\ Len(sent) \in Nat /\ DOMAIN sent = 1 .. Len(sent)
      /\ Len(outFds) \in Nat /\ DOMAIN outFds = 1 .. Len(outFds)
      /\ DOMAIN fixed_buf = 1 .. Len(fixed_buf)
    BY <1>3, LenProperties
<1>6. /\ Len(payload) \in Nat /\ DOMAIN payload = 1 .. Len(payload)
      /\ Len(received) \in Nat /\ DOMAIN received = 1 .. Len(received)
      /\ Len(stream) \in Nat /\ DOMAIN stream = 1 .. Len(stream)
    BY <1>3, <1>4, LenProperties
<1> QED
    BY <1>1, <1>2, <1>3, <1>4, <1>5, <1>6

(* The length of a packet.                                                 *)
LEMMA TotalType ==
    ASSUME StreamTypeOK, NEW n \in DOMAIN sent
    PROVE  /\ sent[n].payload \in Nat /\ sent[n].fds \in Nat
           /\ Total(sent, n) \in Nat /\ Total(sent, n) >= 2
           /\ Total(sent, n) = 2 + sent[n].payload
<1>1. sent[n] \in Shapes
    BY StreamTypes, ElementOfSeq
<1>2. sent[n].payload \in Nat /\ sent[n].fds \in Nat
    BY <1>1, StreamAssumption
<1> QED
    BY <1>2 DEF Total, Channel!HeaderWords

(* A read of the socket keeps its type.                                    *)
LEMMA ReadTypes ==
    ASSUME StreamTypeOK, NEW k \in 1 .. Len(stream), Consume(k)
    PROVE  stream' \in Seq(SocketWord) /\ waiting' = FALSE
    BY StreamTypes, ReadWords DEF Consume

(* The words of a new packet, and its descriptors.                         *)
NewWords(shape) == [off \in 1 .. Channel!HeaderWords + shape.payload |->
                       [pkt |-> Len(sent) + 1, off |-> off]]
NewFds(shape)   == [i \in 1 .. shape.fds |-> [pkt |-> Len(sent) + 1, arg |-> i]]

(* They are typed, and number what the packet's shape says.                *)
LEMMA NewTypes ==
    ASSUME StreamTypeOK, NEW shape \in Shapes, Len(sent) < MaxPackets
    PROVE  /\ shape.payload \in Nat /\ shape.fds \in Nat
           /\ NewWords(shape) \in Seq(Word)
           /\ Len(NewWords(shape)) = 2 + shape.payload
           /\ NewFds(shape) \in Seq(Fd) /\ Len(NewFds(shape)) = shape.fds
<1>1. /\ shape.payload \in Nat /\ shape.fds \in Nat /\ MaxPackets \in Nat
      /\ Len(sent) + 1 \in 1 .. MaxPackets /\ Channel!HeaderWords = 2
    BY StreamAssumption, StreamTypes
<1>2. NewWords(shape) \in [1 .. 2 + shape.payload -> Word]
    BY <1>1 DEF NewWords, Word
<1>3. NewFds(shape) \in [1 .. shape.fds -> Fd]
    BY <1>1 DEF NewFds, Fd
<1>4. 2 + shape.payload \in Nat
    BY <1>1
<1>5. NewWords(shape) \in Seq(Word) /\ Len(NewWords(shape)) = 2 + shape.payload
    BY <1>2, <1>4
<1>6. NewFds(shape) \in Seq(Fd) /\ Len(NewFds(shape)) = shape.fds
    BY <1>1, <1>3
<1> QED
    BY <1>1, <1>5, <1>6

(* The words of a flush.                                                   *)
Flushed(k) == [i \in 1 .. k |-> [pkt |-> out[i].pkt, off |-> out[i].off,
                                 fds |-> IF i = 1 THEN outFds ELSE <<>>,
                                 last |-> i = k]]

(* They are typed, and what is not flushed stays typed.                    *)
LEMMA FlushTypes ==
    ASSUME StreamTypeOK, NEW k \in DOMAIN out
    PROVE  /\ Flushed(k) \in Seq(SocketWord) /\ Len(Flushed(k)) = k
           /\ k \in 1 .. Len(out)
           /\ SubSeq(out, k + 1, Len(out)) \in Seq(Word)
           /\ Len(SubSeq(out, k + 1, Len(out))) = Len(out) - k
           /\ \A i \in 1 .. Len(out) - k :
                  SubSeq(out, k + 1, Len(out))[i] = out[i + k]
<1>1. k \in Nat /\ k \in 1 .. Len(out) /\ Len(out) \in Nat
    BY StreamTypes
<1>2. \A i \in 1 .. Len(out) : out[i] \in Word
    BY StreamTypes, ElementOfSeq
<1>3. \A i \in 1 .. k : i \in 1 .. Len(out)
    BY <1>1
<1>4. outFds \in Seq(Fd) /\ <<>> \in Seq(Fd)
    BY StreamTypes, EmptySeq
<1>5. \A i \in 1 .. k :
          [pkt |-> out[i].pkt, off |-> out[i].off,
           fds |-> IF i = 1 THEN outFds ELSE <<>>, last |-> i = k]
              \in SocketWord
  <2>1. TAKE i \in 1 .. k
  <2>2. out[i].pkt \in 1 .. MaxPackets /\ out[i].off \in Nat \ {0}
    BY <1>2, <1>3 DEF Word
  <2> QED
    BY <1>4, <2>2 DEF SocketWord
<1>6. Flushed(k) \in [1 .. k -> SocketWord]
    BY <1>5 DEF Flushed
<1>7. Flushed(k) \in Seq(SocketWord) /\ Len(Flushed(k)) = k
    BY <1>1, <1>6
<1>8. \A i \in k + 1 .. Len(out) : out[i] \in Word
    BY <1>1, <1>2
<1>9. /\ SubSeq(out, k + 1, Len(out)) \in Seq(Word)
      /\ Len(SubSeq(out, k + 1, Len(out)))
            = IF k + 1 <= Len(out) THEN Len(out) - (k + 1) + 1 ELSE 0
      /\ \A i \in 1 .. Len(out) - (k + 1) + 1 :
            SubSeq(out, k + 1, Len(out))[i] = out[k + 1 + i - 1]
    BY <1>1, <1>8, SubSeqProperties
<1> QED
    BY <1>1, <1>7, <1>9

(* A read for the header or for the payload keeps the types.               *)
LEMMA ReadsTyped ==
    ASSUME StreamTypeOK, BuffersInv,
           RecvFirst \/ RecvHeader \/ RecvPayload
    PROVE  StreamTypeOK'
<1>1. stream # <<>> /\ UNCHANGED << server, eof, payload_size, received, branches >>
    BY DEF RecvFirst, RecvHeader, RecvPayload
<1>2. \A wanted \in Nat \ {0} :
          /\ ReadLength(wanted) \in 1 .. wanted
          /\ ReadLength(wanted) \in 1 .. Len(stream)
    BY <1>1, StreamTypes, ReadLengthBounds
<1>3. CASE RecvFirst
  <2> DEFINE k == ReadLength(Channel!HeaderWords)
  <2>1. /\ Consume(k) /\ fixed_buf' = WordsRead(k) /\ fds' = FdsRead(k)
        /\ pc' = "header" /\ payload' = payload
    BY <1>3 DEF RecvFirst
  <2>2. /\ k \in 1 .. 2 /\ k \in 1 .. Len(stream)
        /\ stream \in Seq(SocketWord)
    <3>1. Channel!HeaderWords \in Nat \ {0} /\ Channel!HeaderWords = 2
      BY DEF Channel!HeaderWords
    <3> QED
      BY <1>2, <3>1, StreamTypes
  <2> HIDE DEF k
  <2>3. stream' \in Seq(SocketWord) /\ waiting' = FALSE
    BY <2>1, <2>2, ReadTypes
  <2>4. fixed_buf' \in Seq(Word) /\ Len(fixed_buf') = k /\ fds' \in Seq(Fd)
    BY <2>1, <2>2, ReadWords
  <2>5. Len(fixed_buf') <= 2
    BY <2>2, <2>4
  <2> QED
    BY <1>1, <2>1, <2>3, <2>4, <2>5
       DEF StreamTypeOK, SocketWord, server, branches, Channel!HeaderWords
<1>4. CASE RecvHeader
  <2> DEFINE k == ReadLength(Channel!HeaderWords - Len(fixed_buf))
  <2>1. /\ Consume(k) /\ fixed_buf' = fixed_buf \o WordsRead(k)
        /\ UNCHANGED << pc, payload, fds >> /\ Len(fixed_buf) < 2
    BY <1>4 DEF RecvHeader, Channel!HeaderWords
  <2>2. 2 - Len(fixed_buf) \in Nat \ {0}
    <3>1. Len(fixed_buf) \in Nat
      BY StreamTypes
    <3>2. Len(fixed_buf) < 2
      BY <2>1
    <3> QED
      BY <3>1, <3>2, Remaining
  <2>3. k \in 1 .. 2 - Len(fixed_buf) /\ k \in 1 .. Len(stream)
    BY <1>2, <2>2, StreamTypes
  <2> HIDE DEF k
  <2>4. /\ stream' \in Seq(SocketWord) /\ waiting' = FALSE
        /\ WordsRead(k) \in Seq(Word) /\ Len(WordsRead(k)) = k
    BY <2>1, <2>3, StreamTypes, ReadTypes, ReadWords
  <2>5. fixed_buf' \in Seq(Word) /\ Len(fixed_buf') = Len(fixed_buf) + k
    BY <2>1, <2>4, StreamTypes, ConcatProperties
  <2>6. Len(fixed_buf') <= 2
    BY <2>3, <2>5, StreamTypes
  <2> QED
    BY <1>1, <2>1, <2>4, <2>5, <2>6
       DEF StreamTypeOK, SocketWord, server, branches, Channel!HeaderWords
<1>5. CASE RecvPayload
  <2> DEFINE k == ReadLength(payload_size - Len(payload))
  <2>1. /\ Consume(k) /\ payload' = payload \o WordsRead(k)
        /\ UNCHANGED << pc, fixed_buf, fds >> /\ Len(payload) < payload_size
    BY <1>5 DEF RecvPayload
  <2>2. payload_size \in Nat
    BY DEF StreamTypeOK
  <2>3. payload_size - Len(payload) \in Nat \ {0}
    <3>1. Len(payload) \in Nat
      BY StreamTypes
    <3> QED
      BY <2>1, <2>2, <3>1
  <2>4. k \in 1 .. payload_size - Len(payload) /\ k \in 1 .. Len(stream)
    BY <1>2, <2>3
  <2> HIDE DEF k
  <2>5. /\ stream' \in Seq(SocketWord) /\ waiting' = FALSE
        /\ WordsRead(k) \in Seq(Word) /\ Len(WordsRead(k)) = k
    BY <2>1, <2>4, StreamTypes, ReadTypes, ReadWords
  <2>6. payload' \in Seq(Word) /\ Len(payload') = Len(payload) + k
    BY <2>1, <2>5, StreamTypes, ConcatProperties
  <2>7. Len(payload') <= payload_size
    BY <2>2, <2>4, <2>6, StreamTypes
  <2> QED
    BY <1>1, <2>1, <2>5, <2>6, <2>7
       DEF StreamTypeOK, SocketWord, server, branches
<1> QED
    BY <1>3, <1>4, <1>5

(* A packet sent and a flush keep the types.                               *)
LEMMA ServerTyped ==
    ASSUME StreamTypeOK,
           \/ \E shape \in Shapes : SendPacket(shape)
           \/ \E k \in DOMAIN out : Flush(k)
    PROVE  StreamTypeOK'
<1>1. ASSUME NEW shape \in Shapes, SendPacket(shape)
      PROVE  StreamTypeOK'
  <2>1. /\ Len(sent) < MaxPackets /\ sent' = Append(sent, shape)
        /\ out' = out \o NewWords(shape) /\ outFds' = outFds \o NewFds(shape)
        /\ UNCHANGED << stream, eof, pc, waiting, fixed_buf, payload,
                        payload_size, fds, received, branches >>
    BY <1>1 DEF SendPacket, NewWords, NewFds
  <2>2. /\ sent' \in Seq(Shapes) /\ out' \in Seq(Word) /\ outFds' \in Seq(Fd)
    BY <2>1, StreamTypes, NewTypes, AppendProperties, ConcatProperties
  <2> QED
    BY <2>1, <2>2 DEF StreamTypeOK, branches
<1>2. ASSUME NEW k \in DOMAIN out, Flush(k)
      PROVE  StreamTypeOK'
  <2>1. /\ stream' = stream \o Flushed(k) /\ out' = SubSeq(out, k + 1, Len(out))
        /\ outFds' = <<>> /\ mixed' = (mixed \/ MixesIn(k))
        /\ UNCHANGED << sent, eof, pc, waiting, fixed_buf, payload,
                        payload_size, fds, received, other, others, dropped >>
    BY <1>2 DEF Flush, Flushed
  <2>2. /\ stream' \in Seq(SocketWord) /\ out' \in Seq(Word)
        /\ outFds' \in Seq(Fd)
    BY <2>1, StreamTypes, FlushTypes, ConcatProperties, EmptySeq
  <2>3. mixed' \in BOOLEAN
    BY <2>1 DEF StreamTypeOK, MixesIn
  <2> QED
    BY <2>1, <2>2, <2>3 DEF StreamTypeOK, SocketWord
<1> QED
    BY <1>1, <1>2

(* Reading an empty payload touches nothing in the socket but descriptors. *)
LEMMA EmptyRead ==
    ASSUME StreamTypeOK, RecvEmptyPayload
    PROVE  /\ stream' \in Seq(SocketWord) /\ Len(stream') = Len(stream)
           /\ \A i \in 1 .. Len(stream) :
                /\ stream'[i].pkt = stream[i].pkt
                /\ stream'[i].off = stream[i].off
                /\ mixed' \/ stream'[i] = stream[i]
           /\ stream = <<>> => stream' = <<>>
           /\ mixed' \in BOOLEAN /\ (mixed => mixed')
<1>1. stream \in Seq(SocketWord) /\ mixed \in BOOLEAN
    BY StreamTypes DEF StreamTypeOK
<1>2. CASE stream = <<>>
  <2>1. UNCHANGED << stream, mixed >>
    BY <1>2 DEF RecvEmptyPayload
  <2> QED
    BY <1>1, <1>2, <2>1
<1>3. CASE stream # <<>>
  <2> DEFINE w == [stream[1] EXCEPT !.fds = <<>>]
  <2>1. /\ stream' = [stream EXCEPT ![1].fds = <<>>]
        /\ mixed' = (mixed \/ Head(stream).fds # <<>>)
    BY <1>3 DEF RecvEmptyPayload
  <2>2. Len(stream) \in Nat \ {0} /\ 1 \in 1 .. Len(stream)
    BY <1>1, <1>3, EmptySeq
  <2>3. stream[1] \in SocketWord /\ Head(stream) = stream[1]
    BY <1>1, <1>3, <2>2, ElementOfSeq
  <2>4. /\ w \in SocketWord /\ w.pkt = stream[1].pkt /\ w.off = stream[1].off
        /\ stream[1].fds = <<>> => w = stream[1]
    <3>1. <<>> \in Seq(Fd)
      BY EmptySeq
    <3> QED
      BY <2>3, <3>1 DEF SocketWord
  <2>5. stream' = [stream EXCEPT ![1] = w]
    BY <2>1
  <2> HIDE DEF w
  <2>6. /\ stream' \in Seq(SocketWord) /\ Len(stream') = Len(stream)
        /\ \A i \in 1 .. Len(stream) : stream'[i] = IF i = 1 THEN w ELSE stream[i]
    BY <1>1, <2>2, <2>4, <2>5, ExceptSeq
  <2> QED
    BY <1>1, <1>3, <2>1, <2>3, <2>4, <2>6
<1> QED
    BY <1>2, <1>3

(* The size that the header announces is a length.                         *)
LEMMA SizeType ==
    ASSUME StreamTypeOK, BuffersInv, HeaderComplete
    PROVE  PayloadSizes \subseteq Nat
<1>1. CASE Misread
    BY <1>1, StreamAssumption DEF PayloadSizes
<1>2. CASE ~Misread
  <2>1. 1 \in DOMAIN fixed_buf
    BY StreamTypes DEF HeaderComplete, Channel!HeaderWords
  <2>2. fixed_buf[1].pkt \in DOMAIN sent
    BY <2>1 DEF BuffersInv, Exists
  <2>3. sent[fixed_buf[1].pkt].payload \in Nat
    BY <2>2, TotalType
  <2> QED
    BY <1>2, <2>3 DEF PayloadSizes
<1> QED
    BY <1>1, <1>2

(* The empty sequence is a sequence of anything.                           *)
LEMMA EmptyTypes ==
    /\ <<>> \in Seq(Shapes) /\ <<>> \in Seq(Word) /\ <<>> \in Seq(Fd)
    /\ <<>> \in Seq(SocketWord)
    /\ <<>> \in Seq([words : Seq(Word), fds : Seq(Fd)]) /\ Len(<<>>) = 0
    BY EmptySeq

(* Initially the state is typed.                                           *)
LEMMA StreamTypesInitially == Init => StreamTypeOK
<1> SUFFICES ASSUME Init PROVE StreamTypeOK
    OBVIOUS
<1>1. MaxOthers \in Nat
    BY StreamAssumption
<1>2. /\ sent \in Seq(Shapes) /\ out \in Seq(Word) /\ outFds \in Seq(Fd)
      /\ stream \in Seq(SocketWord)
      /\ received \in Seq([words : Seq(Word), fds : Seq(Fd)])
    BY EmptyTypes DEF Init
<1>3. /\ fixed_buf \in Seq(Word) /\ payload \in Seq(Word) /\ fds \in Seq(Fd)
      /\ Len(fixed_buf) <= 2 /\ Len(payload) <= payload_size
      /\ payload_size \in Nat
    BY EmptyTypes DEF Init
<1>4. others \in 0 .. MaxOthers /\ pc = "first"
    BY <1>1 DEF Init
<1>5. {eof, waiting, other, dropped, mixed} \subseteq BOOLEAN
    BY DEF Init
<1> QED
    BY <1>2, <1>3, <1>4, <1>5 DEF StreamTypeOK, SocketWord, Channel!HeaderWords

(* Every step keeps the types.                                             *)
LEMMA StreamTypesKept ==
    ASSUME StreamTypeOK, BuffersInv, [Next]_vars
    PROVE  StreamTypeOK'
<1>1. CASE RecvFirst \/ RecvHeader \/ RecvPayload
    BY <1>1, ReadsTyped
<1>2. CASE \/ \E shape \in Shapes : SendPacket(shape)
           \/ \E k \in DOMAIN out : Flush(k)
    BY <1>2, ServerTyped
<1>3. CASE ReadSize
  <2>1. payload_size' \in PayloadSizes /\ HeaderComplete /\ pc = "header"
    BY <1>3 DEF ReadSize, HeaderComplete
  <2>2. payload_size' \in Nat
    BY <2>1, SizeType
  <2>3. payload = <<>> /\ Len(payload) = 0
    BY <2>1, EmptySeq DEF BuffersInv
  <2>4. pc' \in {"empty", "payload"}
    BY <1>3 DEF ReadSize
  <2>5. Len(payload) <= payload_size'
    BY <2>2, <2>3
  <2> QED
    BY <1>3, <2>2, <2>4, <2>5
       DEF StreamTypeOK, ReadSize, server, branches, Channel!HeaderWords
<1>4. CASE RecvEmptyPayload
    BY <1>4, EmptyRead
       DEF StreamTypeOK, SocketWord, RecvEmptyPayload, server, Channel!HeaderWords
<1>5. ASSUME Restart, UNCHANGED << server, stream, eof, others, mixed >>,
             other' \in BOOLEAN, dropped' \in BOOLEAN,
             received' \in Seq([words : Seq(Word), fds : Seq(Fd)])
      PROVE  StreamTypeOK'
  <2>1. /\ fixed_buf' \in Seq(Word) /\ payload' \in Seq(Word)
        /\ fds' \in Seq(Fd) /\ payload_size' \in Nat
        /\ Len(fixed_buf') <= 2 /\ Len(payload') <= payload_size'
    BY <1>5, EmptyTypes DEF Restart
  <2>2. pc' = "first" /\ waiting' = FALSE
    BY <1>5 DEF Restart
  <2> QED
    BY <1>5, <2>1, <2>2 DEF StreamTypeOK, server, Channel!HeaderWords
<1>6. CASE HeaderError
    BY <1>5, <1>6 DEF HeaderError, branches, StreamTypeOK
<1>7. CASE TakeOther
    BY <1>5, <1>7 DEF TakeOther, StreamTypeOK
<1>8. CASE ReturnPacket
  <2> DEFINE p == [words |-> fixed_buf \o payload, fds |-> fds]
  <2>1. p \in [words : Seq(Word), fds : Seq(Fd)]
    BY StreamTypes, ConcatProperties
  <2>2. received' = Append(received, p)
    BY <1>8 DEF ReturnPacket
  <2> HIDE DEF p
  <2>3. received' \in Seq([words : Seq(Word), fds : Seq(Fd)])
    BY <2>1, <2>2, StreamTypes, AppendProperties
  <2> QED
    BY <1>5, <1>8, <2>3 DEF ReturnPacket, branches, StreamTypeOK
<1>9. CASE RecvNothing
    BY <1>9 DEF RecvNothing, StreamTypeOK, server, branches, Channel!HeaderWords
<1>10. CASE Suspend \/ WakeAtEof
    BY <1>10 DEF Suspend, WakeAtEof, StreamTypeOK, server, branches,
                 Channel!HeaderWords
<1>11. CASE Close \/ OtherReady
  <2>1. others \in 0 .. MaxOthers /\ MaxOthers \in Nat
    BY StreamAssumption DEF StreamTypeOK
  <2>2. CASE Close
    BY <2>2 DEF Close, StreamTypeOK, server, branches, Channel!HeaderWords
  <2>3. CASE OtherReady
    <3>1. others' \in 0 .. MaxOthers
      BY <2>1, <2>3 DEF OtherReady
    <3> QED
      BY <2>3, <3>1 DEF OtherReady, StreamTypeOK, server, Channel!HeaderWords
  <2> QED
    BY <1>11, <2>2, <2>3
<1>12. CASE UNCHANGED vars
    BY <1>12 DEF vars, StreamTypeOK, server, branches, Channel!HeaderWords
<1> QED
    BY <1>1, <1>2, <1>3, <1>4, <1>6, <1>7, <1>8, <1>9, <1>10, <1>11, <1>12
       DEF Next, Recv

-----------------------------------------------------------------------------
(* Runs of words.                                                          *)

(* Words at the same place are followed by the same word.                  *)
LEMMA SamePlace ==
    ASSUME NEW s, NEW v, NEW w, Place(v) = Place(w)
    PROVE  After(s, v) = After(s, w) /\ (Exists(s, v) <=> Exists(s, w))
<1>1. v.pkt = w.pkt /\ v.off = w.off
    BY DEF Place
<1> QED
    BY <1>1 DEF After, Exists

(* r is q without its first k elements.                                    *)
Rest(r, q, k) ==
    Len(r) = Len(q) - k /\ \A i \in 1 .. Len(q) - k : r[i] = q[i + k]

(* What is left of a run is a run, which starts after what was taken.      *)
LEMMA RunsLeft ==
    ASSUME NEW S, NEW q \in Seq(S), NEW r \in Seq(S), NEW k \in 1 .. Len(q),
           Rest(r, q, k),
           NEW s, NEW e, Runs(s, q, e)
    PROVE  Runs(s, r, e) /\ First(r, e) = After(s, q[k])
<1>1. /\ Len(q) \in Nat /\ k \in Nat /\ k <= Len(q)
      /\ Len(r) = Len(q) - k /\ \A i \in 1 .. Len(q) - k : r[i] = q[i + k]
    BY LenProperties DEF Rest
<1>2. Runs(s, r, e)
  <2>1. SUFFICES ASSUME NEW i \in 1 .. Len(r)
                 PROVE  /\ Exists(s, r[i])
                        /\ After(s, r[i]) = IF i < Len(r) THEN Place(r[i + 1])
                                            ELSE e
    BY DEF Runs
  <2>2. /\ i \in Nat /\ i + k \in 1 .. Len(q) /\ r[i] = q[i + k]
        /\ i < Len(r) <=> i + k < Len(q)
        /\ i < Len(r) => i + 1 \in 1 .. Len(q) - k
    BY <1>1
  <2>3. i < Len(r) => r[i + 1] = q[i + k + 1]
    <3>1. i < Len(r) => r[i + 1] = q[(i + 1) + k]
      BY <1>1, <2>2
    <3> QED
      BY <1>1, <2>2, <3>1
  <2>4. /\ Exists(s, q[i + k])
        /\ After(s, q[i + k]) = IF i + k < Len(q) THEN Place(q[i + k + 1])
                                ELSE e
    BY <2>2 DEF Runs
  <2> QED
    BY <2>2, <2>3, <2>4
<1>3. After(s, q[k]) = IF k < Len(q) THEN Place(q[k + 1]) ELSE e
    BY DEF Runs
<1>4. CASE k < Len(q)
  <2>1. Len(r) # 0 /\ 1 \in 1 .. Len(q) - k
    BY <1>1, <1>4
  <2>2. r # <<>> /\ r[1] = q[k + 1]
    <3>1. r[1] = q[1 + k]
      BY <1>1, <2>1
    <3> QED
      BY <1>1, <2>1, <3>1, EmptySeq
  <2> QED
    BY <1>2, <1>3, <1>4, <2>2 DEF First
<1>5. CASE ~(k < Len(q))
  <2>1. Len(r) = 0
    BY <1>1, <1>5
  <2>2. r = <<>>
    BY <2>1, EmptySeq
  <2> QED
    BY <1>2, <1>3, <1>5, <2>2 DEF First
<1> QED
    BY <1>4, <1>5

(* A run that goes on where another one starts.                            *)
LEMMA RunsJoin ==
    ASSUME NEW S, NEW q \in Seq(S), NEW r \in Seq(S), NEW s, NEW e,
           Runs(s, q, First(r, e)), Runs(s, r, e)
    PROVE  Runs(s, q \o r, e) /\ First(q \o r, e) = First(q, First(r, e))
<1>1. Len(q) \in Nat /\ Len(r) \in Nat
    BY LenProperties
<1> DEFINE t == q \o r
<1>2. /\ t \in Seq(S) /\ Len(t) = Len(q) + Len(r)
      /\ \A i \in 1 .. Len(q) + Len(r) :
            t[i] = IF i <= Len(q) THEN q[i] ELSE r[i - Len(q)]
    BY ConcatProperties
<1>3. (q = <<>> <=> Len(q) = 0) /\ (r = <<>> <=> Len(r) = 0)
      /\ (t = <<>> <=> Len(t) = 0)
    BY <1>2, EmptySeq
<1> HIDE DEF t
<1>4. ASSUME NEW i \in 1 .. Len(t)
      PROVE  /\ Exists(s, t[i])
             /\ After(s, t[i]) = IF i < Len(t) THEN Place(t[i + 1]) ELSE e
  <2>1. CASE i < Len(q)
    <3>1. /\ i \in 1 .. Len(q) /\ t[i] = q[i] /\ t[i + 1] = q[i + 1]
          /\ i < Len(t)
      BY <1>1, <1>2, <2>1
    <3> QED
      BY <2>1, <3>1 DEF Runs
  <2>2. CASE i = Len(q)
    <3>1. i \in 1 .. Len(q) /\ t[i] = q[i] /\ ~(i < Len(q))
      BY <1>1, <1>2, <2>2
    <3>2. Exists(s, t[i]) /\ After(s, t[i]) = First(r, e)
      BY <3>1 DEF Runs
    <3>3. i < Len(t) <=> Len(r) # 0
      BY <1>1, <1>2, <2>2
    <3>4. Len(r) # 0 => t[i + 1] = r[1]
      <4>1. Len(r) # 0 => /\ i + 1 \in 1 .. Len(q) + Len(r)
                          /\ ~(i + 1 <= Len(q)) /\ i + 1 - Len(q) = 1
        BY <1>1, <2>2
      <4> QED
        BY <1>2, <4>1
    <3> QED
      BY <1>3, <3>2, <3>3, <3>4 DEF First
  <2>3. CASE i > Len(q)
    <3>1. PICK j \in 1 .. Len(r) : i = Len(q) + j
      <4>1. i - Len(q) \in 1 .. Len(r) /\ i = Len(q) + (i - Len(q))
        BY <1>1, <1>2, <2>3
      <4> QED
        BY <4>1
    <3>2. /\ t[i] = r[j] /\ (i < Len(t) <=> j < Len(r))
          /\ j < Len(r) => t[i + 1] = r[j + 1]
      <4>1. ~(i <= Len(q)) /\ i - Len(q) = j /\ (i < Len(t) <=> j < Len(r))
        BY <1>1, <1>2, <2>3, <3>1
      <4>2. j < Len(r) => /\ i + 1 \in 1 .. Len(q) + Len(r)
                          /\ ~(i + 1 <= Len(q)) /\ i + 1 - Len(q) = j + 1
        BY <1>1, <1>2, <2>3, <3>1
      <4> QED
        BY <1>2, <4>1, <4>2
    <3> QED
      BY <3>2 DEF Runs
  <2> QED
    BY <1>1, <1>2, <2>1, <2>2, <2>3
<1>5. First(t, e) = First(q, First(r, e))
  <2>1. CASE q = <<>>
    <3>1. t = r
      BY <2>1, ConcatEmptySeq DEF t
    <3> QED
      BY <2>1, <3>1 DEF First
  <2>2. CASE q # <<>>
    <3>1. t # <<>> /\ t[1] = q[1]
      BY <1>1, <1>2, <1>3, <2>2
    <3> QED
      BY <2>2, <3>1 DEF First
  <2> QED
    BY <2>1, <2>2
<1>6. Runs(s, t, e)
    BY <1>4 DEF Runs
<1> QED
    BY <1>5, <1>6 DEF t

(* The words at the places of the first ones of a run are a run, up to     *)
(* what is left.                                                           *)
LEMMA RunsTaken ==
    ASSUME NEW S, NEW q \in Seq(S), NEW r \in Seq(S), NEW k \in 1 .. Len(q),
           Rest(r, q, k),
           NEW G, NEW g \in Seq(G), Len(g) = k,
           \A i \in 1 .. k : Place(g[i]) = Place(q[i]),
           NEW s, NEW e, Runs(s, q, e)
    PROVE  Runs(s, g, First(r, e)) /\ First(g, First(r, e)) = First(q, e)
<1>1. Len(q) \in Nat /\ k \in Nat /\ k <= Len(q) /\ k >= 1
    BY LenProperties
<1>2. First(r, e) = After(s, q[k])
    BY RunsLeft
<1>3. ASSUME NEW i \in 1 .. Len(g)
      PROVE  /\ Exists(s, g[i])
             /\ After(s, g[i]) = IF i < Len(g) THEN Place(g[i + 1])
                                 ELSE First(r, e)
  <2>1. i \in 1 .. k /\ i \in 1 .. Len(q)
    BY <1>1
  <2>2. /\ Exists(s, q[i])
        /\ After(s, q[i]) = IF i < Len(q) THEN Place(q[i + 1]) ELSE e
    BY <2>1 DEF Runs
  <2>3. Exists(s, g[i]) /\ After(s, g[i]) = After(s, q[i])
    BY <2>1, <2>2, SamePlace
  <2>4. CASE i < k
    <3>1. i + 1 \in 1 .. k /\ i < Len(q)
      BY <1>1, <2>1, <2>4
    <3> QED
      BY <2>2, <2>3, <2>4, <3>1
  <2>5. CASE ~(i < k)
    <3>1. i = k
      BY <1>1, <2>1, <2>5
    <3> QED
      BY <1>2, <2>3, <2>5, <3>1
  <2> QED
    BY <2>4, <2>5
<1>4. Runs(s, g, First(r, e))
    BY <1>3 DEF Runs
<1>5. q # <<>> /\ g # <<>> /\ Place(g[1]) = Place(q[1])
    BY <1>1, EmptySeq
<1> QED
    BY <1>4, <1>5 DEF First

(* A packet more does not change the runs of words of the others.          *)
LEMMA RunsGrow ==
    ASSUME NEW S, NEW s \in Seq(S), NEW shape \in S, NEW q, NEW e, Runs(s, q, e)
    PROVE  Runs(Append(s, shape), q, e)
<1> DEFINE t == Append(s, shape)
<1>1. /\ Len(s) \in Nat /\ DOMAIN s = 1 .. Len(s)
      /\ DOMAIN t = 1 .. Len(s) + 1
      /\ \A n \in DOMAIN s : n \in DOMAIN t /\ t[n] = s[n]
    BY LenProperties, AppendProperties
<1> HIDE DEF t
<1>2. ASSUME NEW w, Exists(s, w)
      PROVE  Exists(t, w) /\ After(t, w) = After(s, w)
    BY <1>1, <1>2 DEF Exists, After, Total
<1>3. Runs(t, q, e)
    BY <1>2 DEF Runs
<1> QED
    BY <1>3 DEF t

(* The words of the new packet are a run from the end to the new end.      *)
LEMMA NewRun ==
    ASSUME StreamTypeOK, NEW shape \in Shapes, Len(sent) < MaxPackets
    PROVE  /\ Runs(Append(sent, shape), NewWords(shape), Start(Len(sent) + 2))
           /\ First(NewWords(shape), Start(Len(sent) + 2)) = WritePlace
<1> DEFINE t == Append(sent, shape)
           n == Len(sent) + 1
           g == NewWords(shape)
<1>1. /\ sent \in Seq(Shapes) /\ Len(sent) \in Nat
      /\ n \in DOMAIN t /\ t[n] = shape /\ n + 1 = Len(sent) + 2
    BY StreamTypes, AppendProperties
<1>2. /\ shape.payload \in Nat /\ g \in Seq(Word)
      /\ Len(g) = 2 + shape.payload
    BY NewTypes
<1>3. \A i \in 1 .. 2 + shape.payload : g[i] = [pkt |-> n, off |-> i]
    BY DEF NewWords, Channel!HeaderWords
<1> HIDE DEF t, n, g
<1>4. Total(t, n) = 2 + shape.payload
    BY <1>1 DEF Total, Channel!HeaderWords
<1>5. ASSUME NEW i \in 1 .. Len(g)
      PROVE  /\ Exists(t, g[i])
             /\ After(t, g[i]) = IF i < Len(g) THEN Place(g[i + 1])
                                 ELSE Start(n + 1)
  <2>1. i \in 1 .. Total(t, n) /\ g[i] = [pkt |-> n, off |-> i] /\ i \in Nat
    BY <1>2, <1>3, <1>4
  <2>2. Exists(t, g[i])
    BY <1>1, <2>1 DEF Exists
  <2>3. CASE i < Len(g)
    <3>1. g[i + 1] = [pkt |-> n, off |-> i + 1]
      BY <1>2, <1>3, <2>1, <2>3
    <3> QED
      BY <1>2, <1>4, <2>1, <2>2, <2>3, <3>1 DEF After, Place
  <2>4. CASE ~(i < Len(g))
    BY <1>2, <1>4, <2>1, <2>2, <2>4 DEF After
  <2> QED
    BY <2>3, <2>4
<1>6. Runs(t, g, Start(n + 1))
    BY <1>5 DEF Runs
<1>7. g # <<>> /\ g[1] = [pkt |-> n, off |-> 1]
    BY <1>2, <1>3, EmptySeq
<1>8. First(g, Start(n + 1)) = Start(n)
    BY <1>7 DEF First, Place, Start
<1> QED
    BY <1>1, <1>6, <1>8 DEF t, n, g, WritePlace

(* The words that lie ahead of the client within its packet are those that *)
(* it is waiting for.                                                      *)
LEMMA RunsAhead ==
    ASSUME NEW S, NEW q \in Seq(S), NEW s, NEW e, Runs(s, q, e),
           NEW n \in Nat, NEW b \in Nat \ {0}, NEW k \in 1 .. Len(q),
           First(q, e) = [pkt |-> n, off |-> b],
           Total(s, n) \in Nat, b + k - 1 <= Total(s, n)
    PROVE  \A i \in 1 .. k : Place(q[i]) = [pkt |-> n, off |-> b + i - 1]
<1>1. Len(q) \in Nat /\ k \in Nat /\ k <= Len(q) /\ k >= 1
    BY LenProperties
<1> DEFINE T == {i \in 1 .. k : Place(q[i]) # [pkt |-> n, off |-> b + i - 1]}
<1>2. Place(q[1]) = [pkt |-> n, off |-> b]
  <2>1. q # <<>>
    BY <1>1, EmptySeq
  <2> QED
    BY <2>1 DEF First
<1>3. T = {}
  <2>1. SUFFICES ASSUME T # {} PROVE FALSE
    OBVIOUS
  <2>2. T \subseteq Nat
    BY <1>1
  <2>3. PICK i \in T : \A j \in T : i <= j
    BY <2>1, <2>2, LeastNumber
  <2>4. i \in 1 .. k /\ i # 1
    BY <1>1, <1>2
  <2>5. /\ i - 1 \in 1 .. k /\ i - 1 \notin T /\ i - 1 < Len(q)
        /\ i - 1 \in 1 .. Len(q) /\ (i - 1) + 1 = i
    BY <1>1, <2>3, <2>4
  <2>6. Place(q[i - 1]) = [pkt |-> n, off |-> b + (i - 1) - 1]
    BY <2>5
  <2>7. After(s, q[i - 1]) = Place(q[i])
    BY <2>5 DEF Runs
  <2>8. q[i - 1].pkt = n /\ q[i - 1].off = b + (i - 1) - 1
    BY <2>6 DEF Place
  <2>9. q[i - 1].off < Total(s, n) /\ q[i - 1].off + 1 = b + i - 1
    BY <1>1, <2>4, <2>8
  <2>10. Place(q[i]) = [pkt |-> n, off |-> b + i - 1]
    BY <2>7, <2>8, <2>9 DEF After
  <2> QED
    BY <2>10
<1> QED
    BY <1>3

(* Runs are about places.                                                  *)
LEMMA RunsSame ==
    ASSUME NEW S, NEW q \in Seq(S), NEW r \in Seq(S), Len(r) = Len(q),
           \A i \in 1 .. Len(q) : Place(r[i]) = Place(q[i]),
           NEW s, NEW e, Runs(s, q, e)
    PROVE  Runs(s, r, e) /\ First(r, e) = First(q, e)
<1>1. Len(q) \in Nat
    BY LenProperties
<1>2. ASSUME NEW i \in 1 .. Len(r)
      PROVE  /\ Exists(s, r[i])
             /\ After(s, r[i]) = IF i < Len(r) THEN Place(r[i + 1]) ELSE e
  <2>1. /\ Exists(s, q[i])
        /\ After(s, q[i]) = IF i < Len(q) THEN Place(q[i + 1]) ELSE e
    BY DEF Runs
  <2>2. Exists(s, r[i]) /\ After(s, r[i]) = After(s, q[i])
    BY <2>1, SamePlace
  <2>3. i < Len(q) => i + 1 \in 1 .. Len(q)
    BY <1>1
  <2> QED
    BY <2>1, <2>2, <2>3
<1>3. First(r, e) = First(q, e)
  <2>1. (q = <<>> <=> Len(q) = 0) /\ (r = <<>> <=> Len(r) = 0)
    BY EmptySeq
  <2>2. Len(q) # 0 => Place(r[1]) = Place(q[1])
    BY <1>1
  <2> QED
    BY <2>1, <2>2 DEF First
<1> QED
    BY <1>2, <1>3 DEF Runs

-----------------------------------------------------------------------------
(* No word is lost or repeated on the way.                                 *)

(* A read moves the client past the words it took.                         *)
LEMMA ReadKeepsWords ==
    ASSUME StreamTypeOK, WordsInv, NEW k \in 1 .. Len(stream), Consume(k),
           UNCHANGED server
    PROVE  WordsInv' /\ ReadPlace' = After(sent, stream[k])
<1>1. /\ stream \in Seq(SocketWord) /\ stream' \in Seq(SocketWord)
      /\ Rest(stream', stream, k)
    BY StreamTypes, ReadWords DEF Rest, Consume
<1>2. UNCHANGED << sent, out >>
    BY DEF server
<1>3. WritePlace' = WritePlace /\ FlushPlace' = FlushPlace
    BY <1>2 DEF WritePlace, FlushPlace
<1>4. Runs(sent, stream, FlushPlace)
    BY DEF WordsInv
<1>5. /\ Runs(sent, stream', FlushPlace)
      /\ First(stream', FlushPlace) = After(sent, stream[k])
    BY <1>1, <1>4, RunsLeft
<1> QED
    BY <1>2, <1>3, <1>5 DEF WordsInv, ReadPlace

(* Sending a packet adds words at the end.                                 *)
LEMMA SendKeepsWords ==
    ASSUME StreamTypeOK, WordsInv, NEW shape \in Shapes, SendPacket(shape)
    PROVE  WordsInv' /\ ReadPlace' = ReadPlace
<1> DEFINE t == Append(sent, shape)
           g == NewWords(shape)
           e == Start(Len(sent) + 2)
<1>1. /\ Len(sent) < MaxPackets /\ sent' = t /\ out' = out \o g
      /\ UNCHANGED stream
    BY DEF SendPacket, NewWords
<1>2. /\ out \in Seq(Word) /\ g \in Seq(Word) /\ sent \in Seq(Shapes)
      /\ Len(sent) \in Nat /\ Len(t) = Len(sent) + 1
    BY <1>1, StreamTypes, NewTypes, AppendProperties
<1>3. Runs(t, g, e) /\ First(g, e) = WritePlace
    BY <1>1, NewRun
<1>4. Runs(t, out, WritePlace) /\ Runs(t, stream, FlushPlace)
    BY <1>2, RunsGrow DEF WordsInv
<1>5. WritePlace' = e
    BY <1>1, <1>2 DEF WritePlace
<1> HIDE DEF t, g, e
<1>6. Runs(t, out \o g, e) /\ First(out \o g, e) = First(out, WritePlace)
    BY <1>2, <1>3, <1>4, RunsJoin
<1>7. FlushPlace' = FlushPlace
    BY <1>1, <1>5, <1>6 DEF FlushPlace
<1> QED
    BY <1>1, <1>4, <1>5, <1>6, <1>7 DEF WordsInv, ReadPlace

(* A flush moves words from one run to the next.                           *)
LEMMA FlushKeepsWords ==
    ASSUME StreamTypeOK, WordsInv, NEW k \in DOMAIN out, Flush(k)
    PROVE  WordsInv' /\ ReadPlace' = ReadPlace
<1> DEFINE r == SubSeq(out, k + 1, Len(out))
           g == Flushed(k)
<1>1. stream' = stream \o g /\ out' = r /\ UNCHANGED sent
    BY DEF Flush, Flushed
<1>2. /\ out \in Seq(Word) /\ r \in Seq(Word) /\ g \in Seq(SocketWord)
      /\ stream \in Seq(SocketWord) /\ k \in 1 .. Len(out) /\ Len(g) = k
      /\ Rest(r, out, k)
    BY StreamTypes, FlushTypes DEF Rest
<1>3. \A i \in 1 .. k : Place(g[i]) = Place(out[i])
    BY DEF Flushed, Place
<1>4. WritePlace' = WritePlace
    BY <1>1 DEF WritePlace
<1>5. Runs(sent, out, WritePlace) /\ Runs(sent, stream, FlushPlace)
    BY DEF WordsInv
<1> HIDE DEF r, g
<1>6. Runs(sent, r, WritePlace)
    BY <1>2, <1>5, RunsLeft
<1>7. /\ Runs(sent, g, First(r, WritePlace))
      /\ First(g, First(r, WritePlace)) = FlushPlace
    BY <1>2, <1>3, <1>5, RunsTaken DEF FlushPlace
<1>8. FlushPlace' = First(r, WritePlace)
    BY <1>1, <1>4 DEF FlushPlace
<1>9. /\ Runs(sent, stream \o g, FlushPlace')
      /\ First(stream \o g, FlushPlace') = First(stream, FlushPlace)
    BY <1>2, <1>5, <1>7, <1>8, RunsJoin
<1> QED
    BY <1>1, <1>4, <1>6, <1>8, <1>9 DEF WordsInv, ReadPlace

(* Reading an empty payload moves no word.                                 *)
LEMMA EmptyReadKeepsWords ==
    ASSUME StreamTypeOK, WordsInv, RecvEmptyPayload
    PROVE  WordsInv' /\ ReadPlace' = ReadPlace
<1>1. UNCHANGED << sent, out >>
    BY DEF RecvEmptyPayload, server
<1>2. /\ stream \in Seq(SocketWord) /\ stream' \in Seq(SocketWord)
      /\ Len(stream') = Len(stream)
      /\ \A i \in 1 .. Len(stream) : Place(stream'[i]) = Place(stream[i])
    BY StreamTypes, EmptyRead DEF Place
<1>3. WritePlace' = WritePlace /\ FlushPlace' = FlushPlace
    BY <1>1 DEF WritePlace, FlushPlace
<1>4. /\ Runs(sent, stream', FlushPlace)
      /\ First(stream', FlushPlace) = First(stream, FlushPlace)
    BY <1>2, RunsSame DEF WordsInv
<1> QED
    BY <1>1, <1>3, <1>4 DEF WordsInv, ReadPlace

(* So does everything else.                                                *)
LEMMA RestKeepsWords ==
    ASSUME WordsInv, UNCHANGED << sent, out, stream >>
    PROVE  WordsInv' /\ ReadPlace' = ReadPlace
    BY DEF WordsInv, ReadPlace, FlushPlace, WritePlace

(* Steps other than those that send, flush and read.                       *)
Elsewhere == \/ RecvNothing \/ ReadSize \/ HeaderError \/ ReturnPacket
             \/ Suspend \/ WakeAtEof \/ TakeOther \/ Close \/ OtherReady
             \/ UNCHANGED vars

(* They touch no word on its way.                                          *)
LEMMA ElsewhereKeepsWords ==
    ASSUME WordsInv, Elsewhere
    PROVE  /\ UNCHANGED << sent, out, outFds, stream >>
           /\ WordsInv' /\ ReadPlace' = ReadPlace
<1>1. UNCHANGED << sent, out, outFds, stream >>
    BY DEF Elsewhere, RecvNothing, ReadSize, HeaderError, ReturnPacket, Suspend,
           WakeAtEof, TakeOther, Close, OtherReady, vars, server
<1> QED
    BY <1>1, RestKeepsWords

-----------------------------------------------------------------------------
(* What the future holds belongs to its phase.                             *)

(* A word read is a word sent.                                             *)
LEMMA ReadExists ==
    ASSUME StreamTypeOK, WordsInv, NEW k \in 1 .. Len(stream)
    PROVE  \A i \in 1 .. k : Exists(sent, WordsRead(k)[i])
<1>1. TAKE i \in 1 .. k
<1>2. i \in 1 .. Len(stream) /\ WordsRead(k)[i] = Place(stream[i])
  <2>1. Len(stream) \in Nat /\ stream \in Seq(SocketWord)
    BY StreamTypes
  <2>2. i \in 1 .. Len(stream)
    BY <2>1
  <2>3. \A j \in 1 .. k : WordsRead(k)[j] = Place(stream[j])
    BY <2>1, ReadWords
  <2> QED
    BY <2>2, <2>3
<1>3. Exists(sent, stream[i])
    BY <1>2 DEF WordsInv, Runs
<1> QED
    BY <1>2, <1>3 DEF Exists, Place

(* Reading the header keeps what was read known.                           *)
LEMMA HeaderKnown ==
    ASSUME StreamTypeOK, WordsInv, BuffersInv, RecvFirst \/ RecvHeader
    PROVE  /\ \A i \in DOMAIN fixed_buf' : Exists(sent, fixed_buf'[i])
           /\ UNCHANGED sent
<1>1. stream # <<>> /\ UNCHANGED sent
    BY DEF RecvFirst, RecvHeader, server
<1>2. CASE RecvFirst
  <2> DEFINE k == ReadLength(Channel!HeaderWords)
  <2>1. fixed_buf' = WordsRead(k)
    BY <1>2 DEF RecvFirst
  <2>2. k \in 1 .. Len(stream)
    <3>1. Channel!HeaderWords \in Nat \ {0}
      BY DEF Channel!HeaderWords
    <3> QED
      BY <1>1, <3>1, StreamTypes, ReadLengthBounds
  <2> HIDE DEF k
  <2>3. DOMAIN fixed_buf' = 1 .. k
    BY <2>1 DEF WordsRead
  <2> QED
    BY <1>1, <2>1, <2>2, <2>3, ReadExists
<1>3. CASE RecvHeader
  <2> DEFINE k == ReadLength(Channel!HeaderWords - Len(fixed_buf))
  <2>1. fixed_buf' = fixed_buf \o WordsRead(k) /\ Len(fixed_buf) < 2
    BY <1>3 DEF RecvHeader, Channel!HeaderWords
  <2>2. k \in 1 .. Len(stream)
    <3>1. Len(fixed_buf) \in Nat /\ Channel!HeaderWords = 2
      BY StreamTypes
    <3>2. Len(fixed_buf) < 2
      BY <2>1
    <3>3. Channel!HeaderWords - Len(fixed_buf) \in Nat \ {0}
      BY <3>1, <3>2, Remaining
    <3> QED
      BY <1>1, <3>3, StreamTypes, ReadLengthBounds
  <2> HIDE DEF k
  <2>3. WordsRead(k) \in Seq(Word) /\ Len(WordsRead(k)) = k
    BY <2>2, StreamTypes, ReadWords
  <2>4. /\ DOMAIN fixed_buf' = 1 .. Len(fixed_buf) + k
        /\ \A i \in 1 .. Len(fixed_buf) + k :
              fixed_buf'[i] = IF i <= Len(fixed_buf) THEN fixed_buf[i]
                              ELSE WordsRead(k)[i - Len(fixed_buf)]
    <3>1. fixed_buf \in Seq(Word)
      BY StreamTypes
    <3> QED
      BY <2>1, <2>3, <3>1, ConcatProperties, LenProperties
  <2>5. ASSUME NEW i \in DOMAIN fixed_buf'
        PROVE  Exists(sent, fixed_buf'[i])
    <3>1. CASE i <= Len(fixed_buf)
      <4>1. i \in DOMAIN fixed_buf /\ fixed_buf'[i] = fixed_buf[i]
        BY <2>4, <3>1, StreamTypes
      <4> QED
        BY <4>1 DEF BuffersInv
    <3>2. CASE ~(i <= Len(fixed_buf))
      <4>1. Len(fixed_buf) \in Nat
        BY StreamTypes
      <4>2. i - Len(fixed_buf) \in 1 .. k
        BY <2>2, <2>4, <3>2, <4>1
      <4> QED
        BY <2>2, <2>4, <3>2, <4>2, ReadExists
    <3> QED
      BY <3>1, <3>2
  <2> QED
    BY <1>1, <2>5
<1> QED
    BY <1>2, <1>3

(* Every step keeps the buffers to their phases.                           *)
LEMMA BuffersKept ==
    ASSUME StreamTypeOK, WordsInv, BuffersInv, [Next]_vars
    PROVE  BuffersInv'
<1>1. CASE RecvFirst \/ RecvHeader
  <2>1. pc' = "header" /\ payload' = payload /\ pc \in {"first", "header"}
    BY <1>1 DEF RecvFirst, RecvHeader
  <2> QED
    BY <1>1, <2>1, HeaderKnown DEF BuffersInv
<1>2. ASSUME UNCHANGED << sent, fixed_buf, payload >>,
             \/ pc' = "payload" \/ pc' = pc
             \/ pc' \in {"header", "empty"} /\ pc \in {"first", "header"}
      PROVE  BuffersInv'
    BY <1>2 DEF BuffersInv
<1>3. CASE RecvNothing \/ ReadSize \/ RecvEmptyPayload
    BY <1>2, <1>3 DEF RecvNothing, ReadSize, HeaderComplete, RecvEmptyPayload, server
<1>4. CASE RecvPayload
    BY <1>4 DEF RecvPayload, BuffersInv, server
<1>5. CASE \/ Suspend \/ WakeAtEof \/ Close \/ OtherReady \/ UNCHANGED vars
           \/ \E k \in DOMAIN out : Flush(k)
    BY <1>2, <1>5 DEF Suspend, WakeAtEof, Close, OtherReady, vars, Flush, server
<1>6. CASE HeaderError \/ ReturnPacket \/ TakeOther
  <2>1. fixed_buf' = <<>> /\ payload' = <<>>
    BY <1>6 DEF HeaderError, ReturnPacket, TakeOther, Restart
  <2>2. DOMAIN fixed_buf' = {}
    BY <2>1
  <2> QED
    BY <2>1, <2>2 DEF BuffersInv
<1>7. ASSUME NEW shape \in Shapes, SendPacket(shape)
      PROVE  BuffersInv'
  <2>1. sent' = Append(sent, shape) /\ UNCHANGED << pc, fixed_buf, payload >>
    BY <1>7 DEF SendPacket
  <2>2. \A w : Exists(sent, w) => Exists(sent', w)
    <3>1. /\ DOMAIN sent = 1 .. Len(sent) /\ Len(sent) \in Nat
          /\ DOMAIN sent' = 1 .. Len(sent) + 1
          /\ \A n \in DOMAIN sent : n \in DOMAIN sent' /\ sent'[n] = sent[n]
      BY <2>1, StreamTypes, AppendProperties, LenProperties
    <3> QED
      BY <3>1 DEF Exists, Total
  <2> QED
    BY <2>1, <2>2 DEF BuffersInv
<1> QED
    BY <1>1, <1>3, <1>4, <1>5, <1>6, <1>7 DEF Next, Recv

-----------------------------------------------------------------------------
(* The client keeps its place.                                             *)

(* The words in the socket are those that the client is waiting for.       *)
LEMMA NextWords ==
    ASSUME StreamTypeOK, WordsInv, PlaceKept, NEW k \in 1 .. Len(stream),
           Consume(k), UNCHANGED server,
           \/ fixed_buf = <<>> /\ payload = <<>> /\ k <= 2
           \/ fixed_buf # <<>> /\ Taken + k <= Total(sent, Current)
    PROVE  /\ Current \in DOMAIN sent
           /\ \A i \in 1 .. k :
                  WordsRead(k)[i] = [pkt |-> Current, off |-> Taken + i]
           /\ ReadPlace' = After(sent, [pkt |-> Current, off |-> Taken + k])
<1>1. /\ stream \in Seq(SocketWord) /\ Len(stream) \in Nat /\ stream # <<>>
      /\ k \in Nat /\ k >= 1
  <2>1. stream \in Seq(SocketWord) /\ Len(stream) \in Nat
    BY StreamTypes
  <2> QED
    BY <2>1, EmptySeq
<1>2. /\ Runs(sent, stream, FlushPlace) /\ ReadPlace = Place(stream[1])
      /\ ReadPlace = First(stream, FlushPlace)
    BY <1>1 DEF WordsInv, ReadPlace, First
<1>3. Len(received) \in Nat /\ Current \in Nat
    BY StreamTypes DEF Current
<1>4. Len(fixed_buf) \in Nat /\ Len(payload) \in Nat /\ Taken \in Nat
  <2>1. Len(fixed_buf) \in Nat /\ Len(payload) \in Nat
    BY StreamTypes
  <2> QED
    BY <2>1 DEF Taken
<1>5. /\ Current \in DOMAIN sent /\ Taken + k <= Total(sent, Current)
      /\ ReadPlace = [pkt |-> Current, off |-> Taken + 1]
  <2>1. CASE fixed_buf = <<>>
    <3>1. Taken = 0 /\ ReadPlace = Start(Current) /\ k <= 2
      BY <2>1, EmptySeq DEF Taken, PlaceKept
    <3>2. Place(stream[1]) = [pkt |-> Current, off |-> 1]
      BY <1>2, <3>1 DEF Start
    <3>3. 1 \in 1 .. Len(stream)
      BY <1>1
    <3>4. Exists(sent, stream[1])
      BY <1>2, <3>3 DEF Runs
    <3>5. Current \in DOMAIN sent
      BY <3>2, <3>4 DEF Exists, Place
    <3>6. Total(sent, Current) \in Nat /\ Total(sent, Current) >= 2
      BY <3>5, TotalType
    <3> QED
      BY <1>1, <3>1, <3>5, <3>6 DEF Start
  <2>2. CASE fixed_buf # <<>>
    <3>1. /\ Current \in DOMAIN sent /\ Taken + k <= Total(sent, Current)
          /\ ReadPlace = After(sent, [pkt |-> Current, off |-> Taken])
      BY <2>2 DEF PlaceKept
    <3>2. Total(sent, Current) \in Nat
      BY <3>1, TotalType
    <3>3. Taken < Total(sent, Current)
      BY <1>1, <1>4, <3>1, <3>2
    <3> QED
      BY <3>1, <3>3 DEF After
  <2> QED
    BY <2>1, <2>2
<1>6. Total(sent, Current) \in Nat
    BY <1>5, TotalType
<1>7. /\ Taken + 1 \in Nat \ {0} /\ (Taken + 1) + k - 1 <= Total(sent, Current)
    BY <1>1, <1>4, <1>5, <1>6
<1>8. \A i \in 1 .. k :
          Place(stream[i]) = [pkt |-> Current, off |-> (Taken + 1) + i - 1]
  <2>1. First(stream, FlushPlace) = [pkt |-> Current, off |-> Taken + 1]
    BY <1>2, <1>5
  <2> QED
    BY <1>1, <1>2, <1>3, <1>6, <1>7, <2>1, RunsAhead
<1>9. \A i \in 1 .. k : (Taken + 1) + i - 1 = Taken + i
    BY <1>1, <1>4
<1>10. \A i \in 1 .. k :
           WordsRead(k)[i] = [pkt |-> Current, off |-> Taken + i]
    BY <1>1, <1>8, <1>9, ReadWords
<1>11. Place(stream[k]) = [pkt |-> Current, off |-> Taken + k]
    BY <1>1, <1>8, <1>9
<1>12. ReadPlace' = After(sent, [pkt |-> Current, off |-> Taken + k])
  <2> DEFINE w == [pkt |-> Current, off |-> Taken + k]
  <2>1. Place(stream[k]) = Place(w)
    BY <1>11 DEF Place
  <2> HIDE DEF w
  <2>2. After(sent, stream[k]) = After(sent, w)
    BY <2>1, SamePlace
  <2> QED
    BY <2>2, ReadKeepsWords DEF w
<1> QED
    BY <1>5, <1>10, <1>12

(* What was returned stays what was sent.                                  *)
LEMMA FramingStays ==
    ASSUME PlaceKept, UNCHANGED << sent, received >>
    PROVE  FramingKept' /\ Current' = Current
    BY DEF PlaceKept, FramingKept, Current, Channel!Words

(* A read of a whole new packet or for the rest of a header.               *)
LEMMA HeaderKeepsPlace ==
    ASSUME StreamTypeOK, WordsInv, BuffersInv, PlaceKept,
           RecvFirst \/ RecvHeader
    PROVE  PlaceKept'
<1>1. /\ stream # <<>> /\ UNCHANGED << server, received, payload >>
      /\ pc' = "header" /\ payload = <<>>
    BY DEF RecvFirst, RecvHeader, BuffersInv
<1>2. Len(fixed_buf) \in Nat /\ Channel!HeaderWords = 2 /\ fixed_buf \in Seq(Word)
      /\ stream \in Seq(SocketWord)
    BY StreamTypes
<1>3. PICK k \in 1 .. Len(stream) :
          /\ Consume(k) /\ k \in Nat \ {0} /\ Len(fixed_buf) + k <= 2
          /\ fixed_buf' = fixed_buf \o WordsRead(k)
  <2>1. CASE RecvFirst
    <3>1. fixed_buf = <<>> /\ Len(fixed_buf) = 0
      BY <2>1, EmptySeq DEF RecvFirst, BuffersInv
    <3> DEFINE k == ReadLength(Channel!HeaderWords)
    <3>2. k \in 1 .. 2 /\ k \in 1 .. Len(stream)
      <4>1. Channel!HeaderWords \in Nat \ {0}
        BY <1>2
      <4> QED
        BY <1>1, <1>2, <4>1, ReadLengthBounds
    <3>3. Consume(k) /\ fixed_buf' = WordsRead(k)
      BY <2>1 DEF RecvFirst
    <3> HIDE DEF k
    <3>4. fixed_buf' = fixed_buf \o WordsRead(k)
      <4>1. WordsRead(k) \in Seq(Word)
        BY <1>2, <3>2, ReadWords
      <4> QED
        BY <3>1, <3>3, <4>1, ConcatEmptySeq
    <3> QED
      BY <3>1, <3>2, <3>3, <3>4
  <2>2. CASE RecvHeader
    <3> DEFINE k == ReadLength(Channel!HeaderWords - Len(fixed_buf))
    <3>1. Len(fixed_buf) < 2
      BY <2>2 DEF RecvHeader, Channel!HeaderWords
    <3>2. Channel!HeaderWords - Len(fixed_buf) \in Nat \ {0}
      BY <1>2, <3>1, Remaining
    <3>3. k \in 1 .. 2 - Len(fixed_buf) /\ k \in 1 .. Len(stream)
      BY <1>1, <1>2, <3>2, ReadLengthBounds
    <3>4. Consume(k) /\ fixed_buf' = fixed_buf \o WordsRead(k)
      BY <2>2 DEF RecvHeader
    <3> HIDE DEF k
    <3> QED
      BY <1>2, <3>3, <3>4
  <2> QED
    BY <2>1, <2>2
<1>4. Len(payload) = 0 /\ Taken = Len(fixed_buf)
    BY <1>1, <1>2, EmptySeq DEF Taken
<1>5. /\ Current \in DOMAIN sent
      /\ \A i \in 1 .. k :
            WordsRead(k)[i] = [pkt |-> Current, off |-> Taken + i]
      /\ ReadPlace' = After(sent, [pkt |-> Current, off |-> Taken + k])
  <2>1. CASE fixed_buf = <<>>
    <3>1. k <= 2
      BY <1>2, <1>3
    <3> QED
      BY <1>1, <1>3, <2>1, <3>1, NextWords
  <2>2. CASE fixed_buf # <<>>
    <3>1. Current \in DOMAIN sent
      BY <2>2 DEF PlaceKept
    <3>2. Total(sent, Current) \in Nat /\ Total(sent, Current) >= 2
      BY <3>1, TotalType
    <3>3. Taken + k <= Total(sent, Current)
      BY <1>2, <1>3, <1>4, <3>2
    <3> QED
      BY <1>1, <1>3, <2>2, <3>3, NextWords
  <2> QED
    BY <2>1, <2>2
<1>6. WordsRead(k) \in Seq(Word) /\ Len(WordsRead(k)) = k
    BY <1>2, <1>3, ReadWords
<1>7. /\ fixed_buf' \in Seq(Word) /\ Len(fixed_buf') = Len(fixed_buf) + k
      /\ \A i \in 1 .. Len(fixed_buf) + k :
            fixed_buf'[i] = IF i <= Len(fixed_buf) THEN fixed_buf[i]
                            ELSE WordsRead(k)[i - Len(fixed_buf)]
    BY <1>2, <1>3, <1>6, ConcatProperties
<1>8. FramingKept' /\ Current' = Current /\ UNCHANGED sent
    BY <1>1, FramingStays DEF server
<1>9. ASSUME NEW i \in 1 .. Len(fixed_buf')
      PROVE  fixed_buf'[i] = [pkt |-> Current, off |-> i]
  <2>1. CASE i <= Len(fixed_buf)
    <3>1. i \in 1 .. Len(fixed_buf) /\ fixed_buf'[i] = fixed_buf[i]
      BY <1>2, <1>3, <1>7, <2>1
    <3> QED
      BY <3>1 DEF PlaceKept
  <2>2. CASE ~(i <= Len(fixed_buf))
    <3>1. /\ i - Len(fixed_buf) \in 1 .. k
          /\ Taken + (i - Len(fixed_buf)) = i
          /\ fixed_buf'[i] = WordsRead(k)[i - Len(fixed_buf)]
      BY <1>2, <1>3, <1>4, <1>7, <2>2
    <3> QED
      BY <1>5, <3>1
  <2> QED
    BY <2>1, <2>2
<1>10. fixed_buf' # <<>> /\ Taken' = Taken + k
  <2>1. Len(fixed_buf') # 0
    BY <1>2, <1>3, <1>7
  <2>2. Len(payload') = 0
    BY <1>1, <1>4
  <2> QED
    BY <1>2, <1>3, <1>4, <1>7, <2>1, <2>2, EmptySeq DEF Taken
<1>11. \A i \in 1 .. Len(payload') :
           payload'[i] = [pkt |-> Current, off |-> Channel!HeaderWords + i]
    BY <1>1 DEF PlaceKept
<1> QED
    BY <1>1, <1>5, <1>8, <1>9, <1>10, <1>11 DEF PlaceKept

(* A read for the payload.                                                 *)
LEMMA PayloadKeepsPlace ==
    ASSUME StreamTypeOK, WordsInv, BuffersInv, PlaceKept, RecvPayload
    PROVE  PlaceKept'
<1>1. /\ stream # <<>> /\ UNCHANGED << server, received, fixed_buf, pc >>
      /\ pc = "payload" /\ payload_size' = payload_size
      /\ Len(payload) < payload_size
    BY DEF RecvPayload
<1>2. /\ Len(payload) \in Nat /\ payload \in Seq(Word) /\ payload_size \in Nat
      /\ stream \in Seq(SocketWord) /\ Channel!HeaderWords = 2
      /\ fixed_buf \in Seq(Word) /\ Len(stream) \in Nat
    BY StreamTypes DEF StreamTypeOK
<1>3. /\ Len(fixed_buf) = 2 /\ payload_size = sent[Current].payload
    BY <1>1, <1>2 DEF PlaceKept
<1>4. fixed_buf # <<>> /\ Taken = 2 + Len(payload)
  <2>1. Len(fixed_buf) = 2
    BY <1>3
  <2>2. fixed_buf # <<>>
    BY <2>1, EmptyTypes
  <2>3. Taken = 2 + Len(payload)
    BY <2>1 DEF Taken
  <2> QED
    BY <2>2, <2>3
<1>5. PICK k \in 1 .. Len(stream) :
          /\ Consume(k) /\ k \in Nat \ {0} /\ Len(payload) + k <= payload_size
          /\ payload' = payload \o WordsRead(k)
  <2> DEFINE k == ReadLength(payload_size - Len(payload))
  <2>1. payload_size - Len(payload) \in Nat \ {0}
    BY <1>1, <1>2, Remaining
  <2>2. k \in 1 .. payload_size - Len(payload) /\ k \in 1 .. Len(stream)
    BY <1>1, <1>2, <2>1, ReadLengthBounds
  <2>3. Consume(k) /\ payload' = payload \o WordsRead(k)
    BY DEF RecvPayload
  <2> HIDE DEF k
  <2>4. k \in Nat \ {0} /\ Len(payload) + k <= payload_size
    BY <1>2, <2>2
  <2> QED
    BY <2>2, <2>3, <2>4
<1>6. /\ Current \in DOMAIN sent
      /\ \A i \in 1 .. k :
            WordsRead(k)[i] = [pkt |-> Current, off |-> Taken + i]
      /\ ReadPlace' = After(sent, [pkt |-> Current, off |-> Taken + k])
  <2>1. Current \in DOMAIN sent
    BY <1>4 DEF PlaceKept
  <2>2. Total(sent, Current) = 2 + sent[Current].payload
    BY <2>1, TotalType
  <2>3. Taken + k <= Total(sent, Current)
    BY <1>2, <1>3, <1>4, <1>5, <2>2
  <2> QED
    BY <1>1, <1>4, <1>5, <2>3, NextWords
<1>7. WordsRead(k) \in Seq(Word) /\ Len(WordsRead(k)) = k
    BY <1>2, <1>5, ReadWords
<1>8. /\ payload' \in Seq(Word) /\ Len(payload') = Len(payload) + k
      /\ \A i \in 1 .. Len(payload) + k :
            payload'[i] = IF i <= Len(payload) THEN payload[i]
                          ELSE WordsRead(k)[i - Len(payload)]
    BY <1>2, <1>5, <1>7, ConcatProperties
<1>9. FramingKept' /\ Current' = Current /\ UNCHANGED sent
    BY <1>1, FramingStays DEF server
<1>10. ASSUME NEW i \in 1 .. Len(payload')
       PROVE  payload'[i] = [pkt |-> Current, off |-> Channel!HeaderWords + i]
  <2>1. CASE i <= Len(payload)
    <3>1. i \in 1 .. Len(payload) /\ payload'[i] = payload[i]
      BY <1>2, <1>5, <1>8, <2>1
    <3> QED
      BY <3>1 DEF PlaceKept
  <2>2. CASE ~(i <= Len(payload))
    <3>1. /\ i - Len(payload) \in 1 .. k
          /\ Taken + (i - Len(payload)) = 2 + i
          /\ payload'[i] = WordsRead(k)[i - Len(payload)]
      BY <1>2, <1>4, <1>5, <1>8, <2>2
    <3> QED
      BY <1>2, <1>6, <3>1
  <2> QED
    BY <2>1, <2>2
<1>11. Taken' = Taken + k
    BY <1>1, <1>2, <1>3, <1>4, <1>5, <1>8 DEF Taken
<1>12. \A i \in 1 .. Len(fixed_buf') :
           fixed_buf'[i] = [pkt |-> Current, off |-> i]
    BY <1>1 DEF PlaceKept
<1>13. Len(fixed_buf') = Channel!HeaderWords
    BY <1>1, <1>2, <1>3
<1> QED
    BY <1>1, <1>3, <1>4, <1>6, <1>9, <1>10, <1>11, <1>12, <1>13 DEF PlaceKept

(* The header that the client holds is its packet's.                       *)
LEMMA NeverMisread ==
    ASSUME StreamTypeOK, PlaceKept, HeaderComplete
    PROVE  /\ ~Misread /\ fixed_buf[1].pkt = Current /\ Current \in DOMAIN sent
           /\ fixed_buf # <<>> /\ Len(fixed_buf) = 2
<1>1. /\ Len(fixed_buf) = 2 /\ fixed_buf \in Seq(Word) /\ sent \in Seq(Shapes)
    BY StreamTypes DEF HeaderComplete, Channel!HeaderWords
<1>2. fixed_buf # <<>>
    BY <1>1, EmptySeq
<1>3. /\ Current \in DOMAIN sent
      /\ \A i \in 1 .. 2 : fixed_buf[i] = [pkt |-> Current, off |-> i]
    BY <1>1, <1>2 DEF PlaceKept
<1>4. fixed_buf[1].pkt = Current
    BY <1>3
<1> DEFINE w == Channel!Words(Current)
           h == SubSeq(w, 1, 2)
<1>5. \A i \in 1 .. 2 : w[i] = [pkt |-> Current, off |-> i]
  <2>1. sent[Current].payload \in Nat
    BY <1>3, TotalType
  <2>2. \A i \in 1 .. 2 : i \in 1 .. Channel!HeaderWords + sent[Current].payload
    BY <2>1 DEF Channel!HeaderWords
  <2> QED
    BY <2>2 DEF Channel!Words
<1>6. \A i \in 1 .. 2 : w[i] \in Word
  <2>1. \A i \in 1 .. 2 : fixed_buf[i] \in Word
    BY <1>1, ElementOfSeq
  <2> QED
    BY <1>3, <1>5, <2>1
<1> HIDE DEF w
<1>7. h \in Seq(Word) /\ Len(h) = 2 /\ \A i \in 1 .. 2 : h[i] = w[i]
  <2>1. /\ SubSeq(w, 1, 2) \in Seq(Word)
        /\ Len(SubSeq(w, 1, 2)) = IF 1 <= 2 THEN 2 - 1 + 1 ELSE 0
        /\ \A i \in 1 .. 2 - 1 + 1 : SubSeq(w, 1, 2)[i] = w[1 + i - 1]
    BY <1>6, SubSeqProperties
  <2> QED
    BY <2>1
<1> HIDE DEF h
<1>8. fixed_buf = h
    BY <1>1, <1>3, <1>5, <1>7, SeqEqual
<1> QED
    BY <1>1, <1>2, <1>3, <1>4, <1>8 DEF Misread, h, w

(* Taking the size from the header.                                        *)
LEMMA SizeKeepsPlace ==
    ASSUME StreamTypeOK, WordsInv, PlaceKept, ReadSize
    PROVE  PlaceKept'
<1>1. /\ HeaderComplete /\ payload_size' \in PayloadSizes
      /\ UNCHANGED << sent, fixed_buf, payload, received >>
    BY DEF ReadSize, server
<1>2. payload_size' = sent[Current].payload /\ Len(fixed_buf) = 2
    BY <1>1, NeverMisread DEF PayloadSizes
<1>3. ReadPlace' = ReadPlace
    BY ElsewhereKeepsWords DEF Elsewhere
<1>4. FramingKept' /\ Current' = Current /\ Taken' = Taken
    BY <1>1, FramingStays DEF Taken
<1> QED
    BY <1>1, <1>2, <1>3, <1>4 DEF PlaceKept, Channel!HeaderWords

(* The start of a new call, at the place where the last one ended.         *)
LEMMA RestartKeepsPlace ==
    ASSUME FramingKept', ReadPlace' = Start(Current'), Restart
    PROVE  PlaceKept'
<1>1. fixed_buf' = <<>> /\ payload' = <<>> /\ pc' = "first"
    BY DEF Restart
<1>2. Len(fixed_buf') = 0 /\ Len(payload') = 0
    BY <1>1, EmptySeq
<1> QED
    BY <1>1, <1>2 DEF PlaceKept

(* Returning the packet.                                                   *)
LEMMA ReturnKeepsPlace ==
    ASSUME StreamTypeOK, WordsInv, PlaceKept, ReturnPacket
    PROVE  /\ PlaceKept' /\ Current \in DOMAIN sent
           /\ received' = Append(received, [words |-> Channel!Words(Current),
                                            fds   |-> fds])
<1> DEFINE w == fixed_buf \o payload
           p == [words |-> w, fds |-> fds]
<1>1. /\ pc = "payload" /\ Len(payload) = payload_size /\ Restart
      /\ received' = Append(received, p) /\ UNCHANGED sent
    BY DEF ReturnPacket, server
<1>2. /\ fixed_buf \in Seq(Word) /\ payload \in Seq(Word)
      /\ Len(payload) \in Nat /\ fds \in Seq(Fd) /\ Channel!HeaderWords = 2
      /\ received \in Seq([words : Seq(Word), fds : Seq(Fd)])
      /\ Len(received) \in Nat /\ DOMAIN received = 1 .. Len(received)
    BY StreamTypes
<1>3. Len(fixed_buf) = 2 /\ payload_size = sent[Current].payload
    BY <1>1, <1>2 DEF PlaceKept
<1>4. fixed_buf # <<>>
  <2>1. Len(fixed_buf) = 2
    BY <1>3
  <2> QED
    BY <2>1, EmptyTypes
<1>5. /\ Current \in DOMAIN sent
      /\ ReadPlace = After(sent, [pkt |-> Current, off |-> Taken])
    BY <1>4 DEF PlaceKept
<1>6. /\ Total(sent, Current) = 2 + Len(payload) /\ Taken = 2 + Len(payload)
      /\ Taken \in Nat
    BY <1>1, <1>2, <1>3, <1>5, TotalType DEF Taken
<1>7. ReadPlace' = Start(Current + 1)
  <2>1. ReadPlace' = ReadPlace
    BY ElsewhereKeepsWords DEF Elsewhere
  <2> QED
    BY <1>5, <1>6, <2>1 DEF After
<1>8. /\ w \in Seq(Word) /\ Len(w) = 2 + Len(payload)
      /\ \A i \in 1 .. 2 + Len(payload) :
            w[i] = IF i <= 2 THEN fixed_buf[i] ELSE payload[i - 2]
  <2>1. /\ w \in Seq(Word) /\ Len(w) = Len(fixed_buf) + Len(payload)
        /\ \A i \in 1 .. Len(fixed_buf) + Len(payload) :
              w[i] = IF i <= Len(fixed_buf) THEN fixed_buf[i]
                     ELSE payload[i - Len(fixed_buf)]
    BY <1>2, ConcatProperties
  <2>2. Len(fixed_buf) = 2
    BY <1>3
  <2> QED
    BY <2>1, <2>2
<1> HIDE DEF w
<1>9. \A i \in 1 .. 2 + Len(payload) : w[i] = [pkt |-> Current, off |-> i]
  <2>1. TAKE i \in 1 .. 2 + Len(payload)
  <2>2. CASE i <= 2
    <3>1. i \in 1 .. Len(fixed_buf) /\ w[i] = fixed_buf[i]
      BY <1>2, <1>3, <1>8, <2>2
    <3> QED
      BY <3>1 DEF PlaceKept
  <2>3. CASE ~(i <= 2)
    <3>1. i - 2 \in 1 .. Len(payload) /\ w[i] = payload[i - 2] /\ 2 + (i - 2) = i
      BY <1>2, <1>8, <2>3
    <3> QED
      BY <1>2, <3>1 DEF PlaceKept
  <2> QED
    BY <2>2, <2>3
<1>10. w = Channel!Words(Current)
  <2>1. Channel!Words(Current)
            = [off \in 1 .. 2 + Len(payload) |-> [pkt |-> Current, off |-> off]]
    BY <1>1, <1>3 DEF Channel!Words, Channel!HeaderWords
  <2>2. w \in [1 .. 2 + Len(payload) -> Word]
    BY <1>8, LenProperties
  <2> QED
    BY <1>9, <2>1, <2>2
<1>11. /\ Len(received') = Len(received) + 1
       /\ DOMAIN received' = 1 .. Len(received) + 1
       /\ \A n \in DOMAIN received : received'[n] = received[n]
       /\ received'[Current] = p /\ Current = Len(received) + 1
  <2>1. p \in [words : Seq(Word), fds : Seq(Fd)]
    BY <1>2, <1>8
  <2> HIDE DEF p
  <2> QED
    BY <1>1, <1>2, <2>1, AppendProperties, LenProperties DEF Current
<1>12. FramingKept'
  <2>1. SUFFICES ASSUME NEW n \in DOMAIN received'
                 PROVE  /\ n \in DOMAIN sent'
                        /\ received'[n].words = Channel!Words(n)'
    BY DEF FramingKept
  <2>2. Channel!Words(n)' = Channel!Words(n)
    BY <1>1 DEF Channel!Words
  <2>3. CASE n \in DOMAIN received
    BY <1>1, <1>11, <2>2, <2>3 DEF PlaceKept, FramingKept
  <2>4. CASE n \notin DOMAIN received
    <3>1. n = Current
      BY <1>2, <1>11, <2>4
    <3> QED
      BY <1>1, <1>5, <1>10, <1>11, <2>2, <3>1
  <2> QED
    BY <2>3, <2>4
<1>13. Current' = Current + 1
    BY <1>11 DEF Current
<1>14. PlaceKept'
    BY <1>1, <1>7, <1>12, <1>13, RestartKeepsPlace
<1> QED
    BY <1>1, <1>5, <1>10, <1>14

(* A packet more does not change the others.                               *)
LEMMA SendKeepsPackets ==
    ASSUME StreamTypeOK, NEW shape \in Shapes, SendPacket(shape)
    PROVE  /\ \A n \in DOMAIN sent : n \in DOMAIN sent' /\ sent'[n] = sent[n]
           /\ sent' \in Seq(Shapes) /\ Len(sent') = Len(sent) + 1
           /\ DOMAIN sent' = 1 .. Len(sent) + 1
           /\ Len(sent) + 1 \notin DOMAIN sent
<1>1. sent' = Append(sent, shape)
    BY DEF SendPacket
<1> QED
    BY <1>1, StreamTypes, AppendProperties, LenProperties

(* Sending a packet.                                                       *)
LEMMA SendKeepsPlace ==
    ASSUME StreamTypeOK, WordsInv, PlaceKept,
           NEW shape \in Shapes, SendPacket(shape)
    PROVE  PlaceKept'
<1>1. UNCHANGED << pc, fixed_buf, payload, payload_size, received >>
    BY DEF SendPacket
<1>2. \A n \in DOMAIN sent : n \in DOMAIN sent' /\ sent'[n] = sent[n]
    BY SendKeepsPackets
<1>3. ReadPlace' = ReadPlace
    BY SendKeepsWords
<1>4. Current' = Current /\ Taken' = Taken
    BY <1>1 DEF Current, Taken
<1>5. FramingKept'
  <2>1. \A n \in DOMAIN sent : Channel!Words(n)' = Channel!Words(n)
    BY <1>2 DEF Channel!Words
  <2> QED
    BY <1>1, <1>2, <2>1 DEF PlaceKept, FramingKept
<1>6. Current \in DOMAIN sent =>
          After(sent', [pkt |-> Current, off |-> Taken])
            = After(sent, [pkt |-> Current, off |-> Taken])
    BY <1>2 DEF After, Total
<1>7. pc \in {"empty", "payload"} =>
          Current \in DOMAIN sent /\ sent'[Current] = sent[Current]
  <2>1. SUFFICES ASSUME pc \in {"empty", "payload"}
                 PROVE  Current \in DOMAIN sent
    BY <1>2
  <2>2. Len(fixed_buf) = 2
    BY <2>1 DEF PlaceKept, Channel!HeaderWords
  <2>3. fixed_buf # <<>>
    BY <2>2, EmptyTypes
  <2> QED
    BY <2>3 DEF PlaceKept
<1> QED
    BY <1>1, <1>2, <1>3, <1>4, <1>5, <1>6, <1>7 DEF PlaceKept

(* A step that changes neither the words nor what the client holds.        *)
LEMMA RestKeepsPlace ==
    ASSUME PlaceKept, ReadPlace' = ReadPlace,
           UNCHANGED << sent, received, fixed_buf, payload, payload_size >>,
           pc' = pc \/ pc' \in {"first", "header"}
                    \/ (pc = "empty" /\ pc' = "payload")
    PROVE  PlaceKept'
<1>1. FramingKept' /\ Current' = Current /\ Taken' = Taken
    BY FramingStays DEF Taken
<1>2. UNCHANGED << sent, fixed_buf, payload, payload_size >>
    OBVIOUS
<1>3. pc' \in {"empty", "payload"} => pc \in {"empty", "payload"}
    OBVIOUS
<1> QED
    BY <1>1, <1>2, <1>3 DEF PlaceKept

(* Every step keeps the client at its place, but for the drop of a future  *)
(* that holds words.                                                       *)
LEMMA StreamStep ==
    ASSUME StreamInv, [Next]_vars
    PROVE  StreamInv'
<1>1. StreamTypeOK /\ WordsInv /\ BuffersInv
    BY DEF StreamInv
<1>2. StreamTypeOK' /\ BuffersInv'
    BY <1>1, StreamTypesKept, BuffersKept
<1>3. dropped \in BOOLEAN /\ (dropped => dropped')
  <2>1. dropped' = dropped \/ TakeOther
    BY DEF Next, Recv, RecvFirst, RecvNothing, RecvHeader, ReadSize, HeaderError,
           RecvEmptyPayload, RecvPayload, ReturnPacket, Suspend, WakeAtEof,
           SendPacket, Flush, Close, OtherReady, branches, vars
  <2> QED
    BY <1>1, <2>1 DEF StreamTypeOK, TakeOther
<1>4. CASE RecvFirst \/ RecvHeader \/ RecvPayload
  <2>1. PICK k \in 1 .. Len(stream) : Consume(k)
    <3>1. \A wanted \in Nat \ {0} :
              stream # <<>> => ReadLength(wanted) \in 1 .. Len(stream)
      BY <1>1, StreamTypes, ReadLengthBounds
    <3>2. stream # <<>>
      BY <1>4 DEF RecvFirst, RecvHeader, RecvPayload
    <3>3. /\ Len(fixed_buf) \in Nat /\ Len(payload) \in Nat
          /\ payload_size \in Nat /\ Channel!HeaderWords \in Nat \ {0}
      BY <1>1, StreamTypes DEF StreamTypeOK
    <3>4. CASE RecvFirst
      BY <3>1, <3>2, <3>3, <3>4 DEF RecvFirst
    <3>5. CASE RecvHeader
      <4>1. Channel!HeaderWords - Len(fixed_buf) \in Nat \ {0}
        <5>1. Len(fixed_buf) < Channel!HeaderWords
          BY <3>5 DEF RecvHeader
        <5> QED
          BY <3>3, <5>1, Remaining
      <4> QED
        BY <3>1, <3>2, <3>5, <4>1 DEF RecvHeader
    <3>6. CASE RecvPayload
      <4>1. payload_size - Len(payload) \in Nat \ {0}
        <5>1. Len(payload) < payload_size
          BY <3>6 DEF RecvPayload
        <5> QED
          BY <3>3, <5>1, Remaining
      <4> QED
        BY <3>1, <3>2, <3>6, <4>1 DEF RecvPayload
    <3> QED
      BY <1>4, <3>4, <3>5, <3>6
  <2>2. UNCHANGED server /\ dropped' = dropped
    BY <1>4 DEF RecvFirst, RecvHeader, RecvPayload, branches
  <2>3. WordsInv'
    BY <1>1, <2>1, <2>2, ReadKeepsWords
  <2>4. PlaceKept => PlaceKept'
    BY <1>1, <1>4, HeaderKeepsPlace, PayloadKeepsPlace
  <2> QED
    BY <1>2, <2>2, <2>3, <2>4 DEF StreamInv
<1>5. ASSUME NEW shape \in Shapes, SendPacket(shape)
      PROVE  StreamInv'
  <2>1. dropped' = dropped
    BY <1>5 DEF SendPacket, branches
  <2> QED
    BY <1>1, <1>2, <1>5, <2>1, SendKeepsWords, SendKeepsPlace DEF StreamInv
<1>6. ASSUME NEW k \in DOMAIN out, Flush(k)
      PROVE  StreamInv'
  <2>1. /\ WordsInv' /\ ReadPlace' = ReadPlace
    BY <1>1, <1>6, FlushKeepsWords
  <2>2. /\ dropped' = dropped /\ pc' = pc
        /\ UNCHANGED << sent, received, fixed_buf, payload, payload_size >>
    BY <1>6 DEF Flush
  <2> QED
    BY <1>2, <2>1, <2>2, RestKeepsPlace DEF StreamInv
<1>7. CASE RecvEmptyPayload
  <2>1. WordsInv' /\ ReadPlace' = ReadPlace
    BY <1>1, <1>7, EmptyReadKeepsWords
  <2>2. /\ dropped' = dropped /\ pc = "empty" /\ pc' = "payload"
        /\ UNCHANGED << sent, received, fixed_buf, payload, payload_size >>
    BY <1>7 DEF RecvEmptyPayload, server
  <2> QED
    BY <1>2, <2>1, <2>2, RestKeepsPlace DEF StreamInv
<1>8. CASE Elsewhere
  <2>1. WordsInv' /\ ReadPlace' = ReadPlace /\ UNCHANGED sent
    BY <1>1, <1>8, ElsewhereKeepsWords
  <2>2. SUFFICES ASSUME ~dropped' PROVE PlaceKept'
    BY <1>2, <2>1 DEF StreamInv
  <2>3. PlaceKept
    BY <1>3, <2>2 DEF StreamInv
  <2>4. CASE RecvNothing \/ Suspend \/ WakeAtEof \/ Close \/ OtherReady
             \/ UNCHANGED vars
    <3>1. /\ pc' = pc \/ pc' = "header"
          /\ UNCHANGED << received, fixed_buf, payload, payload_size >>
      BY <2>4 DEF RecvNothing, Suspend, WakeAtEof, Close, OtherReady, vars
    <3> QED
      BY <2>1, <2>3, <3>1, RestKeepsPlace
  <2>5. CASE ReadSize
    BY <1>1, <2>3, <2>5, SizeKeepsPlace
  <2>6. CASE ReturnPacket
    BY <1>1, <2>3, <2>6, ReturnKeepsPlace
  <2>7. CASE HeaderError
    BY <1>1, <2>3, <2>7, NeverMisread DEF HeaderError
  <2>8. CASE TakeOther
    <3>1. /\ Restart /\ fixed_buf = <<>> /\ UNCHANGED received
      BY <2>2, <2>8 DEF TakeOther
    <3>2. FramingKept' /\ Current' = Current
      BY <2>1, <2>3, <3>1, FramingStays
    <3>3. ReadPlace' = Start(Current')
      BY <2>1, <2>3, <3>1, <3>2 DEF PlaceKept
    <3> QED
      BY <3>1, <3>2, <3>3, RestartKeepsPlace
  <2> QED
    BY <1>8, <2>4, <2>5, <2>6, <2>7, <2>8 DEF Elsewhere
<1> QED
    BY <1>4, <1>5, <1>6, <1>7, <1>8 DEF Next, Recv, Elsewhere

(* Initially nothing was sent.                                             *)
LEMMA StreamInitially == Init => StreamInv
<1> SUFFICES ASSUME Init PROVE StreamInv
    OBVIOUS
<1>1. StreamTypeOK
    BY StreamTypesInitially
<1>2. /\ sent = <<>> /\ out = <<>> /\ stream = <<>> /\ fixed_buf = <<>>
      /\ payload = <<>> /\ received = <<>> /\ pc = "first"
    BY DEF Init
<1>3. Len(<<>>) = 0 /\ DOMAIN <<>> = {}
    BY EmptyTypes
<1>4. WordsInv /\ BuffersInv
    BY <1>2, <1>3 DEF WordsInv, Runs, BuffersInv
<1>5. ReadPlace = Start(1) /\ Current = 1
    BY <1>2, <1>3 DEF ReadPlace, FlushPlace, First, WritePlace, Current
<1>6. FramingKept
    BY <1>2, <1>3 DEF FramingKept
<1>7. PlaceKept
    BY <1>2, <1>3, <1>5, <1>6 DEF PlaceKept
<1> QED
    BY <1>1, <1>4, <1>7 DEF StreamInv

(* The invariant always holds.                                             *)
THEOREM StreamAlways == Spec => []StreamInv
<1>1. Init => StreamInv
    BY StreamInitially
<1>2. StreamInv /\ [Next]_vars => StreamInv'
    BY StreamStep
<1> QED
    BY <1>1, <1>2, PTL DEF Spec

(* recv_packet keeps its buffers within what it asked for, whatever the    *)
(* fragments, the headers misread and the interruptions.                   *)
THEOREM StreamTypeCorrect == Spec => []StreamTypeOK
<1>1. StreamInv => StreamTypeOK
    BY DEF StreamInv
<1> QED
    BY <1>1, StreamAlways, PTL

(* Only the drop of a future within a packet makes the client lose its     *)
(* place: until then recv_packet returns the packets sent, in order, for   *)
(* any packets, fragments and flushes, even after the compositor closes.   *)
THEOREM FramingAlwaysKept == Spec => []FramingKeptUntilDrop
<1>1. StreamInv => FramingKeptUntilDrop
    BY DEF StreamInv, PlaceKept, FramingKeptUntilDrop
<1> QED
    BY <1>1, StreamAlways, PTL

-----------------------------------------------------------------------------
(* Descriptors.                                                            *)

(* No word waits twice to be flushed; while no descriptor has gone astray, *)
(* those of each packet that starts in the buffer wait there too, and in   *)
(* the socket each packet's come with its first word and no other; and a   *)
(* future that has begun a packet holds that packet's.                     *)
OutDistinct == \A i, j \in 1 .. Len(out) : out[i] = out[j] => i = j
FdsQueued ==
    \A i \in 1 .. Len(out) :
        out[i].off = 1 =>
            \A a \in 1 .. sent[out[i].pkt].fds :
                \E j \in 1 .. Len(outFds) :
                    outFds[j] = [pkt |-> out[i].pkt, arg |-> a]
FdsAttached ==
    \A i \in 1 .. Len(stream) :
        stream[i].fds = IF stream[i].off = 1
                        THEN Channel!Descriptors(stream[i].pkt) ELSE <<>>
Lost == dropped \/ mixed \/ eof
FdsInv ==
    /\ OutDistinct
    /\ ~mixed => FdsQueued /\ FdsAttached
    /\ ~Lost /\ pc # "first" =>
            fixed_buf # <<>> /\ fds = Channel!Descriptors(Current)

(* A packet without descriptors has none.                                  *)
LEMMA NoDescriptors ==
    ASSUME NEW n, sent[n].fds = 0
    PROVE  Channel!Descriptors(n) = <<>>
    BY DEF Channel!Descriptors

(* The words in the two buffers are words of packets sent.                 *)
LEMMA WordsSent ==
    ASSUME StreamTypeOK, WordsInv
    PROVE  /\ \A i \in 1 .. Len(out) : out[i].pkt \in DOMAIN sent
           /\ \A i \in 1 .. Len(stream) : stream[i].pkt \in DOMAIN sent
    BY DEF WordsInv, Runs, Exists

(* What the client has lost it does not find again.                        *)
LEMMA LostForGood ==
    ASSUME StreamTypeOK, [Next]_vars
    PROVE  (dropped => dropped') /\ (mixed => mixed') /\ (eof => eof')
<1>1. {dropped, mixed, eof} \subseteq BOOLEAN
    BY DEF StreamTypeOK
<1>2. dropped => dropped'
    BY <1>1 DEF Next, Recv, RecvFirst, RecvNothing, RecvHeader, ReadSize,
           HeaderError, RecvEmptyPayload, RecvPayload, ReturnPacket, Suspend,
           WakeAtEof, TakeOther, SendPacket, Flush, Close, OtherReady, branches,
           vars
<1>3. mixed => mixed'
    BY <1>1 DEF Next, Recv, RecvFirst, RecvNothing, RecvHeader, ReadSize,
           HeaderError, RecvEmptyPayload, RecvPayload, ReturnPacket, Suspend,
           WakeAtEof, TakeOther, SendPacket, Flush, Close, OtherReady, branches,
           vars
<1>4. eof => eof'
    BY <1>1 DEF Next, Recv, RecvFirst, RecvNothing, RecvHeader, ReadSize,
           HeaderError, RecvEmptyPayload, RecvPayload, ReturnPacket, Suspend,
           WakeAtEof, TakeOther, SendPacket, Flush, Close, OtherReady, branches,
           vars
<1> QED
    BY <1>2, <1>3, <1>4

(* The descriptors of a new packet wait with its words.                    *)
LEMMA SendKeepsFds ==
    ASSUME StreamInv, FdsInv, NEW shape \in Shapes, SendPacket(shape)
    PROVE  FdsInv'
<1> DEFINE g == NewWords(shape)
           f == NewFds(shape)
           n == Len(sent) + 1
<1>1. /\ Len(sent) < MaxPackets /\ sent' = Append(sent, shape)
      /\ out' = out \o g /\ outFds' = outFds \o f
      /\ UNCHANGED << stream, eof, pc, fixed_buf, fds, received, dropped, mixed >>
    BY DEF SendPacket, NewWords, NewFds, branches
<1>2. StreamTypeOK /\ WordsInv
    BY DEF StreamInv
<1>3. /\ out \in Seq(Word) /\ outFds \in Seq(Fd) /\ Len(out) \in Nat
      /\ Len(outFds) \in Nat /\ Len(sent) \in Nat
    BY <1>2, StreamTypes
<1>4. /\ shape.payload \in Nat /\ shape.fds \in Nat
      /\ g \in Seq(Word) /\ Len(g) = 2 + shape.payload
      /\ f \in Seq(Fd) /\ Len(f) = shape.fds
    BY <1>1, <1>2, NewTypes
<1>5. /\ \A i \in 1 .. Len(g) : g[i] = [pkt |-> n, off |-> i]
      /\ \A i \in 1 .. Len(f) : f[i] = [pkt |-> n, arg |-> i]
    BY <1>4 DEF NewWords, NewFds, Channel!HeaderWords
<1>6. /\ \A m \in DOMAIN sent : m \in DOMAIN sent' /\ sent'[m] = sent[m]
      /\ n \notin DOMAIN sent /\ sent'[n] = shape
    BY <1>1, <1>2, <1>3, SendKeepsPackets, StreamTypes, AppendProperties
<1> HIDE DEF g, f
<1>7. /\ Len(out') = Len(out) + Len(g)
      /\ \A i \in 1 .. Len(out) + Len(g) :
            out'[i] = IF i <= Len(out) THEN out[i] ELSE g[i - Len(out)]
    BY <1>1, <1>3, <1>4, ConcatProperties
<1>8. /\ Len(outFds') = Len(outFds) + Len(f)
      /\ \A i \in 1 .. Len(outFds) + Len(f) :
            outFds'[i] = IF i <= Len(outFds) THEN outFds[i]
                         ELSE f[i - Len(outFds)]
    BY <1>1, <1>3, <1>4, ConcatProperties
<1> HIDE DEF n
<1> DEFINE Old(i) == /\ i \in 1 .. Len(out) /\ out'[i] = out[i]
                     /\ out[i].pkt \in DOMAIN sent
           New(i) == /\ i - Len(out) \in 1 .. Len(g) /\ i \in Nat
                     /\ out'[i] = [pkt |-> n, off |-> i - Len(out)]
<1>9. \A i \in 1 .. Len(out') : Old(i) \/ New(i)
  <2>1. TAKE i \in 1 .. Len(out')
  <2>2. Len(g) \in Nat /\ i \in 1 .. Len(out) + Len(g)
    BY <1>4, <1>7
  <2>3. CASE i <= Len(out)
    <3>1. i \in 1 .. Len(out) /\ out'[i] = out[i]
      BY <1>3, <1>7, <2>2, <2>3
    <3> QED
      BY <1>2, <3>1, WordsSent
  <2>4. CASE ~(i <= Len(out))
    <3>1. i - Len(out) \in 1 .. Len(g) /\ i \in Nat
      BY <1>3, <2>2, <2>4
    <3> QED
      BY <1>5, <1>7, <2>2, <2>4, <3>1
  <2> QED
    BY <2>3, <2>4
<1>10. OutDistinct'
  <2>1. SUFFICES ASSUME NEW i \in 1 .. Len(out'), NEW j \in 1 .. Len(out'),
                        out'[i] = out'[j]
                 PROVE  i = j
    BY DEF OutDistinct
  <2>2. CASE Old(i) /\ Old(j)
    <3>1. out[i] = out[j] /\ i \in 1 .. Len(out) /\ j \in 1 .. Len(out)
      BY <2>1, <2>2
    <3> QED
      BY <3>1 DEF FdsInv, OutDistinct
  <2>3. CASE New(i) /\ New(j)
    <3>1. /\ i \in Nat /\ out'[i].off = i - Len(out)
          /\ j \in Nat /\ out'[j].off = j - Len(out)
      BY <2>3
    <3>2. i - Len(out) = j - Len(out)
      BY <2>1, <3>1
    <3> QED
      BY <1>3, <3>1, <3>2
  <2>4. CASE Old(i) /\ New(j)
    <3>1. out'[j].pkt = n /\ out'[i].pkt \in DOMAIN sent
      BY <2>4
    <3> QED
      BY <1>6, <2>1, <3>1
  <2>5. CASE New(i) /\ Old(j)
    <3>1. out'[i].pkt = n /\ out'[j].pkt \in DOMAIN sent
      BY <2>5
    <3> QED
      BY <1>6, <2>1, <3>1
  <2> QED
    BY <1>9, <2>2, <2>3, <2>4, <2>5
<1>11. FdsQueued => FdsQueued'
  <2>1. SUFFICES ASSUME FdsQueued, NEW i \in 1 .. Len(out'), out'[i].off = 1,
                        NEW a \in 1 .. sent'[out'[i].pkt].fds
                 PROVE  \E j \in 1 .. Len(outFds') :
                            outFds'[j] = [pkt |-> out'[i].pkt, arg |-> a]
    BY DEF FdsQueued
  <2>2. CASE Old(i)
    <3>1. a \in 1 .. sent[out[i].pkt].fds /\ out[i].off = 1
      BY <1>6, <2>1, <2>2
    <3>2. PICK j \in 1 .. Len(outFds) :
              outFds[j] = [pkt |-> out[i].pkt, arg |-> a]
      BY <2>1, <2>2, <3>1 DEF FdsQueued
    <3>3. j \in 1 .. Len(outFds') /\ outFds'[j] = outFds[j]
      <4>1. /\ j <= Len(outFds) /\ j \in 1 .. Len(outFds) + Len(f)
        BY <1>3, <1>4
      <4> QED
        BY <1>8, <4>1
    <3> QED
      BY <2>2, <3>2, <3>3
  <2>3. CASE New(i)
    <3>1. out'[i].pkt = n /\ a \in 1 .. Len(f)
      BY <1>4, <1>6, <2>3
    <3>2. /\ Len(outFds) + a \in 1 .. Len(outFds) + Len(f)
          /\ ~(Len(outFds) + a <= Len(outFds))
          /\ Len(outFds) + a - Len(outFds) = a
      BY <1>3, <1>4, <3>1
    <3>3. outFds'[Len(outFds) + a] = f[a]
      BY <1>8, <3>2
    <3> QED
      BY <1>5, <1>8, <3>1, <3>2, <3>3
  <2> QED
    BY <1>9, <2>2, <2>3
<1>12. \A m \in DOMAIN sent : Channel!Descriptors(m)' = Channel!Descriptors(m)
    BY <1>6 DEF Channel!Descriptors
<1>13. FdsAttached => FdsAttached'
    BY <1>1, <1>2, <1>12, WordsSent DEF FdsAttached
<1>14. ~Lost /\ pc # "first" => fds = Channel!Descriptors(Current)'
  <2>1. SUFFICES ASSUME ~Lost, pc # "first"
                 PROVE  fds = Channel!Descriptors(Current)'
    OBVIOUS
  <2>2. fixed_buf # <<>> /\ fds = Channel!Descriptors(Current)
    BY <2>1 DEF FdsInv
  <2>3. Current \in DOMAIN sent
    BY <2>1, <2>2 DEF StreamInv, PlaceKept, Lost
  <2>4. Channel!Descriptors(Current)' = Channel!Descriptors(Current)
    BY <1>1, <1>6, <2>3 DEF Channel!Descriptors, Current
  <2> QED
    BY <2>2, <2>4
<1> QED
    BY <1>1, <1>10, <1>11, <1>13, <1>14 DEF FdsInv, Lost

(* A flush that does not mix takes the descriptors along with the first    *)
(* word of their packet, and no other packet in the buffer has any.        *)
LEMMA FlushKeepsFds ==
    ASSUME StreamInv, FdsInv, NEW k \in DOMAIN out, Flush(k)
    PROVE  FdsInv'
<1> DEFINE r == SubSeq(out, k + 1, Len(out))
           g == Flushed(k)
<1>1. /\ stream' = stream \o g /\ out' = r /\ outFds' = <<>>
      /\ mixed' = (mixed \/ MixesIn(k))
      /\ UNCHANGED << sent, eof, pc, fixed_buf, fds, received, dropped >>
    BY DEF Flush, Flushed
<1>2. StreamTypeOK /\ WordsInv
    BY DEF StreamInv
<1>3. /\ r \in Seq(Word) /\ g \in Seq(SocketWord)
      /\ stream \in Seq(SocketWord) /\ k \in 1 .. Len(out) /\ Len(g) = k
      /\ Len(r) = Len(out) - k /\ \A i \in 1 .. Len(out) - k : r[i] = out[i + k]
      /\ Len(out) \in Nat /\ Len(stream) \in Nat /\ out \in Seq(Word)
    BY <1>2, StreamTypes, FlushTypes
<1>4. \A i \in 1 .. k : /\ g[i].pkt = out[i].pkt /\ g[i].off = out[i].off
                        /\ g[i].fds = IF i = 1 THEN outFds ELSE <<>>
    BY DEF Flushed
<1> HIDE DEF r, g
<1>5. OutDistinct'
  <2>1. SUFFICES ASSUME NEW i \in 1 .. Len(out) - k, NEW j \in 1 .. Len(out) - k,
                        r[i] = r[j]
                 PROVE  i = j
    BY <1>1, <1>3 DEF OutDistinct
  <2>2. /\ i + k \in 1 .. Len(out) /\ j + k \in 1 .. Len(out)
        /\ i \in Nat /\ j \in Nat /\ k \in Nat
    BY <1>3
  <2>3. out[i + k] = out[j + k]
    BY <1>3, <2>1
  <2>4. i + k = j + k
    BY <2>2, <2>3 DEF FdsInv, OutDistinct
  <2> QED
    BY <2>2, <2>4
<1>6. SUFFICES ASSUME ~mixed' PROVE FdsQueued' /\ FdsAttached'
  <2>1. ~Lost' => ~Lost
    <3>1. {dropped, mixed, eof} \subseteq BOOLEAN
      BY <1>2 DEF StreamTypeOK
    <3> QED
      BY <1>1, <3>1 DEF Lost
  <2>2. Current' = Current
    BY <1>1 DEF Current
  <2>3. Channel!Descriptors(Current)' = Channel!Descriptors(Current)
    BY <1>1, <2>2 DEF Channel!Descriptors
  <2> QED
    BY <1>1, <1>5, <2>1, <2>3 DEF FdsInv
<1>7. /\ ~mixed /\ FdsQueued /\ FdsAttached
      /\ outFds # <<>> => /\ out[1].off = 1
                          /\ outFds = Channel!Descriptors(out[1].pkt)
    BY <1>1, <1>6 DEF FdsInv, MixesIn
<1>8. \A i \in 1 .. Len(out) :
          out[i].off = 1 /\ (i # 1 \/ outFds = <<>>) => sent[out[i].pkt].fds = 0
  <2>1. SUFFICES ASSUME NEW i \in 1 .. Len(out), out[i].off = 1,
                        i # 1 \/ outFds = <<>>, sent[out[i].pkt].fds # 0
                 PROVE  FALSE
    OBVIOUS
  <2>2. sent[out[i].pkt].fds \in Nat
    BY <1>2, WordsSent, TotalType
  <2>3. 1 \in 1 .. sent[out[i].pkt].fds
    BY <2>1, <2>2
  <2>4. PICK j \in 1 .. Len(outFds) : outFds[j] = [pkt |-> out[i].pkt, arg |-> 1]
    BY <1>7, <2>1, <2>3 DEF FdsQueued
  <2>5. outFds # <<>>
    BY <2>4, EmptyTypes
  <2>6. outFds = Channel!Descriptors(out[1].pkt) /\ out[1].off = 1
    BY <1>7, <2>5
  <2>7. sent[out[1].pkt].fds \in Nat /\ 1 \in 1 .. Len(out)
    <3>1. 1 \in 1 .. Len(out)
      BY <1>3
    <3> QED
      BY <1>2, <3>1, WordsSent, TotalType
  <2>8. j \in 1 .. sent[out[1].pkt].fds
    <3>1. Len(outFds) \in Nat /\ DOMAIN outFds = 1 .. Len(outFds)
      BY <1>2, StreamTypes
    <3>2. DOMAIN outFds = 1 .. sent[out[1].pkt].fds
      BY <2>6 DEF Channel!Descriptors
    <3> QED
      BY <3>1, <3>2
  <2>9. outFds[j] = [pkt |-> out[1].pkt, arg |-> j]
    BY <2>6, <2>8 DEF Channel!Descriptors
  <2>10. out[i].pkt = out[1].pkt
    BY <2>4, <2>9
  <2>11. out[i] \in Word /\ out[1] \in Word
    BY <1>3, <2>7, ElementOfSeq
  <2>12. out[i] = out[1]
    BY <2>1, <2>6, <2>10, <2>11 DEF Word
  <2>13. i = 1
    BY <2>7, <2>12 DEF FdsInv, OutDistinct
  <2> QED
    BY <2>1, <2>5, <2>13
<1>9. FdsQueued'
  <2>1. ASSUME NEW i \in 1 .. Len(out) - k, r[i].off = 1
        PROVE  sent[r[i].pkt].fds = 0
    <3>1. i + k \in 1 .. Len(out) /\ i + k # 1 /\ r[i] = out[i + k]
      BY <1>3
    <3> QED
      BY <1>8, <2>1, <3>1
  <2>2. 1 .. 0 = {}
    OBVIOUS
  <2> QED
    BY <1>1, <1>3, <2>1, <2>2 DEF FdsQueued
<1>10. ASSUME NEW i \in 1 .. k
       PROVE  g[i].fds = IF g[i].off = 1
                         THEN Channel!Descriptors(g[i].pkt) ELSE <<>>
  <2>1. i \in 1 .. Len(out)
    BY <1>3
  <2>2. CASE i = 1 /\ outFds # <<>>
    BY <1>4, <1>7, <2>2
  <2>3. CASE ~(i = 1 /\ outFds # <<>>)
    <3>1. g[i].fds = <<>>
      BY <1>4, <2>3
    <3>2. out[i].off = 1 => Channel!Descriptors(out[i].pkt) = <<>>
      BY <1>8, <2>1, <2>3, NoDescriptors
    <3> QED
      BY <1>4, <3>1, <3>2
  <2> QED
    BY <2>2, <2>3
<1>11. /\ Len(stream') = Len(stream) + k
       /\ \A i \in 1 .. Len(stream) + k :
             stream'[i] = IF i <= Len(stream) THEN stream[i]
                          ELSE g[i - Len(stream)]
    BY <1>1, <1>3, ConcatProperties
<1>12. FdsAttached'
  <2>1. SUFFICES ASSUME NEW i \in 1 .. Len(stream')
                 PROVE  stream'[i].fds
                            = IF stream'[i].off = 1
                              THEN Channel!Descriptors(stream'[i].pkt)
                              ELSE <<>>
    BY <1>1 DEF FdsAttached, Channel!Descriptors
  <2>2. CASE i <= Len(stream)
    <3>1. i \in 1 .. Len(stream) /\ stream'[i] = stream[i]
      BY <1>3, <1>11, <2>2
    <3> QED
      BY <1>7, <3>1 DEF FdsAttached
  <2>3. CASE ~(i <= Len(stream))
    <3>1. i \in 1 .. Len(stream) + k /\ k \in Nat /\ Len(stream) \in Nat
      BY <1>3, <1>11
    <3>2. i - Len(stream) \in 1 .. k
      BY <2>3, <3>1
    <3>3. stream'[i] = g[i - Len(stream)]
      BY <1>11, <2>3, <3>1
    <3> QED
      BY <1>10, <3>2, <3>3
  <2> QED
    BY <2>2, <2>3
<1> QED
    BY <1>9, <1>12

(* A read leaves the words behind it as they were.                         *)
LEMMA ReadKeepsAttached ==
    ASSUME StreamTypeOK, NEW k \in 1 .. Len(stream), Consume(k),
           UNCHANGED server, FdsAttached
    PROVE  FdsAttached'
<1>1. /\ stream \in Seq(SocketWord) /\ Len(stream) \in Nat /\ k \in Nat
    BY StreamTypes
<1>2. /\ Len(stream') = Len(stream) - k
      /\ \A i \in 1 .. Len(stream) - k : stream'[i] = stream[i + k]
    BY <1>1, ReadWords DEF Consume
<1>3. \A i \in 1 .. Len(stream') : i + k \in 1 .. Len(stream)
    BY <1>1, <1>2
<1>4. UNCHANGED sent
    BY DEF server
<1>5. \A n : Channel!Descriptors(n)' = Channel!Descriptors(n)
    BY <1>4 DEF Channel!Descriptors
<1>6. ASSUME NEW i \in 1 .. Len(stream')
      PROVE  stream'[i].fds = IF stream'[i].off = 1
                              THEN Channel!Descriptors(stream'[i].pkt)
                              ELSE <<>>
  <2>1. i + k \in 1 .. Len(stream) /\ stream'[i] = stream[i + k]
    BY <1>2, <1>3
  <2> QED
    BY <2>1 DEF FdsAttached
<1> QED
    BY <1>5, <1>6 DEF FdsAttached

(* The first read of a packet brings the packet's descriptors.             *)
LEMMA FirstReadFds ==
    ASSUME StreamInv, FdsInv, RecvFirst, ~Lost
    PROVE  fds' = Channel!Descriptors(Current)
<1>1. StreamTypeOK /\ WordsInv /\ BuffersInv /\ PlaceKept /\ FdsAttached
    BY DEF StreamInv, FdsInv, Lost
<1> DEFINE k == ReadLength(Channel!HeaderWords)
<1>2. /\ stream # <<>> /\ Consume(k) /\ fds' = FdsRead(k) /\ UNCHANGED server
      /\ fixed_buf = <<>> /\ payload = <<>>
    BY <1>1 DEF RecvFirst, BuffersInv
<1>3. stream \in Seq(SocketWord) /\ Channel!HeaderWords = 2
    BY <1>1, StreamTypes
<1>4. k \in 1 .. 2 /\ k \in 1 .. Len(stream)
  <2>1. Channel!HeaderWords \in Nat \ {0}
    BY <1>3
  <2> QED
    BY <1>2, <1>3, <2>1, ReadLengthBounds
<1> HIDE DEF k
<1>5. Len(fixed_buf) = 0 /\ Len(payload) = 0 /\ Taken = 0 /\ k <= 2
    BY <1>2, <1>4, EmptyTypes DEF Taken
<1>6. \A i \in 1 .. k : WordsRead(k)[i] = [pkt |-> Current, off |-> Taken + i]
    BY <1>1, <1>2, <1>4, <1>5, NextWords
<1>7. \A i \in 1 .. k : Place(stream[i]) = [pkt |-> Current, off |-> i]
  <2>1. \A i \in 1 .. k : Taken + i = i
    BY <1>4, <1>5
  <2> QED
    BY <1>3, <1>4, <1>6, <2>1, ReadWords
<1>8. \A i \in 1 .. k : /\ i \in 1 .. Len(stream)
                        /\ stream[i].pkt = Current /\ stream[i].off = i
  <2>1. \A i \in 1 .. k : i \in 1 .. Len(stream)
    <3>1. Len(stream) \in Nat
      BY <1>1, StreamTypes
    <3> QED
      BY <1>4, <3>1
  <2> QED
    BY <1>7, <2>1 DEF Place
<1>9. \A i \in 1 .. k :
          stream[i].fds = IF i = 1 THEN Channel!Descriptors(Current) ELSE <<>>
    BY <1>1, <1>8 DEF FdsAttached
<1>10. 1 \in 1 .. k
    BY <1>4
<1>11. CASE Channel!Descriptors(Current) = <<>>
  <2>1. \A i \in 1 .. k : stream[i].fds = <<>>
    BY <1>9, <1>11
  <2> QED
    BY <1>2, <1>11, <2>1 DEF FdsRead
<1>12. CASE Channel!Descriptors(Current) # <<>>
  <2>1. \A i \in 1 .. k : stream[i].fds # <<>> <=> i = 1
    BY <1>9, <1>10, <1>12
  <2>2. (CHOOSE i \in 1 .. k : stream[i].fds # <<>>) = 1
    BY <1>10, <2>1
  <2> QED
    BY <1>2, <1>9, <1>10, <2>1, <2>2 DEF FdsRead
<1> QED
    BY <1>11, <1>12

(* What a future that holds words keeps of its descriptors.                *)
HoldsFds == ~Lost /\ pc # "first" =>
                fixed_buf # <<>> /\ fds = Channel!Descriptors(Current)

(* A step that neither sends nor flushes.                                  *)
LEMMA FdsElsewhere ==
    ASSUME FdsInv, UNCHANGED << sent, out, outFds >>, HoldsFds',
           mixed => mixed', ~mixed' /\ FdsAttached => FdsAttached'
    PROVE  FdsInv'
<1>1. OutDistinct' /\ (FdsQueued => FdsQueued')
    BY DEF FdsInv, OutDistinct, FdsQueued
<1> QED
    BY <1>1 DEF FdsInv, HoldsFds

(* A read.                                                                 *)
LEMMA ReadKeepsFds ==
    ASSUME StreamInv, FdsInv, RecvFirst \/ RecvHeader \/ RecvPayload
    PROVE  FdsInv'
<1>1. /\ stream # <<>> /\ UNCHANGED << server, received, branches, eof >>
      /\ StreamTypeOK
    BY DEF RecvFirst, RecvHeader, RecvPayload, StreamInv
<1>2. /\ Len(fixed_buf) \in Nat /\ Len(payload) \in Nat /\ payload_size \in Nat
      /\ Channel!HeaderWords = 2 /\ stream \in Seq(SocketWord)
      /\ fixed_buf \in Seq(Word)
    BY <1>1, StreamTypes DEF StreamTypeOK
<1>3. \A wanted \in Nat \ {0} : ReadLength(wanted) \in 1 .. Len(stream)
    BY <1>1, <1>2, ReadLengthBounds
<1>4. /\ UNCHANGED << sent, out, outFds, mixed >> /\ Current' = Current
      /\ Lost' = Lost
    BY <1>1 DEF server, branches, Lost, Current
<1>5. Channel!Descriptors(Current)' = Channel!Descriptors(Current)
    BY <1>4 DEF Channel!Descriptors
<1>6. CASE RecvFirst
  <2> DEFINE k == ReadLength(Channel!HeaderWords)
  <2>1. Consume(k) /\ fixed_buf' = WordsRead(k)
    BY <1>6 DEF RecvFirst
  <2>2. k \in 1 .. Len(stream)
    BY <1>2, <1>3
  <2> HIDE DEF k
  <2>3. fixed_buf' # <<>>
    <3>1. Len(WordsRead(k)) = k /\ k # 0
      BY <1>2, <2>2, ReadWords
    <3> QED
      BY <2>1, <3>1, EmptyTypes
  <2>4. HoldsFds'
    <3>1. SUFFICES ASSUME ~Lost' PROVE fds' = Channel!Descriptors(Current)'
      BY <2>3 DEF HoldsFds
    <3> QED
      BY <1>4, <1>5, <1>6, <3>1, FirstReadFds
  <2>5. FdsAttached => FdsAttached'
    BY <1>1, <2>1, <2>2, ReadKeepsAttached
  <2> QED
    BY <1>4, <2>4, <2>5, FdsElsewhere
<1>7. CASE RecvHeader
  <2> DEFINE k == ReadLength(Channel!HeaderWords - Len(fixed_buf))
  <2>1. /\ Consume(k) /\ fixed_buf' = fixed_buf \o WordsRead(k)
        /\ Len(fixed_buf) < Channel!HeaderWords /\ UNCHANGED << pc, fds >>
        /\ pc = "header"
    BY <1>7 DEF RecvHeader
  <2>2. k \in 1 .. Len(stream)
    <3>1. Channel!HeaderWords - Len(fixed_buf) \in Nat \ {0}
      BY <1>2, <2>1, Remaining
    <3> QED
      BY <1>3, <3>1
  <2> HIDE DEF k
  <2>3. fixed_buf' # <<>>
    <3>1. Len(WordsRead(k)) = k /\ WordsRead(k) \in Seq(Word) /\ k # 0
      BY <1>2, <2>2, ReadWords
    <3>2. WordsRead(k) # <<>>
      BY <3>1, EmptyTypes
    <3> QED
      BY <1>2, <2>1, <3>1, <3>2, ConcatEqualIffEmpty
  <2>4. HoldsFds'
    BY <1>4, <1>5, <2>1, <2>3 DEF HoldsFds, FdsInv
  <2>5. FdsAttached => FdsAttached'
    BY <1>1, <2>1, <2>2, ReadKeepsAttached
  <2> QED
    BY <1>4, <2>4, <2>5, FdsElsewhere
<1>8. CASE RecvPayload
  <2> DEFINE k == ReadLength(payload_size - Len(payload))
  <2>1. /\ Consume(k) /\ Len(payload) < payload_size
        /\ UNCHANGED << pc, fds, fixed_buf >>
    BY <1>8 DEF RecvPayload
  <2>2. k \in 1 .. Len(stream)
    <3>1. payload_size - Len(payload) \in Nat \ {0}
      BY <1>2, <2>1, Remaining
    <3> QED
      BY <1>3, <3>1
  <2> HIDE DEF k
  <2>3. HoldsFds'
    BY <1>4, <1>5, <2>1 DEF HoldsFds, FdsInv
  <2>4. FdsAttached => FdsAttached'
    BY <1>1, <2>1, <2>2, ReadKeepsAttached
  <2> QED
    BY <1>4, <2>3, <2>4, FdsElsewhere
<1> QED
    BY <1>6, <1>7, <1>8

(* A read of an empty payload at a word with descriptors mixes them.       *)
LEMMA EmptyReadKeepsFds ==
    ASSUME StreamInv, FdsInv, RecvEmptyPayload
    PROVE  FdsInv'
<1>1. /\ StreamTypeOK /\ pc = "empty"
      /\ UNCHANGED << sent, out, outFds, eof, fixed_buf, fds, received, dropped >>
    BY DEF RecvEmptyPayload, server, StreamInv
<1>2. /\ Len(stream') = Len(stream)
      /\ \A i \in 1 .. Len(stream) : mixed' \/ stream'[i] = stream[i]
      /\ mixed => mixed'
    BY <1>1, EmptyRead
<1>3. /\ \A n : Channel!Descriptors(n)' = Channel!Descriptors(n)
      /\ Current' = Current
    BY <1>1 DEF Channel!Descriptors, Current
<1>4. ~mixed' /\ FdsAttached => FdsAttached'
    BY <1>2, <1>3 DEF FdsAttached
<1>5. HoldsFds'
    BY <1>1, <1>2, <1>3 DEF HoldsFds, FdsInv, Lost
<1> QED
    BY <1>1, <1>2, <1>4, <1>5, FdsElsewhere

(* Every step keeps the descriptors with their packets, until some go      *)
(* astray.                                                                 *)
LEMMA FdsStep ==
    ASSUME StreamInv, FdsInv, [Next]_vars
    PROVE  FdsInv'
<1>1. StreamTypeOK /\ WordsInv
    BY DEF StreamInv
<1>2. CASE RecvFirst \/ RecvHeader \/ RecvPayload
    BY <1>2, ReadKeepsFds
<1>3. ASSUME NEW shape \in Shapes, SendPacket(shape)
      PROVE  FdsInv'
    BY <1>3, SendKeepsFds
<1>4. ASSUME NEW k \in DOMAIN out, Flush(k)
      PROVE  FdsInv'
    BY <1>4, FlushKeepsFds
<1>5. CASE RecvEmptyPayload
    BY <1>5, EmptyReadKeepsFds
<1>6. CASE Elsewhere
  <2>1. UNCHANGED << sent, out, outFds, stream >>
    BY <1>1, <1>6, ElsewhereKeepsWords
  <2>2. mixed' = mixed
    BY <1>6 DEF Elsewhere, RecvNothing, ReadSize, HeaderError, ReturnPacket,
                Suspend, WakeAtEof, TakeOther, Close, OtherReady, branches, vars
  <2>3. FdsAttached => FdsAttached'
    BY <2>1 DEF FdsAttached, Channel!Descriptors
  <2>4. HoldsFds'
    <3>1. CASE HeaderError \/ ReturnPacket \/ TakeOther
      BY <3>1 DEF HeaderError, ReturnPacket, TakeOther, Restart, HoldsFds
    <3>2. CASE RecvNothing \/ Close
      BY <3>2 DEF RecvNothing, Close, HoldsFds, Lost
    <3>3. CASE ReadSize \/ Suspend \/ WakeAtEof \/ OtherReady \/ UNCHANGED vars
      <4>1. /\ UNCHANGED << eof, fixed_buf, fds, received, dropped >>
            /\ pc = "first" => pc' = "first"
        BY <3>3 DEF ReadSize, HeaderComplete, Suspend, WakeAtEof, OtherReady,
                    branches, vars
      <4>2. /\ \A n : Channel!Descriptors(n)' = Channel!Descriptors(n)
            /\ Current' = Current
        BY <2>1, <4>1 DEF Channel!Descriptors, Current
      <4> QED
        BY <2>2, <4>1, <4>2 DEF HoldsFds, FdsInv, Lost
    <3> QED
      BY <1>6, <3>1, <3>2, <3>3 DEF Elsewhere
  <2> QED
    BY <2>1, <2>2, <2>3, <2>4, FdsElsewhere
<1> QED
    BY <1>2, <1>3, <1>4, <1>5, <1>6 DEF Next, Recv, Elsewhere

-----------------------------------------------------------------------------
(* recv_packet implements the channel of packets.                          *)

(* Initially both are empty.                                               *)
LEMMA ChannelInitially == Init => FdsInv /\ Channel!Init
<1> SUFFICES ASSUME Init PROVE FdsInv /\ Channel!Init
    OBVIOUS
<1>1. Len(<<>>) = 0
    BY EmptyTypes
<1>2. FdsInv
    BY <1>1 DEF Init, FdsInv, OutDistinct, FdsQueued, FdsAttached
<1>3. Channel!Init
    BY DEF Init, Channel!Init
<1> QED
    BY <1>2, <1>3

(* A step sends a packet, receives the next one whole, loses the place or  *)
(* changes nothing that the channel shows.                                 *)
LEMMA ChannelStep ==
    ASSUME StreamInv, FdsInv, [Next]_vars
    PROVE  [Channel!Next]_(Channel!vars)
<1>1. CASE Lost'
    BY <1>1 DEF Channel!Next, Channel!Lose, Lost
<1>2. CASE ~Lost'
  <2>1. /\ StreamTypeOK /\ WordsInv
        /\ ~dropped /\ ~mixed /\ ~eof /\ ~dropped' /\ ~mixed' /\ ~eof'
    BY <1>2, LostForGood DEF Lost, StreamInv
  <2>2. PlaceKept /\ ~Lost
    BY <2>1 DEF StreamInv, Lost
  <2>3. (dropped \/ mixed \/ eof)' = (dropped \/ mixed \/ eof)
    BY <2>1
  <2>4. CASE ReturnPacket
    <3>1. /\ Current \in DOMAIN sent /\ UNCHANGED sent
          /\ received' = Append(received, [words |-> Channel!Words(Current),
                                           fds   |-> fds])
      BY <2>1, <2>2, <2>4, ReturnKeepsPlace DEF ReturnPacket, server
    <3>2. fds = Channel!Descriptors(Current)
      BY <2>2, <2>4 DEF ReturnPacket, FdsInv
    <3>3. received' = Append(received, Channel!PacketSent(Len(received) + 1))
      BY <3>1, <3>2 DEF Channel!PacketSent, Current
    <3>4. Len(received) < Len(sent)
      <4>1. /\ Len(received) \in Nat /\ Len(sent) \in Nat
            /\ DOMAIN sent = 1 .. Len(sent)
        BY <2>1, StreamTypes
      <4> QED
        BY <3>1, <4>1 DEF Current
    <3>5. Channel!Receive
      BY <2>1, <2>3, <3>1, <3>3, <3>4 DEF Channel!Receive
    <3> QED
      BY <3>5 DEF Channel!Next
  <2>5. ASSUME NEW shape \in Shapes, SendPacket(shape)
        PROVE  Channel!Send(shape)
    BY <2>3, <2>5 DEF SendPacket, Channel!Send
  <2>6. CASE \/ RecvFirst \/ RecvNothing \/ RecvHeader \/ ReadSize \/ HeaderError
             \/ RecvEmptyPayload \/ RecvPayload \/ Suspend \/ WakeAtEof
             \/ TakeOther \/ (\E k \in DOMAIN out : Flush(k)) \/ Close
             \/ OtherReady \/ UNCHANGED vars
    <3>1. UNCHANGED << sent, received >>
      BY <2>6 DEF RecvFirst, RecvNothing, RecvHeader, ReadSize, HeaderError,
             RecvEmptyPayload, RecvPayload, Suspend, WakeAtEof, TakeOther,
             Flush, Close, OtherReady, vars, server
    <3> QED
      BY <2>3, <3>1 DEF Channel!vars
  <2> QED
    BY <2>4, <2>5, <2>6 DEF Next, Recv, Channel!Next
<1> QED
    BY <1>1, <1>2

(* recv_packet implements the channel that the loop takes for granted:     *)
(* until the client loses its place, or a packet's descriptors go astray,  *)
(* each packet is returned whole, once, in order and with its own          *)
(* descriptors, however the compositor cuts its flushes.                   *)
THEOREM StreamImplementsChannel == Spec => Channel!Safety
<1>1. Init => StreamInv /\ FdsInv /\ Channel!Init
    BY StreamInitially, ChannelInitially
<1>2. StreamInv /\ FdsInv /\ [Next]_vars => StreamInv' /\ FdsInv'
    BY StreamStep, FdsStep
<1>3. StreamInv /\ FdsInv /\ [Next]_vars => [Channel!Next]_(Channel!vars)
    BY ChannelStep
<1> QED
    BY <1>1, <1>2, <1>3, PTL DEF Spec, Channel!Safety
=============================================================================
