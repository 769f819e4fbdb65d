------------------------------- MODULE Codec -------------------------------
(***************************************************************************)
(* One packet from its arguments to its arguments: a request through the   *)
(* proxy or the argument structure of its interface to the compositor, or  *)
(* an event through recv_packet to handle_event or to try_from_packet,     *)
(* which wayland_dispatch calls (whale-land/src/protocol/*.rs, packet.rs,  *)
(* connection.rs).  A step is one push, one read, or the sending and the   *)
(* receiving of the whole.                                                 *)
(*                                                                         *)
(* The compositor (external) writes events and reads requests as the       *)
(* argument structures of the source do; besides, it may leave out a       *)
(* string where the protocol allows that, and it may send an event that    *)
(* the bindings do not know: main binds the version of a global that the   *)
(* compositor offers, not that of the bindings.  A client that lost its    *)
(* place in the stream (see WaylandStream) reads other words under a       *)
(* header.                                                                 *)
(***************************************************************************)
EXTENDS Packet, WaylandCore, ExtDataControl

CONSTANTS
    Values,         \* some arguments of each kind
    SomeId,         \* an object
    Misreadings     \* by how many words a payload may be misread

(* What can be written as an argument of each kind, which the types of the *)
(* source and push_str's assertion say: strings hold no NUL.  A Fixed is   *)
(* given as its whole number.                                              *)
Arguments(kind) ==
    CASE kind = "int" -> (-(U32Max \div 2) - 1) .. U32Max \div 2
      [] kind = "fixed" ->
            { n \in Int : n * Byte \in (-(U32Max \div 2) - 1) .. U32Max \div 2 }
      [] kind \in {"uint", "object", "fd"} -> 0 .. U32Max
      [] kind = "new_id" -> 1 .. U32Max
      [] kind = "string" -> Seq(1 .. Byte - 2)
      [] kind = "array" -> Seq(0 .. Byte - 1)
      [] kind = "new_object" -> [interface : Seq(1 .. Byte - 2),
                                 version : 0 .. U32Max,
                                 object_id : 1 .. U32Max]

Kinds == ArgTypes \cup {"new_object"}

ASSUME CodecAssumption ==
    /\ DOMAIN Values = Kinds
    /\ \A kind \in Kinds : \A v \in Values[kind] : v \in Arguments(kind)
    /\ SomeId \in 1 .. U32Max /\ Misreadings \subseteq Nat

VARIABLES
    step,           \* what comes next, or how it ended
    way,            \* the interface and the lists that encode and decode
    message,        \* the procedure called, from the encoder's list
    values,         \* its arguments, as far as they were written
    packet,         \* the packet being written, then read
    wire,           \* its bytes on the socket
    reader,         \* the PacketReader
    decoded,        \* the arguments read
    misread         \* the client had lost its place

vars == << step, way, message, values, packet, wire, reader, decoded, misread >>

Interfaces == WaylandCoreInterfaces @@ ExtDataControlInterfaces

Request == {"request_proxy", "request_args"}
Event   == {"event_handler", "event_args"}
Ways ==
    [interface : DOMAIN Interfaces, encoder : Request,
     decoder : {"request_args"}]
    \cup [interface : DOMAIN Interfaces, encoder : {"event_args"},
          decoder : Event]

(* An event of a version after that of the bindings.                       *)
Newer(events) == { M(Len(events), "newer", << "uint" >>) : e \in ToSet(events) }

Encodings(w) ==
    LET list == Interfaces[w.interface][w.encoder] IN
    ToSet(list) \cup IF w.encoder \in Event THEN Newer(list) ELSE {}

Decodings(w) == ToSet(Interfaces[w.interface][w.decoder])

(* The arguments that protocols allow to be left out, in events; what      *)
(* stands for a string left out is not the bytes of any.                   *)
NoString == << Byte >>
Nullable == {<< "wl_data_source_v3", "target" >>}

OfKind(w, m, kind) ==
    IF kind = "string" /\ << w.interface, m.name >> \in Nullable
    THEN Values[kind] \cup {NoString} ELSE Values[kind]

(* The lists that encode and decode an interface's packets agree, and every*)
(* opcode is less than the number of values of a byte.                     *)
ASSUME BindingsAssumption ==
    \A w \in Ways : \A m \in Encodings(w) :
        /\ m.opcode \in 0 .. Byte - 1 /\ m.args \in Seq(Kinds)
        /\ m.name # "newer" => m \in Decodings(w)
        /\ \A d \in Decodings(w) : d.opcode = m.opcode => d = m

-----------------------------------------------------------------------------
Init ==
    /\ way \in Ways /\ message \in Encodings(way)
    /\ step = "write" /\ values = <<>>
    /\ packet = New(SomeId, message.opcode)
    /\ wire = <<>> /\ reader = Read /\ decoded = <<>>
    /\ misread = FALSE

(* The body of a send function, or of try_into_packet: an argument, ...    *)
PushArgument ==
    LET i == Len(values) + 1
        kind == message.args[i]
    IN  /\ step = "write" /\ i <= Len(message.args)
        /\ \E v \in OfKind(way, message, kind) :
              /\ values' = Append(values, v)
              /\ packet' = IF kind = "string" /\ v = NoString
                           THEN PushWord(packet, 0) ELSE Push(packet, kind, v)
        /\ UNCHANGED << step, way, message, wire, reader, decoded, misread >>

(* ... and in the end send_packet.                                         *)
SendPacket ==
    /\ step = "write" /\ Len(values) = Len(message.args)
    /\ IF TooLong(packet)
       THEN step' = "too long" /\ UNCHANGED wire
       ELSE step' = "sent" /\ wire' = Serialize(packet)
    /\ UNCHANGED << way, message, values, packet, reader, decoded,
                    misread >>

(* The client reads, under the header, later words first.                  *)
LosePlace(k) ==
    /\ step = "sent" /\ ~misread /\ way.decoder \in Event
    /\ 4 * k < Len(packet.payload)
    /\ misread' = TRUE
    /\ wire' = SubSeq(wire, 1, 8) \o SubSeq(wire, 9 + 4 * k, Len(wire))
                  \o SubSeq(wire, 9, 8 + 4 * k)
    /\ UNCHANGED << step, way, message, values, packet, reader, decoded >>

(* recv_packet, and the match on the opcode.                               *)
ReceivePacket ==
    LET received == Parsed(wire, packet.fds)
        matches  == { m \in Decodings(way) : m.opcode = received.opcode }
    IN  /\ step = "sent"
        /\ packet' = received
        /\ IF matches = {}
           THEN step' = "unknown" /\ UNCHANGED message
           ELSE step' = "read" /\ message' \in matches
        /\ UNCHANGED << way, values, wire, reader, decoded, misread >>

(* An argument is read; the first that fails ends it.  The underflow       *)
(* panics in a debug build and wraps, to that error, in a release.         *)
ReadArgument ==
    LET i    == Len(decoded) + 1
        next == ReadArg(packet, reader, message.args[i])
    IN  /\ step = "read" /\ i <= Len(message.args)
        /\ IF next.error = "none"
           THEN decoded' = Append(decoded, next.value) /\ UNCHANGED step
           ELSE /\ step' \in IF next.error = "underflow"
                             THEN {"panicked", "failed"} ELSE {"failed"}
                /\ UNCHANGED decoded
        /\ reader' = next
        /\ UNCHANGED << way, message, values, packet, wire, misread >>

(* finish, and then the handler or the structure.                          *)
FinishPacket ==
    /\ step = "read" /\ Len(decoded) = Len(message.args)
    /\ step' = IF AllRead(packet, reader) THEN "handled" ELSE "failed"
    /\ UNCHANGED << way, message, values, packet, wire, reader, decoded,
                    misread >>

Next ==
    \/ PushArgument \/ SendPacket
    \/ \E k \in Misreadings : LosePlace(k)
    \/ ReceivePacket \/ ReadArgument \/ FinishPacket

Spec == Init /\ [][Next]_vars

-----------------------------------------------------------------------------
(* Properties.                                                             *)

TypeOf(kind) ==
    CASE kind \in {"int", "fixed"} -> (-(U32Max \div 2) - 1) .. U32Max \div 2
      [] kind \in {"uint", "object", "fd"} -> 0 .. U32Max
      [] kind = "new_id" -> 1 .. U32Max
      [] kind \in {"string", "array"} -> Seq(0 .. Byte - 1)
      [] kind = "new_object" -> [interface : Seq(0 .. Byte - 1),
                                 version : 0 .. U32Max,
                                 object_id : 1 .. U32Max]

(* Types: what is read has the type of its argument, misread or not.       *)
CodecTypeOK ==
    /\ step \in {"write", "too long", "sent", "read", "unknown", "failed",
                 "panicked", "handled"}
    /\ way \in Ways /\ misread \in BOOLEAN
    /\ packet.payload \in Seq(0 .. Byte - 1) /\ wire \in Seq(0 .. Byte - 1)
    /\ reader.error \in {"none", "FieldOutOfBounds", "underflow", "ZeroObjectId",
           "StringMisplacedNul", "StringInvalidUtf8", "FdOutOfBounds"}
    /\ \A i \in DOMAIN decoded : decoded[i] \in TypeOf(message.args[i])

(* Whichever of its two encoders and two decoders a packet goes through,   *)
(* the handler called is that of the procedure that was called, and its    *)
(* arguments are those given: the proxies, structures and handlers of each *)
(* interface agree on opcodes and on the order and the kinds of arguments, *)
(* and reading undoes writing for each kind.                               *)
RoundTrip ==
    step = "handled" /\ ~misread =>
        /\ \E m \in Encodings(way) :
              m.name = message.name /\ m.opcode = SizeAndOpcode(wire) % (Byte * Byte)
        /\ Len(decoded) = Len(values)
        /\ \A i \in DOMAIN decoded :
              IF message.args[i] = "fixed"
              THEN FixedTryInto(decoded[i]) = values[i]
              ELSE decoded[i] = values[i]

(* A client that has kept its place takes every packet, unless a string is *)
(* left out, which PacketReader has no form for; and an event is unknown   *)
(* to it only when it is newer than the bindings.                          *)
WellFormedAccepted ==
    ~misread =>
        /\ step \in {"failed", "panicked"} =>
              \E i \in DOMAIN values :
                  message.args[i] = "string" /\ values[i] = NoString
        /\ step = "unknown" => message.name = "newer"

(* The receiver of a packet finds the next one: the header announces the   *)
(* length of what was sent, 16 bits are enough for it, and it is a number  *)
(* of whole words, however long the strings and arrays are.                *)
Delimited ==
    step = "sent" => /\ PacketSize(wire) = Len(wire)
                     /\ Len(wire) % 4 = 0

(* Even in a packet read out of place no field is taken from beyond the    *)
(* end of the payload, and reading ends in the handler or in an error;     *)
(* only a string of length 0 can end it in a panic.                        *)
ReaderInBounds ==
    /\ reader.payload_pos <= Len(packet.payload)
    /\ reader.fd_pos <= Len(packet.fds)
    /\ step = "panicked" => NextLen(packet, reader) = 0

-----------------------------------------------------------------------------
(* The protocol in XML (external): the interface of `way`, its procedures  *)
(* in several orders and among other elements.                             *)

Argument(kind) ==
    [type |-> IF kind = "new_object" THEN "new_id" ELSE kind,
     interface |-> kind \in {"new_id", "object"}]

Elements(tag, procedures) ==
    [i \in DOMAIN procedures |->
        [tag |-> tag, name |-> procedures[i].name,
         args |-> [j \in DOMAIN procedures[i].args |->
                      Argument(procedures[i].args[j])]]]

Other(tag) == << [tag |-> tag, name |-> "", args |-> <<>>] >>

Documents(interface) ==
    LET requests == Elements("request", Interfaces[interface].request_args)
        events   == Elements("event", Interfaces[interface].event_args)
    IN  {Other("description") \o requests \o Other("enum") \o events,
         events \o Other("enum") \o requests,
         IF events = <<>> THEN requests
         ELSE << Head(events) >> \o Other("enum") \o requests \o Tail(events)}

(* The bindings kept in the repository are what the generator makes of the *)
(* protocol, in whatever order the XML lists requests, events and enums:   *)
(* opcodes count the requests and the events of an interface apart.        *)
Regenerated ==
    step = "write" /\ values = <<>> =>
        \A xml \in Documents(way.interface) :
            /\ \A i \in DOMAIN xml : ProcedureValid(xml[i])
            /\ TokenizeInterface(xml) = Interfaces[way.interface]

=============================================================================
