--------------------------- MODULE PacketChannel ---------------------------
(***************************************************************************)
(* What the rest of the program expects of Connection::recv_packet         *)
(* (whale-land/src/connection.rs): the compositor's packets, one at a      *)
(* time, whole, in order, each with the descriptors that are its arguments.*)
(* Clipboard relies on this channel in both directions.  Once the client   *)
(* has lost its place in the stream nothing is promised any more.          *)
(*                                                                         *)
(* The unit of a packet is the 32-bit word: two words of header (the       *)
(* sender; the size and the opcode) and those of its arguments.            *)
(***************************************************************************)
EXTENDS Naturals, Sequences

CONSTANTS
    Shapes,       \* kinds of packets: words of payload, descriptors
    MaxPackets    \* bound: packets the compositor sends

VARIABLES
    sent,         \* the shapes of the packets sent
    received,     \* the packets that recv_packet returned
    lost          \* the client has lost its place: nothing is promised

HeaderWords == 2

(* The nth packet sent.                                                    *)
Words(n)       == [off \in 1 .. HeaderWords + sent[n].payload |->
                      [pkt |-> n, off |-> off]]
Descriptors(n) == [i \in 1 .. sent[n].fds |-> [pkt |-> n, arg |-> i]]
PacketSent(n)  == [words |-> Words(n), fds |-> Descriptors(n)]

Init == sent = <<>> /\ received = <<>> /\ lost = FALSE

Send(shape) ==
    /\ Len(sent) < MaxPackets
    /\ sent' = Append(sent, shape)
    /\ UNCHANGED << received, lost >>

Receive ==
    /\ ~lost /\ Len(received) < Len(sent)
    /\ received' = Append(received, PacketSent(Len(received) + 1))
    /\ UNCHANGED << sent, lost >>

(* What is received afterwards is left open, but it is never found again.  *)
Lose == lost'

Next == Receive \/ Lose \/ \E shape \in Shapes : Send(shape)

(* The next packet is due: it has arguments, or another one was sent.      *)
Due ==
    LET next == Len(received) + 1 IN
    next < Len(sent) \/ (next = Len(sent) /\ sent[next].payload > 0)

vars == << sent, received, lost >>

(* What is received is what was sent.                                      *)
Safety == Init /\ [][Next]_vars

(* And what is due is received.                                            *)
Spec == Safety /\ WF_vars(Due /\ Receive)
=============================================================================
