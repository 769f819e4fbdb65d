------------------------------- MODULE Packet -------------------------------
(***************************************************************************)
(* The wire format of Wayland as whale-land reads and writes it: Packet    *)
(* and PacketReader (whale-land/src/packet.rs), the header that            *)
(* recv_packet takes apart (connection.rs), and the 24.8 fixed-point       *)
(* numbers of fixed.rs.                                                    *)
(*                                                                         *)
(* A byte has Byte values, 256 in the program; 16-bit numbers have two     *)
(* bytes and 32-bit ones four.  The bytes of a number are given from the   *)
(* least significant on: both ends run on one machine, whose order this    *)
(* is.  Object id 0 stands for None.                                       *)
(***************************************************************************)
EXTENDS Integers, Sequences, FiniteSets

CONSTANT Byte
ASSUME ByteAssumption == Byte \in Nat /\ Byte >= 16 /\ Byte % 2 = 0

U16Max == Byte * Byte - 1
U32Max == Byte * Byte * Byte * Byte - 1

ToBytes(n) ==
    << n % Byte, (n \div Byte) % Byte, (n \div (Byte * Byte)) % Byte,
       (n \div (Byte * Byte * Byte)) % Byte >>

Unsigned(b) == b[1] + Byte * (b[2] + Byte * (b[3] + Byte * b[4]))

(* Mutated form: the sign is lost.                                         *)
SignLost(b) == Unsigned(b)

(* from_ne_bytes of an i32, in two's complement.                           *)
Signed(b) ==
    LET n == Unsigned(b) IN IF 2 * n > U32Max THEN n - U32Max - 1 ELSE n

(* The bytes that align a string or an array of this length.               *)
Realign(len) == (4 - (len % 4)) % 4

Zeros(n) == [i \in 1 .. n |-> 0]

-----------------------------------------------------------------------------
(* Fixed.  Shifting left by a byte never fails, and loses the top byte.    *)

FixedTryFrom(n) == Signed(ToBytes(n * Byte))

(* TryFrom<Fixed> for i32, of a number without fraction.                   *)
FixedTryInto(inner) == inner \div Byte

-----------------------------------------------------------------------------
(* Packet: writing.                                                        *)

New(object_id, opcode) ==
    [object_id |-> object_id, opcode |-> opcode, payload |-> <<>>,
     fds |-> <<>>]

Extend(p, bytes) == [p EXCEPT !.payload = @ \o bytes]

(* push_uint, push_int, push_fixed, push_object and                        *)
(* push_new_id_known_interface.                                            *)
PushWord(p, n) == Extend(p, ToBytes(n))

(* Mutated form: the length does not count the terminating NUL.            *)
PushStrLen(p, s) ==
    Extend(p, ToBytes(Len(s)) \o s \o << 0 >> \o Zeros(Realign(Len(s) + 1)))

PushStr(p, s) ==
    LET len_with_nul == Len(s) + 1 IN
    Extend(p, ToBytes(len_with_nul) \o s \o << 0 >>
                \o Zeros(Realign(len_with_nul)))

PushArray(p, a) ==
    Extend(p, ToBytes(Len(a)) \o a \o Zeros(Realign(Len(a))))

(* push_new_id_unknown_interface *)
PushNewObject(p, o) ==
    PushWord(PushWord(PushStr(p, o.interface), o.version), o.object_id)

PushFd(p, fd) == [p EXCEPT !.fds = Append(@, fd)]

(* The push function of each kind of argument.                             *)
Push(p, kind, v) ==
    CASE kind = "string"     -> PushStr(p, v)
      [] kind = "array"      -> PushArray(p, v)
      [] kind = "new_object" -> PushNewObject(p, v)
      [] kind = "fd"         -> PushFd(p, v)
      [] kind = "fixed"      -> PushWord(p, FixedTryFrom(v))
      [] OTHER               -> PushWord(p, v)

TotalBytes(p) == 8 + Len(p.payload)

(* Mutated form: the length is not checked.                                *)
NeverTooLong(p) == FALSE

TooLong(p) == TotalBytes(p) > U16Max

Serialize(p) ==
    ToBytes(p.object_id)
        \o ToBytes(TotalBytes(p) * Byte * Byte + p.opcode) \o p.payload

-----------------------------------------------------------------------------
(* recv_packet: the header.  Only the low byte of the opcode is kept.      *)

SizeAndOpcode(bytes) == Unsigned(SubSeq(bytes, 5, 8))
PacketSize(bytes)    == SizeAndOpcode(bytes) \div (Byte * Byte)

Parsed(bytes, fds) ==
    [object_id |-> Unsigned(SubSeq(bytes, 1, 4)),
     opcode    |-> SizeAndOpcode(bytes) % Byte,
     payload   |-> SubSeq(bytes, 9, Len(bytes)),
     fds       |-> fds]

-----------------------------------------------------------------------------
(* PacketReader: where it is, what it read last, and how that failed.      *)

Read == [payload_pos |-> 0, fd_pos |-> 0, value |-> 0, error |-> "none"]

Fail(r, error)     == [r EXCEPT !.error = error]
Yield(r, v)        == [r EXCEPT !.value = v]
Got(r, n, v)       == Yield([r EXCEPT !.payload_pos = @ + n], v)

InBounds(p, r, n)  == r.payload_pos + n <= Len(p.payload)

Slice(p, r, from, n) ==
    SubSeq(p.payload, r.payload_pos + from + 1, r.payload_pos + from + n)

(* read_uint and read_object, read_int, and read_fixed.                    *)
ReadWord(p, r, value) ==
    IF InBounds(p, r, 4) THEN Got(r, 4, value) ELSE Fail(r, "FieldOutOfBounds")

ReadUint(p, r) == ReadWord(p, r, Unsigned(Slice(p, r, 0, 4)))
ReadInt(p, r)  == ReadWord(p, r, Signed(Slice(p, r, 0, 4)))

(* The length of the string or array that comes next, and its extent.      *)
NextLen(p, r)    == Unsigned(Slice(p, r, 0, 4))
NextExtent(p, r) == 4 + NextLen(p, r) + Realign(NextLen(p, r))

ReadArray(p, r) ==
    IF InBounds(p, r, 4) /\ InBounds(p, r, NextExtent(p, r))
    THEN Got(r, NextExtent(p, r), Slice(p, r, 4, NextLen(p, r)))
    ELSE Fail(r, "FieldOutOfBounds")

(* Mutated form: the position of the NUL is unwrapped.                     *)
UnwrapsNul(s) == \A i \in DOMAIN s : s[i] # 0

(* The NUL is subtracted from a length of 0.                               *)
Underflows(s) == s = <<>>

(* A string must end with its only NUL.  Of the bytes, the highest occurs  *)
(* in no UTF-8 text.                                                       *)
ReadStr(p, r) ==
    LET a == ReadArray(p, r)
        s == a.value
        nuls == { i \in DOMAIN s : s[i] = 0 }
    IN  IF a.error # "none" THEN a
        ELSE IF Underflows(s) THEN Fail(r, "underflow")
        ELSE IF nuls # {Len(s)} THEN Fail(r, "StringMisplacedNul")
        ELSE IF \E i \in DOMAIN s : s[i] = Byte - 1
        THEN Fail(r, "StringInvalidUtf8")
        ELSE Yield(a, SubSeq(s, 1, Len(s) - 1))

(* read_new_id_known_interface *)
ReadNewId(p, r) ==
    LET id == ReadUint(p, r) IN
    IF id.error = "none" /\ id.value = 0 THEN Fail(id, "ZeroObjectId") ELSE id

(* Mutated form: the id is read before the version.                        *)
ReadIdVersion(p, r) ==
    LET interface == ReadStr(p, r)
        id        == ReadNewId(p, interface)
        version   == ReadUint(p, id)
    IN  IF interface.error # "none" THEN interface
        ELSE IF id.error # "none" THEN id
        ELSE IF version.error # "none" THEN version
        ELSE Yield(version, [interface |-> interface.value,
                  version |-> version.value, object_id |-> id.value])

(* read_new_id_unknown_interface *)
ReadNewObject(p, r) ==
    LET interface == ReadStr(p, r)
        version   == ReadUint(p, interface)
        id        == ReadNewId(p, version)
    IN  IF interface.error # "none" THEN interface
        ELSE IF version.error # "none" THEN version
        ELSE IF id.error # "none" THEN id
        ELSE Yield(id, [interface |-> interface.value,
                  version |-> version.value, object_id |-> id.value])

ReadFd(p, r) ==
    IF r.fd_pos < Len(p.fds)
    THEN Yield([r EXCEPT !.fd_pos = @ + 1], p.fds[r.fd_pos + 1])
    ELSE Fail(r, "FdOutOfBounds")

(* The read function of each kind of argument.                             *)
ReadArg(p, r, kind) ==
    CASE kind = "string"             -> ReadStr(p, r)
      [] kind = "array"              -> ReadArray(p, r)
      [] kind = "new_id"             -> ReadNewId(p, r)
      [] kind = "new_object"         -> ReadNewObject(p, r)
      [] kind = "fd"                 -> ReadFd(p, r)
      [] kind = "int"                -> ReadInt(p, r)
      [] kind = "fixed"              -> ReadInt(p, r)
      [] kind \in {"uint", "object"} -> ReadUint(p, r)

(* finish succeeds.                                                        *)
AllRead(p, r) ==
    r.payload_pos >= Len(p.payload) /\ r.fd_pos >= Len(p.fds)

=============================================================================
