-------------------------- MODULE SecretTransport --------------------------
(***************************************************************************)
(* How secrets travel from the secrets service to one-true-pairing:        *)
(* the two CryptoAlgorithms of one-true-pairing/src/secrets/crypto.rs and  *)
(* the key agreement of dh.rs, over a small group.                         *)
(*                                                                         *)
(* A number on the bus is a sequence of Width digits of base Base, most    *)
(* significant first (128 bytes in the program).  HKDF is taken to be      *)
(* injective, so a derived key is the bytes it is derived from; AES is     *)
(* taken to give the text back to who has the key and the vector, and bad  *)
(* padding to everybody else.                                              *)
(***************************************************************************)
EXTENDS Naturals, Sequences

CONSTANTS
    Prime, Generator,   \* OAKLEY_2_PRIME and OAKLEY_2_GENERATOR
    Base, Width,        \* digits of a number
    IvLength            \* length of an initialization vector (16)

ASSUME GroupAssumption ==
    /\ Generator \in Nat \ {0, 1} /\ Prime \in Nat /\ Prime > 2 * Generator
    /\ Prime % 2 = 1 /\ Base \in Nat \ {0, 1} /\ Width \in Nat \ {0}
    /\ IvLength \in Nat \ {0}

Weight == LET w[n \in Nat] == IF n = 0 THEN 1 ELSE Base * w[n - 1] IN w

(* The numbers of the group fit.                                           *)
ASSUME WidthAssumption == Prime <= Weight[Width]

Power == [b \in 0 .. Prime - 1 |->
             LET pow[e \in Nat] ==
                     IF e = 0 THEN 1 ELSE (pow[e - 1] * b) % Prime
             IN  pow]

(* generate_private_key: a random number of full width, halved, drawn      *)
(* again until it is in range.                                             *)
PrivateKeys ==
    LET q == (Prime - 1) \div Generator
    IN  { r \in { p \div 2 : p \in 0 .. Weight[Width] - 1 } :
            r >= 2 /\ r <= q - 2 }

PublicKey(private) == Power[Generator][private]

(* to_be_byte_vec: all the digits, leading zeros included.                 *)
ToBeBytes(n) ==
    [i \in 1 .. Width |-> (n \div Weight[Width - i]) % Base]

BytesTooLong(bytes) == Len(bytes) > Width

(* Mutated form: short numbers are padded at the end.                      *)
PadAfter(bytes) == bytes \o [i \in 1 .. Width - Len(bytes) |-> 0]

(* Short numbers are padded in front.                                      *)
Pad(bytes) == [i \in 1 .. Width - Len(bytes) |-> 0] \o bytes

(* Uint::from_be_slice: the number that has these digits.                  *)
FromBeSlice(bytes) ==
    LET number[i \in 0 .. Len(bytes)] ==
            IF i = 0 THEN 0 ELSE number[i - 1] * Base + bytes[i]
    IN  number[Len(bytes)]

(* public_key_from_be_bytes, for bytes that are not too long: the number   *)
(* is reduced modulo the prime when it enters the group.                   *)
PublicKeyFromBeBytes(bytes) ==
    FromBeSlice(Pad(bytes)) % Prime

DeriveSecretKey(private, public) == Power[public][private]

Hkdf(ikm) == << "hkdf", ikm >>

NoKey == << "none", <<>> >>

-----------------------------------------------------------------------------
(* CryptoAlgorithm.  A value on the bus has a type and contents.           *)

Dh    == "dh-ietf1024-sha256-aes128-cbc-pkcs7"
Plain == "plain"

GetSessionInput(algo, private) ==
    IF algo = Dh THEN [type |-> "ay", data |-> ToBeBytes(PublicKey(private))]
                 ELSE [type |-> "s", data |-> <<>>]

(* Does set_session_output return true?                                    *)
OutputValid(algo, output) ==
    IF algo = Dh THEN output.type = "ay" /\ ~BytesTooLong(output.data)
                 ELSE output.type = "s" /\ output.data = <<>>

(* The key that set_session_output leaves behind.                          *)
AesKey(algo, private, output) ==
    IF algo = Dh
    THEN Hkdf(ToBeBytes(DeriveSecretKey(private,
                                        PublicKeyFromBeBytes(output.data))))
    ELSE NoKey

NoSecret == << "none" >>

(* decode_secret: what the value decodes to, or NoSecret.                  *)
DecodeSecret(algo, key, secret) ==
    LET p == secret.parameters
        v == secret.value
    IN  CASE algo = Plain -> IF p = <<>> THEN << "some", v >> ELSE NoSecret
          [] algo = Dh ->
                IF Len(p) # IvLength \/ key = NoKey
                    \/ [key |-> v.key, iv |-> v.iv] # [key |-> key, iv |-> p]
                THEN NoSecret
                ELSE << "some", v.text >>

-----------------------------------------------------------------------------
(* The service (external): it sends numbers with or without leading zeros. *)

Stripped(bytes) ==
    LET first == { i \in DOMAIN bytes : \A j \in 1 .. i - 1 : bytes[j] = 0 }
        start == CHOOSE i \in first : \A j \in first : j <= i
    IN  SubSeq(bytes, start, Len(bytes))

ServicePrivateKeys == 1 .. Prime - 2

ServiceOutputs(algo, private) ==
    IF algo = Plain THEN {[type |-> "s", data |-> <<>>]}
    ELSE { [type |-> "ay", data |-> bytes] :
             bytes \in {ToBeBytes(PublicKey(private)),
                        Stripped(ToBeBytes(PublicKey(private)))} }

(* Answers that no algorithm accepts.                                      *)
InvalidOutputs ==
    {[type |-> "ay", data |-> [i \in 1 .. Width + 1 |-> 1]],
     [type |-> "s", data |-> << 1 >>]}

ServiceKey(algo, input, private) ==
    IF algo = Plain THEN NoKey
    ELSE Hkdf(ToBeBytes(Power[FromBeSlice(input.data) % Prime][private]))

EncodeSecret(algo, key, text) ==
    IF algo = Plain THEN [parameters |-> <<>>, value |-> text]
    ELSE LET iv == [i \in 1 .. IvLength |-> 0]
         IN  [parameters |-> iv, value |-> [key |-> key, iv |-> iv, text |-> text]]
=============================================================================
