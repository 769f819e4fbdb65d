-------------------------------- MODULE Totp --------------------------------
(***************************************************************************)
(* From a secret to a code: TotpParameters::try_from_otpauth_url, totp_now *)
(* and what ContextMenu::event makes of them (one-true-pairing/src/totp.rs *)
(* and notifier/mod.rs).  A step is one property of the URL, or one of the *)
(* stages after them.                                                      *)
(*                                                                         *)
(* A text is a sequence of bytes; the values of digits and period are      *)
(* numbers or NotANumber; names and algorithms are strings.  The user and  *)
(* the service that issued the URL (external) encoded it; the HMAC may     *)
(* have any bytes.                                                         *)
(***************************************************************************)
EXTENDS Integers, Sequences, FiniteSets, SequencesExt

CONSTANTS
    Properties,     \* properties of URLs: name, value, and what was encoded
    MaxProperties,  \* bound: properties of one URL
    HmacOutputs     \* some outputs of each algorithm

NotANumber == -1    \* a text that is no number

ASSUME PropertiesAssumption ==
    /\ MaxProperties \in Nat
    /\ \A p \in Properties :
            /\ p.name \in {"digits", "period"} =>
                    p.value \in Nat \cup {NotANumber}
            /\ p.name \in {"secret", "issuer"} => p.value \in Seq(0 .. 255)

ASSUME OutputsAssumption ==
    /\ DOMAIN HmacOutputs = {"SHA1", "SHA256", "SHA512"}
    /\ HmacOutputs["SHA1"] \subseteq [1 .. 20 -> 0 .. 255]
    /\ HmacOutputs["SHA256"] \subseteq [1 .. 32 -> 0 .. 255]
    /\ HmacOutputs["SHA512"] \subseteq [1 .. 64 -> 0 .. 255]

VARIABLES
    step,                           \* what comes next, or how it ended
    url,                            \* its properties
    at,                             \* how many were read
    secret, attrib_issuer, algorithm, digits, period_seconds,   \* read so far
    key,                            \* the secret decoded
    hmac,                           \* its HMAC of the counter
    code                            \* the text that is copied: its digits

params == << secret, attrib_issuer, algorithm, digits, period_seconds >>
vars   == << step, url, at, params, key, hmac, code >>

Unset   == << "none" >>
Some(x) == << "some", x >>

-----------------------------------------------------------------------------
(* Conversions.                                                            *)

(* hex_to_nibble; 255 for a byte that is no digit.                         *)
HexToNibble(b) ==
    IF b \in 48 .. 57 THEN b - 48
    ELSE IF b \in 65 .. 70 THEN b - 65 + 10
    ELSE IF b \in 97 .. 102 THEN b - 97 + 10
    ELSE 255

Escape(top, bottom) == 16 * HexToNibble(top) + HexToNibble(bottom)

(* urldecode, with plus.  An escape that is not one is copied, with what   *)
(* was looked at to see that.                                              *)
Urldecode(text) ==
    LET n == Len(text)
        decode[i \in 1 .. n + 3] ==
            IF i > n THEN <<>>
            ELSE IF text[i] = 43 THEN << 32 >> \o decode[i + 1]
            ELSE IF text[i] # 37 \/ i = n THEN << text[i] >> \o decode[i + 1]
            ELSE IF HexToNibble(text[i + 1]) = 255 \/ i + 1 = n
            THEN << text[i], text[i + 1] >> \o decode[i + 2]
            ELSE IF HexToNibble(text[i + 2]) = 255
            THEN << text[i], text[i + 1], text[i + 2] >> \o decode[i + 3]
            ELSE << Escape(text[i + 1], text[i + 2]) >> \o decode[i + 3]
    IN  decode[1]

(* UTF-8, as from_utf8 has it: how many bytes the character has that       *)
(* begins with b, or 0 if none does, and what its second byte may be, so   *)
(* that nothing is longer than it need be, a surrogate or too large.       *)
CharLength(b) ==
    CASE b < 128 -> 1 [] b \in 194 .. 223 -> 2 [] b \in 224 .. 239 -> 3
      [] b \in 240 .. 244 -> 4 [] OTHER -> 0

SecondBytes(b) ==
    CASE b = 224 -> 160 .. 191 [] b = 237 -> 128 .. 159
      [] b = 240 -> 144 .. 191 [] b = 244 -> 128 .. 143 [] OTHER -> 128 .. 191

(* zv_to_string succeeds: every byte begins a character that is all there, *)
(* or belongs to one that begins at most three bytes before.               *)
IsUtf8(text) ==
    \A i \in DOMAIN text :
        \/ /\ CharLength(text[i]) > 0
           /\ \A j \in 1 .. CharLength(text[i]) - 1 :
                 /\ i + j <= Len(text)
                 /\ text[i + j] \in IF j = 1 THEN SecondBytes(text[i])
                                     ELSE 128 .. 191
        \/ /\ text[i] \in 128 .. 191
           /\ \E j \in 1 .. 3 : j < i /\ CharLength(text[i - j]) > j

(* The five bits of a base-32 character, or 255 for any other.             *)
Base32(b) ==
    IF b \in 65 .. 90 THEN b - 65
    ELSE IF b \in 97 .. 122 THEN b - 97
    ELSE IF b \in 50 .. 55 THEN b - 50 + 26
    ELSE 255

(* Mutated form: the bits to toss are taken from the front.                *)
TossFirst(bits, n) == SubSeq(bits, Len(bits) - n + 1, Len(bits))

(* The first n bits; the rest are tossed.                                  *)
Toss(bits, n) == SubSeq(bits, 1, n)

BitsOf(n, width) == [i \in 1 .. width |-> (n \div 2 ^ (width - i)) % 2]

(* The number that has these digits.                                       *)
Numeral(base, figures) ==
    LET number[i \in 0 .. Len(figures)] ==
            IF i = 0 THEN 0 ELSE base * number[i - 1] + figures[i]
    IN  number[Len(figures)]

Number(bits) == Numeral(2, bits)

(* How many bytes a chunk of so many characters holds; 0 is invalid.       *)
BytesIn(length) ==
    CASE length = 2 -> 1 [] length = 4 -> 2 [] length = 5 -> 3
      [] length = 7 -> 4 [] length = 8 -> 5 [] OTHER -> 0

DecodeChunk(chunk) ==
    LET n     == BytesIn(Len(chunk))
        value == FlattenSeq([i \in DOMAIN chunk |-> BitsOf(Base32(chunk[i]), 5)])
        kept  == Toss(value, 8 * n)
    IN  [j \in 1 .. n |-> Number(SubSeq(kept, 8 * j - 7, 8 * j))]

Chunk(text, k) ==
    SubSeq(text, 8 * k - 7, IF 8 * k < Len(text) THEN 8 * k ELSE Len(text))

Chunks(text) == [k \in 1 .. (Len(text) + 7) \div 8 |-> Chunk(text, k)]

Base32Valid(text) ==
    /\ \A i \in DOMAIN text : Base32(text[i]) # 255
    /\ \A k \in DOMAIN Chunks(text) : BytesIn(Len(Chunk(text, k))) # 0

(* decode_base32, of a valid text.                                         *)
DecodeBase32(text) ==
    FlattenSeq([k \in DOMAIN Chunks(text) |-> DecodeChunk(Chunk(text, k))])

(* What those who issue URLs encode keys and texts with (external): base   *)
(* 32 without padding, in small letters or capitals (RFC 4648), and        *)
(* escapes, in small or capital digits, of all bytes but the plain ones    *)
(* (RFC 3986); a plain space is sent as a plus.                            *)
Letter(n, first) == IF n < 26 THEN first + n ELSE 50 + n - 26

Encode32(k, first) ==
    LET bits  == FlattenSeq([i \in DOMAIN k |-> BitsOf(k[i], 8)])
        chars == (Len(bits) + 4) \div 5
        fill  == bits \o [i \in 1 .. 5 * chars - Len(bits) |-> 0]
    IN  [c \in 1 .. chars |->
            Letter(Number(SubSeq(fill, 5 * c - 4, 5 * c)), first)]

Hex(n, ten) == IF n < 10 THEN 48 + n ELSE ten + n - 10

EscapedByte(b, plain, ten) ==
    IF b \notin plain THEN << 37, Hex(b \div 16, ten), Hex(b % 16, ten) >>
    ELSE IF b = 32 THEN << 43 >> ELSE << b >>

Escaped(text, plain, ten) ==
    FlattenSeq([i \in DOMAIN text |-> EscapedByte(text[i], plain, ten)])

-----------------------------------------------------------------------------
Init ==
    /\ url \in BoundedSeq(Properties, MaxProperties)
    /\ at = 0 /\ step = "url"
    /\ secret = Unset /\ attrib_issuer = Unset /\ algorithm = Unset
    /\ digits = Unset /\ period_seconds = Unset
    /\ key = <<>> /\ hmac = <<>> /\ code = <<>>

(* Mutated form: nine digits are let through.                              *)
DigitsUpTo9(n) == n \in 6 .. 9

DigitsAllowed(n) == n \in 6 .. 8

(* Mutated form: the first property of a name is kept.                     *)
KeepFirst(old, new) == IF old = Unset THEN Some(new) ELSE old

(* A property of a name replaces those before it.                          *)
Assign(old, new) == Some(new)

(* The loop of try_from_otpauth_url.  A property without a value, or whose *)
(* value is not UTF-8, is passed over, and so is an unknown one.           *)
ReadProperty ==
    LET p    == url[at + 1]
        text == Urldecode(p.value)
    IN  /\ step = "url" /\ at < Len(url)
        /\ at' = at + 1
        /\ secret' = IF p.name = "secret" /\ IsUtf8(text)
                     THEN Assign(secret, text) ELSE secret
        /\ attrib_issuer' = IF p.name = "issuer" /\ IsUtf8(text)
                            THEN Assign(attrib_issuer, text) ELSE attrib_issuer
        /\ algorithm' = IF p.name = "algorithm"
                        THEN Assign(algorithm, p.value) ELSE algorithm
        /\ digits' = IF p.name = "digits" /\ DigitsAllowed(p.value)
                     THEN Assign(digits, p.value) ELSE digits
        /\ period_seconds' = IF p.name = "period" /\ p.value > 0
                             THEN Assign(period_seconds, p.value)
                             ELSE period_seconds
        /\ step' = IF \/ p.name = "digits" /\ ~DigitsAllowed(p.value)
                      \/ p.name = "period" /\ p.value <= 0
                   THEN "refused" ELSE step
    /\ UNCHANGED << url, key, hmac, code >>

(* The rest of try_from_otpauth_url.                                       *)
DecodeSecret ==
    /\ step = "url" /\ at = Len(url)
    /\ IF secret # Unset /\ Base32Valid(secret[2])
       THEN step' = "algorithm" /\ key' = DecodeBase32(secret[2])
       ELSE step' = "refused" /\ UNCHANGED key
    /\ UNCHANGED << url, at, params, hmac, code >>

(* The defaults, in ContextMenu::event.                                    *)
Or(option, default) == IF option = Unset THEN default ELSE option[2]

Algorithm == Or(algorithm, "SHA1")
Digits    == Or(digits, 6)
Period    == Or(period_seconds, 30)

ResolveAlgorithm ==
    /\ step = "algorithm"
    /\ step' = IF Algorithm \in DOMAIN HmacOutputs THEN "hmac" ELSE "refused"
    /\ UNCHANGED << url, at, params, key, hmac, code >>

(* totp and the first half of hotp: a division by 0 and the assertion on   *)
(* the digits panic.  The counter determines the HMAC, which is any.       *)
Hash ==
    /\ step = "hmac"
    /\ IF Period = 0 \/ Digits \notin 6 .. 8
       THEN step' = "panicked" /\ UNCHANGED hmac
       ELSE step' = "truncate" /\ hmac' \in HmacOutputs[Algorithm]
    /\ UNCHANGED << url, at, params, key, code >>

(* from_be_bytes, without the top bit.                                     *)
BigEndian31(b) ==
    b[4] + 256 * b[3] + 256 * 256 * b[2] + 256 * 256 * 256 * (b[1] % 128)

Truncated ==
    LET offset == Last(hmac) % 16
    IN  BigEndian31(SubSeq(hmac, offset + 1, offset + 4))

(* Mutated form: leading zeros are left out.                               *)
NoWidth(digits_asked) == 1

(* The width that is asked of format!.                                     *)
Width(digits_asked) == digits_asked

(* The decimal digits, with zeros in front up to the width.                *)
FormatCode(n, width) ==
    LET used == CHOOSE w \in 1 .. 10 :
                    /\ w >= width /\ 10 ^ (IF w > 9 THEN 9 ELSE w) > n
                    /\ \A v \in width .. w - 1 : 10 ^ v <= n
    IN  [i \in 1 .. used |-> (n \div 10 ^ (used - i)) % 10]

(* The second half of hotp, and the copy of its result.                    *)
CopyCode ==
    /\ step = "truncate"
    /\ code' = FormatCode(Truncated % 10 ^ Digits, Width(Digits))
    /\ step' = "copied"
    /\ UNCHANGED << url, at, params, key, hmac >>

Next ==
    ReadProperty \/ DecodeSecret \/ ResolveAlgorithm \/ Hash \/ CopyCode

Spec == Init /\ [][Next]_vars

-----------------------------------------------------------------------------
(* Properties.                                                             *)

Option(S) == {Unset} \cup { Some(x) : x \in S }

(* Types.                                                                  *)
TotpTypeOK ==
    /\ step \in {"url", "algorithm", "hmac", "truncate", "copied", "refused",
                 "panicked"}
    /\ at \in 0 .. Len(url)
    /\ (secret = Unset \/ secret[2] \in Seq(0 .. 255))
    /\ (attrib_issuer = Unset \/ attrib_issuer[2] \in Seq(0 .. 255))
    /\ digits \in Option(6 .. 8) /\ (period_seconds = Unset \/ period_seconds[2] > 0)
    /\ key \in Seq(0 .. 255) /\ hmac \in Seq(0 .. 255) /\ code \in Seq(0 .. 9)

(* What the last property of a name says, or `default` if there is none.   *)
LastSays(name, default) ==
    LET said == { i \in 1 .. at : url[i].name = name /\ url[i].valid }
    IN  IF said = {} THEN default
        ELSE url[CHOOSE i \in said : \A j \in said : j <= i].meant

(* A property, alone, is decoded as what was encoded.                      *)
Decoded(p) ==
    LET text == Urldecode(p.value) IN
    /\ p.name \in {"secret", "issuer"} => p.valid = IsUtf8(text)
    /\ p.name = "issuer" /\ p.valid => p.meant = text
    /\ p.name = "secret" /\ p.valid =>
            IF Base32Valid(text) THEN p.meant = DecodeBase32(text)
                                 ELSE p.meant = <<>>
    /\ p.name \in {"algorithm", "digits", "period"} =>
            p.valid /\ p.meant = p.value

(* Each property of the URL is, and every secret that was encoded, in      *)
(* small letters or capitals, escaped or not, is accepted.                 *)
EachPropertyDecoded == \A i \in DOMAIN url : Decoded(url[i])

(* The key is the one that was enrolled, whatever its length, and whether  *)
(* or not the issuer of the URL escaped characters or wrote small letters. *)
KeyRecovered ==
    step \in {"algorithm", "hmac", "truncate", "copied"} =>
        key = LastSays("secret", <<>>)

(* The parameters are those that the part of the URL that was read ends up *)
(* with, whatever properties it repeats, in whatever order, or else the    *)
(* defaults that the documentation gives (src/README.md:87-89); the name   *)
(* of the issuer has survived its escapes, spaces, pluses and percents.    *)
SettingsApplied ==
    step # "refused" =>
        /\ Or(attrib_issuer, <<>>) = LastSays("issuer", <<>>)
        /\ Algorithm = LastSays("algorithm", "SHA1")
        /\ Digits = LastSays("digits", 6)
        /\ Period = LastSays("period", 30)

(* Both: what was enrolled comes out of any URL that is not refused.       *)
UrlApplied == KeyRecovered /\ SettingsApplied

(* No URL makes hotp panic: what it asserts of its arguments was seen to   *)
(* before, and there are four bytes at every offset of every HMAC.         *)
NoPanicInHotp ==
    /\ step # "panicked"
    /\ step = "truncate" => (Last(hmac) % 16) + 4 <= Len(hmac)

(* The code is that of RFC 4226: the 31 bits after the first at the offset *)
(* in the last four bits, as a number of as many decimal digits as asked.  *)
CodeIsHotp ==
    step = "copied" =>
        LET bits   == FlattenSeq([i \in DOMAIN hmac |-> BitsOf(hmac[i], 8)])
            offset == Number(SubSeq(bits, Len(bits) - 3, Len(bits)))
            dbc    == Number(SubSeq(bits, 8 * offset + 2, 8 * offset + 32))
        IN  /\ Len(code) = Digits
            /\ Numeral(10, code) = dbc % 10 ^ Digits
=============================================================================
