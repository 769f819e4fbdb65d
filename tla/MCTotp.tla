------------------------------- MODULE MCTotp -------------------------------
(* The instance of Totp for TLC: URLs as an issuer would encode them.      *)
EXTENDS Totp

\* what the issuer encodes: keys of up to eleven bytes, and names
Key(n)  == [i \in 1 .. n |-> ((i * 91) + 200) % 256]
Issuers == {<< 65, 32, 66 >>, << 43, 37, 52 >>, << 37, 37 >>, <<>>}

Alphanumeric == (48 .. 57) \cup (65 .. 90) \cup (97 .. 122)

Property(name, value, valid, meant) ==
    [name |-> name, value |-> value, valid |-> valid, meant |-> meant]

Secrets ==
    { Property("secret", Escaped(Encode32(Key(n), first), plain, ten), TRUE,
               Key(n)) :
        n \in 0 .. 11, first \in {65, 97}, plain \in {Alphanumeric, 48 .. 57},
        ten \in {65, 97} }
Named ==
    { Property("issuer", Escaped(text, Alphanumeric, 65), TRUE, text) :
        text \in Issuers }
    \cup {Property("issuer", Escaped(<< 65, 32, 66 >>, Alphanumeric \cup {32}, 65),
                   TRUE, << 65, 32, 66 >>),
          Property("issuer", << 195, 169 >>, TRUE, << 195, 169 >>)}

\* names of characters of two to four bytes, among them the first and the
\* last of a range, and bytes that are no UTF-8: cut short, too long, a
\* surrogate, too large, out of place
Foreign ==
    {<< 195, 169 >>, << 226, 130, 172, 65 >>, << 240, 159, 152, 128 >>,
     << 224, 160, 128 >>, << 237, 159, 191 >>, << 244, 143, 191, 191 >>}
NotUtf8 ==
    {<< 195 >>, << 226, 130 >>, << 195, 65 >>, << 192, 128 >>, << 193, 191 >>,
     << 224, 159, 191 >>, << 240, 143, 191, 191 >>, << 237, 160, 128 >>,
     << 244, 144, 128, 128 >>, << 245, 128, 128, 128 >>, << 128 >>, << 255 >>,
     << 195, 169, 169 >>}
Spoken ==
    { Property("issuer", Escaped(text, Alphanumeric, 65), TRUE, text) :
        text \in Foreign }
    \cup { Property("issuer", Escaped(text, Alphanumeric, 65), FALSE, <<>>) :
            text \in NotUtf8 }
Settings ==
    { Property("algorithm", a, TRUE, a) : a \in {"SHA1", "SHA256", "SHA512", "MD5"} }
    \cup { Property("digits", n, TRUE, n) : n \in 5 .. 9 }
    \cup { Property("digits", NotANumber, TRUE, NotANumber) }
    \cup { Property("period", n, TRUE, n) : n \in {NotANumber, 0, 1, 60} }

\* secrets that are not base 32: a digit 1, lengths that hold no bytes and
\* a letter beyond ASCII; and one that is not UTF-8
Invalid ==
    { Property("secret", text, TRUE, <<>>) :
        text \in {<< 65, 49 >>, << 65 >>, << 65, 66, 67 >>, << 61 >>,
                  << 65, 195, 169, 65 >>} }
    \cup {Property("secret", << 65, 37, 57, 53 >>, FALSE, <<>>)}

MCProperties == Secrets \cup Named \cup Spoken \cup Settings \cup Invalid

Hmac(length, first, last) ==
    [i \in 1 .. length |-> IF i = 1 THEN first
                           ELSE IF i = length THEN last ELSE (37 * i) % 256]
MCHmacOutputs ==
    [SHA1   |-> { Hmac(20, 255, last) : last \in {0, 15, 255} }
                \cup {[i \in 1 .. 20 |-> IF i < 4 THEN 0 ELSE (16 * (i - 4)) % 256]},
     SHA256 |-> { Hmac(32, 128, last) : last \in {0, 7} },
     SHA512 |-> { Hmac(64, 0, last) : last \in {0, 15} }]
=============================================================================
