----------------------------- MODULE TotpProofs -----------------------------
(***************************************************************************)
(* Proofs about Totp: no URL makes hotp panic (HotpNeverPanics); if each   *)
(* property of a URL is decoded, alone, as what was encoded, then every    *)
(* URL made of them yields the key and the settings that it ends up with   *)
(* (UrlAlwaysApplied), and so each is, for every key and name, however it  *)
(* is written (IssuedIsDecoded, IssuedIsApplied); the code is that of RFC  *)
(* 4226 for every HMAC (CodeAlwaysHotp); the types are kept (TypesKept).   *)
(*                                                                         *)
(* In this order: what hotp asserts, the parts of a URL, digits, sequences *)
(* of sequences, the truncation, the types that decoders return, base 32,  *)
(* escapes, and URLs as issuers write them.                                *)
(***************************************************************************)
EXTENDS Totp, Elementary

-----------------------------------------------------------------------------
(* What hotp asserts of its arguments.                                     *)

(* A string of bytes, and its last byte.                                   *)
LEMMA BytesOfLength ==
    ASSUME NEW n \in Nat \ {0}, NEW h \in [1 .. n -> 0 .. 255]
    PROVE  h \in Seq(0 .. 255) /\ Len(h) = n /\ h[Len(h)] \in 0 .. 255
<1>1. h \in Seq(0 .. 255) /\ Len(h) = n
  <2> DEFINE S == 0 .. 255
  <2>1. h \in [1 .. n -> S]
    OBVIOUS
  <2> HIDE DEF S
  <2>2. h \in Seq(S) /\ Len(h) = n
    BY <2>1
  <2> QED
    BY <2>2 DEF S
<1>2. n \in 1 .. n
    OBVIOUS
<1>3. h[n] \in 0 .. 255
    BY <1>2
<1> QED
    BY <1>1, <1>3, Zenon

(* No output is shorter than that of SHA-1.                                *)
LEMMA OutputLengths ==
    ASSUME NEW a \in DOMAIN HmacOutputs, NEW h \in HmacOutputs[a]
    PROVE  /\ h \in Seq(0 .. 255) /\ Len(h) \in Nat /\ Len(h) >= 20
           /\ h[Len(h)] \in 0 .. 255
<1>1. \E n \in {20, 32, 64} : h \in [1 .. n -> 0 .. 255]
  <2>1. a \in {"SHA1", "SHA256", "SHA512"}
    BY OutputsAssumption
  <2>2. a = "SHA1" => h \in [1 .. 20 -> 0 .. 255]
    BY OutputsAssumption, Zenon
  <2>3. a = "SHA256" => h \in [1 .. 32 -> 0 .. 255]
    BY OutputsAssumption, Zenon
  <2>4. a = "SHA512" => h \in [1 .. 64 -> 0 .. 255]
    BY OutputsAssumption, Zenon
  <2> QED
    BY <2>1, <2>2, <2>3, <2>4, Zenon
<1>2. PICK n \in {20, 32, 64} : h \in [1 .. n -> 0 .. 255]
    BY <1>1
<1>3. n \in Nat \ {0} /\ n >= 20
    BY <1>2
<1>4. h \in Seq(0 .. 255) /\ Len(h) = n /\ h[Len(h)] \in 0 .. 255
    BY <1>2, <1>3, BytesOfLength, Zenon
<1>5. n \in Nat
    BY <1>3
<1> QED
    BY <1>3, <1>4, <1>5, Zenon

(* The settings that hotp is given were seen to while the URL was read.    *)
ArgumentsInv ==
    /\ digits = Unset \/ \E n \in 6 .. 8 : digits = Some(n)
    /\ period_seconds = Unset \/ \E n : n > 0 /\ period_seconds = Some(n)
    /\ step # "panicked"
    /\ step = "hmac" => Algorithm \in DOMAIN HmacOutputs
    /\ step = "truncate" =>
            /\ hmac \in Seq(0 .. 255) /\ Len(hmac) \in Nat
            /\ Len(hmac) >= 20 /\ hmac[Len(hmac)] \in 0 .. 255

(* Initially nothing was read.                                             *)
LEMMA ArgumentsInitially == Init => ArgumentsInv
    BY DEF Init, ArgumentsInv

(* What the invariant says of the settings.                                *)
LEMMA ArgumentsAllowed ==
    ASSUME ArgumentsInv
    PROVE  Digits \in 6 .. 8 /\ Period # 0
<1>1. Digits \in 6 .. 8
    BY DEF ArgumentsInv, Digits, Or, Unset, Some
<1>2. Period # 0
    BY DEF ArgumentsInv, Period, Or, Unset, Some
<1> QED
    BY <1>1, <1>2

(* Every step keeps to them.                                               *)
LEMMA ArgumentsStep == ArgumentsInv /\ [Next]_vars => ArgumentsInv'
<1> SUFFICES ASSUME ArgumentsInv, [Next]_vars PROVE ArgumentsInv'
    OBVIOUS
<1>1. CASE ReadProperty
  <2> DEFINE p == url[at + 1]
  <2>1. step = "url" /\ step' \in {"url", "refused"}
    BY <1>1 DEF ReadProperty
  <2>2. digits' = digits \/ (p.value \in 6 .. 8 /\ digits' = Some(p.value))
    BY <1>1 DEF ReadProperty, DigitsAllowed, Assign
  <2>3. \/ period_seconds' = period_seconds
        \/ p.value > 0 /\ period_seconds' = Some(p.value)
    BY <1>1 DEF ReadProperty, Assign
  <2> HIDE DEF p
  <2> QED
    BY <2>1, <2>2, <2>3 DEF ArgumentsInv
<1>2. CASE DecodeSecret
    BY <1>2 DEF DecodeSecret, params, ArgumentsInv
<1>3. CASE ResolveAlgorithm
    BY <1>3 DEF ResolveAlgorithm, params, ArgumentsInv, Algorithm
<1>4. CASE Hash
  <2>1. /\ step' = "truncate" /\ hmac' \in HmacOutputs[Algorithm]
        /\ Algorithm \in DOMAIN HmacOutputs /\ UNCHANGED params
    BY <1>4, ArgumentsAllowed DEF Hash, ArgumentsInv
  <2>2. /\ hmac' \in Seq(0 .. 255) /\ Len(hmac') \in Nat
        /\ Len(hmac') >= 20 /\ hmac'[Len(hmac')] \in 0 .. 255
    BY <2>1, OutputLengths, Zenon
  <2> QED
    BY <2>1, <2>2 DEF ArgumentsInv, params
<1>5. CASE CopyCode
    BY <1>5 DEF CopyCode, params, ArgumentsInv
<1>6. CASE UNCHANGED vars
    BY <1>6 DEF vars, params, ArgumentsInv, Algorithm
<1> QED
    BY <1>1, <1>2, <1>3, <1>4, <1>5, <1>6 DEF Next

(* The offset, at most fifteen, leaves four bytes of any of the outputs.   *)
LEMMA OffsetWithin == ArgumentsInv => NoPanicInHotp
<1> SUFFICES ASSUME ArgumentsInv, step = "truncate"
             PROVE  (Last(hmac) % 16) + 4 <= Len(hmac)
    BY DEF ArgumentsInv, NoPanicInHotp
<1>1. Len(hmac) \in Nat /\ Len(hmac) >= 20 /\ Last(hmac) \in 0 .. 255
    BY DEF ArgumentsInv, Last
<1>2. \A x \in 0 .. 255 : x % 16 \in 0 .. 15
    OBVIOUS
<1>3. Last(hmac) % 16 \in 0 .. 15
    BY <1>1, <1>2
<1> QED
    BY <1>1, <1>3

(* No URL, whatever properties it has, in whatever number, makes hotp      *)
(* panic.                                                                  *)
THEOREM HotpNeverPanics == Spec => []NoPanicInHotp
<1> QED
    BY ArgumentsInitially, ArgumentsStep, OffsetWithin, PTL DEF Spec

-----------------------------------------------------------------------------
(* The parts of a URL.                                                     *)

(* The properties of a name among the first k, and the last of them.       *)
Said(u, k, name)   == { i \in 1 .. k : u[i].name = name /\ u[i].valid }
LastOf(u, k, name) == CHOOSE i \in Said(u, k, name) :
                                    \A j \in Said(u, k, name) : j <= i

(* The next property is the last of its name, and does nothing to others.  *)
LEMMA SaidNext ==
    ASSUME NEW u, NEW k \in Nat, NEW name
    PROVE  /\ u[k + 1].name = name /\ u[k + 1].valid =>
                 k + 1 \in Said(u, k + 1, name) /\ LastOf(u, k + 1, name) = k + 1
           /\ ~(u[k + 1].name = name /\ u[k + 1].valid) =>
                 Said(u, k + 1, name) = Said(u, k, name)
<1>1. ASSUME u[k + 1].name = name, u[k + 1].valid
      PROVE  k + 1 \in Said(u, k + 1, name) /\ LastOf(u, k + 1, name) = k + 1
  <2>1. k + 1 \in Said(u, k + 1, name)
    BY <1>1 DEF Said
  <2>2. \A i \in Said(u, k + 1, name) : i \in Nat /\ i <= k + 1
    BY DEF Said
  <2>3. /\ LastOf(u, k + 1, name) \in Said(u, k + 1, name)
        /\ \A j \in Said(u, k + 1, name) : j <= LastOf(u, k + 1, name)
    BY <2>1, <2>2 DEF LastOf
  <2>4. LastOf(u, k + 1, name) = k + 1
    BY <2>1, <2>2, <2>3
  <2> QED
    BY <2>1, <2>4
<1>2. ASSUME ~(u[k + 1].name = name /\ u[k + 1].valid)
      PROVE  Said(u, k + 1, name) = Said(u, k, name)
    BY <1>2 DEF Said
<1> QED
    BY <1>1, <1>2

(* What LastSays says is about the last property of the name.              *)
LEMMA LastSaysOf ==
    ASSUME NEW name, NEW default
    PROVE  LastSays(name, default) =
              IF Said(url, at, name) = {} THEN default
              ELSE url[LastOf(url, at, name)].meant
    BY DEF LastSays, Said, LastOf

(* The state in which properties are read: the part read of a URL.         *)
UrlInv == url \in Seq(Properties) /\ at \in 0 .. Len(url)

(* Initially nothing was read.                                             *)
LEMMA UrlInitially == Init => UrlInv
<1> SUFFICES ASSUME Init PROVE UrlInv
    OBVIOUS
<1>0. url \in UNION { [1 .. m -> Properties] : m \in 0 .. MaxProperties }
    BY DEF Init, BoundedSeq, SeqOf
<1>1. PICK m \in 0 .. MaxProperties : url \in [1 .. m -> Properties]
    BY <1>0
<1>2. m \in Nat
    BY <1>1, PropertiesAssumption
<1>3. url \in Seq(Properties)
    BY <1>1, <1>2
<1>4. Len(url) \in Nat /\ at = 0
    BY <1>3 DEF Init
<1> QED
    BY <1>3, <1>4 DEF UrlInv

(* Every step reads one property of it, or none.                           *)
LEMMA UrlStep ==
    ASSUME UrlInv, [Next]_vars
    PROVE  UrlInv'
<1>1. Len(url) \in Nat
    BY DEF UrlInv
<1>2. CASE ReadProperty
    BY <1>1, <1>2 DEF ReadProperty, UrlInv
<1>3. CASE ~ReadProperty
    BY <1>3 DEF Next, DecodeSecret, ResolveAlgorithm, Hash, CopyCode, vars,
                params, UrlInv
<1> QED
    BY <1>2, <1>3

(* What a step that reads one makes of what the properties say.            *)
LEMMA ReadSays ==
    ASSUME UrlInv, ReadProperty, NEW name, NEW default
    PROVE  /\ url[at + 1] \in Properties
           /\ LastSays(name, default)' =
                IF url[at + 1].name = name /\ url[at + 1].valid
                THEN url[at + 1].meant ELSE LastSays(name, default)
<1>1. /\ at \in Nat /\ at + 1 \in 1 .. Len(url) /\ url \in Seq(Properties)
      /\ at' = at + 1 /\ url' = url
    BY DEF UrlInv, ReadProperty
<1>2. url[at + 1] \in Properties
    BY <1>1
<1>3. LastSays(name, default)' =
         IF Said(url, at + 1, name) = {} THEN default
         ELSE url[LastOf(url, at + 1, name)].meant
    BY <1>1, LastSaysOf DEF LastSays, Said, LastOf
<1>4. CASE url[at + 1].name = name /\ url[at + 1].valid
    BY <1>1, <1>2, <1>3, <1>4, SaidNext
<1>5. CASE ~(url[at + 1].name = name /\ url[at + 1].valid)
  <2>1. Said(url, at + 1, name) = Said(url, at, name)
    BY <1>1, <1>5, SaidNext
  <2>2. LastOf(url, at + 1, name) = LastOf(url, at, name)
    BY <2>1 DEF LastOf
  <2> QED
    BY <1>2, <1>3, <1>5, <2>1, <2>2, LastSaysOf
<1> QED
    BY <1>4, <1>5

(* What the other steps make of it.                                        *)
LEMMA NothingSaid ==
    ASSUME UNCHANGED << url, at >>, NEW name, NEW default
    PROVE  LastSays(name, default)' = LastSays(name, default)
    BY DEF LastSays

-----------------------------------------------------------------------------
(* The settings.                                                           *)

(* Initially nothing was read, and the defaults hold.                      *)
LEMMA SettingsInitially == Init => SettingsApplied
<1> SUFFICES ASSUME Init PROVE SettingsApplied
    OBVIOUS
<1>1. ASSUME NEW name, NEW default PROVE LastSays(name, default) = default
  <2>1. Said(url, at, name) = {}
    BY DEF Init, Said
  <2> QED
    BY <2>1, LastSaysOf
<1> QED
    BY <1>1 DEF Init, SettingsApplied, Algorithm, Digits, Period, Or

(* Some value replaces the default.                                        *)
LEMMA OrSome ==
    ASSUME NEW x, NEW default
    PROVE  Or(Some(x), default) = x
    BY DEF Or, Some, Unset

(* Every step keeps each setting what the last property of its name says.  *)
LEMMA SettingsStep ==
    ASSUME \A p \in Properties : Decoded(p), UrlInv, SettingsApplied, [Next]_vars
    PROVE  SettingsApplied'
<1>1. CASE ReadProperty
  <2> SUFFICES ASSUME step' # "refused" PROVE SettingsApplied'
    BY DEF SettingsApplied
  <2> DEFINE p    == url[at + 1]
             text == Urldecode(p.value)
  <2>1. /\ p \in Properties
        /\ \A name, default :
              LastSays(name, default)' =
                 IF p.name = name /\ p.valid THEN p.meant
                 ELSE LastSays(name, default)
    BY <1>1, ReadSays
  <2>2. /\ p.name = "issuer" => p.valid = IsUtf8(text)
        /\ p.name = "issuer" /\ p.valid => p.meant = text
        /\ p.name \in {"algorithm", "digits", "period"} =>
              p.valid /\ p.meant = p.value
    BY <2>1 DEF Decoded
  <2>3. /\ step # "refused"
        /\ p.name = "digits" => DigitsAllowed(p.value)
        /\ p.name = "period" => p.value > 0
        /\ attrib_issuer' = IF p.name = "issuer" /\ IsUtf8(text)
                            THEN Some(text) ELSE attrib_issuer
        /\ algorithm' = IF p.name = "algorithm"
                        THEN Some(p.value) ELSE algorithm
        /\ digits' = IF p.name = "digits" /\ DigitsAllowed(p.value)
                     THEN Some(p.value) ELSE digits
        /\ period_seconds' = IF p.name = "period" /\ p.value > 0
                             THEN Some(p.value) ELSE period_seconds
    <3>1. /\ step = "url"
          /\ step' = IF \/ p.name = "digits" /\ ~DigitsAllowed(p.value)
                        \/ p.name = "period" /\ p.value <= 0
                     THEN "refused" ELSE step
      BY <1>1 DEF ReadProperty
    <3>2. p.name = "period" => p.value > 0
      <4>1. p.name = "period" => p.value \in Nat \cup {NotANumber}
        BY <2>1, PropertiesAssumption
      <4>2. p.name = "period" => p.value \in Int
        BY <4>1 DEF NotANumber
      <4> QED
        BY <3>1, <4>2
    <3> QED
      BY <1>1, <3>1, <3>2 DEF ReadProperty, Assign
  <2> HIDE DEF p, text
  <2>4. Or(attrib_issuer, <<>>)' = LastSays("issuer", <<>>)'
    BY <2>1, <2>2, <2>3, OrSome DEF SettingsApplied, Or
  <2>5. Algorithm' = LastSays("algorithm", "SHA1")'
    BY <2>1, <2>2, <2>3, OrSome DEF SettingsApplied, Algorithm, Or
  <2>6. Digits' = LastSays("digits", 6)'
    BY <2>1, <2>2, <2>3, OrSome DEF SettingsApplied, Digits, Or
  <2>7. Period' = LastSays("period", 30)'
    BY <2>1, <2>2, <2>3, OrSome DEF SettingsApplied, Period, Or
  <2> QED
    BY <2>4, <2>5, <2>6, <2>7 DEF SettingsApplied
<1>2. CASE ~ReadProperty
  <2>1. UNCHANGED << url, at, params >> /\ (step = "refused" => step' = "refused")
    BY <1>2 DEF Next, DecodeSecret, ResolveAlgorithm, Hash, CopyCode, vars
  <2>2. \A name, default : LastSays(name, default)' = LastSays(name, default)
    BY <2>1, NothingSaid
  <2> QED
    BY <2>1, <2>2 DEF SettingsApplied, Algorithm, Digits, Period, params
<1> QED
    BY <1>1, <1>2

-----------------------------------------------------------------------------
(* The key.                                                                *)

(* While the URL is read, the secret is that of the last property that has *)
(* one; afterwards, the key is what that one meant.                        *)
SecretInv ==
    step = "url" =>
        IF Said(url, at, "secret") = {} THEN secret = Unset
        ELSE LET i == LastOf(url, at, "secret")
             IN  /\ i \in Said(url, at, "secret")
                 /\ secret = Some(Urldecode(url[i].value))

(* Initially nothing was read.                                             *)
LEMMA SecretInitially == Init => SecretInv /\ KeyRecovered
<1> SUFFICES ASSUME Init PROVE SecretInv /\ KeyRecovered
    OBVIOUS
<1>1. Said(url, at, "secret") = {}
    BY DEF Init, Said
<1> QED
    BY <1>1 DEF Init, SecretInv, KeyRecovered

(* Reading a property keeps the secret the last one.                       *)
LEMMA ReadKeepsSecret ==
    ASSUME \A p \in Properties : Decoded(p), UrlInv, SecretInv, ReadProperty
    PROVE  SecretInv'
<1> DEFINE p    == url[at + 1]
           text == Urldecode(p.value)
<1>1. /\ at \in Nat /\ at' = at + 1 /\ url' = url /\ step = "url"
      /\ secret' = IF p.name = "secret" /\ IsUtf8(text)
                   THEN Some(text) ELSE secret
    BY DEF ReadProperty, UrlInv, Assign
<1>2. p \in Properties
    BY ReadSays
<1>3. p.name = "secret" => p.valid = IsUtf8(text)
    BY <1>2 DEF Decoded
<1>4. CASE p.name = "secret" /\ p.valid
  <2>1. /\ at + 1 \in Said(url, at + 1, "secret")
        /\ LastOf(url, at + 1, "secret") = at + 1
    BY <1>1, <1>4, SaidNext
  <2>2. secret' = Some(text)
    BY <1>1, <1>3, <1>4
  <2> QED
    BY <1>1, <2>1, <2>2 DEF SecretInv
<1>5. CASE ~(p.name = "secret" /\ p.valid)
  <2>1. Said(url, at + 1, "secret") = Said(url, at, "secret")
    BY <1>1, <1>5, SaidNext
  <2>2. LastOf(url, at + 1, "secret") = LastOf(url, at, "secret")
    BY <2>1 DEF LastOf
  <2>3. UNCHANGED secret
    BY <1>1, <1>3, <1>5
  <2> QED
    BY <1>1, <2>1, <2>2, <2>3 DEF SecretInv
<1> QED
    BY <1>4, <1>5

(* The secret that is decoded gives the key that was meant.                *)
LEMMA DecodedKey ==
    ASSUME \A p \in Properties : Decoded(p), UrlInv, SecretInv, DecodeSecret,
           step' = "algorithm"
    PROVE  key' = LastSays("secret", <<>>)
<1> DEFINE i == LastOf(url, at, "secret")
           p == url[i]
<1>1. /\ step = "url" /\ secret # Unset /\ Base32Valid(secret[2])
      /\ key' = DecodeBase32(secret[2])
    BY DEF DecodeSecret
<1>2. /\ Said(url, at, "secret") # {} /\ i \in Said(url, at, "secret")
      /\ secret = Some(Urldecode(p.value))
    BY <1>1 DEF SecretInv
<1>3. i \in 1 .. at /\ p.name = "secret" /\ p.valid
    BY <1>2 DEF Said
<1>4. p \in Properties
    BY <1>3 DEF UrlInv
<1>5. secret[2] = Urldecode(p.value)
    BY <1>2 DEF Some
<1>6. p.meant = DecodeBase32(Urldecode(p.value))
    BY <1>1, <1>3, <1>4, <1>5 DEF Decoded
<1> QED
    BY <1>1, <1>2, <1>5, <1>6, LastSaysOf

(* Every step keeps both.                                                  *)
LEMMA SecretStep ==
    ASSUME \A p \in Properties : Decoded(p), UrlInv, SecretInv, KeyRecovered, [Next]_vars
    PROVE  SecretInv' /\ KeyRecovered'
<1>1. CASE ReadProperty
  <2>1. step' \in {"url", "refused"}
    BY <1>1 DEF ReadProperty
  <2> QED
    BY <1>1, <2>1, ReadKeepsSecret DEF KeyRecovered
<1>2. CASE DecodeSecret
  <2>1. step' \in {"algorithm", "refused"} /\ UNCHANGED << url, at >>
    BY <1>2 DEF DecodeSecret
  <2>2. LastSays("secret", <<>>)' = LastSays("secret", <<>>)
    BY <2>1, NothingSaid
  <2> QED
    BY <1>2, <2>1, <2>2, DecodedKey DEF SecretInv, KeyRecovered
<1>3. CASE ResolveAlgorithm \/ Hash \/ CopyCode \/ UNCHANGED vars
  <2>1. /\ UNCHANGED << url, at, params, key >>
        /\ \/ UNCHANGED step
           \/ /\ step \in {"algorithm", "hmac", "truncate"}
              /\ step' # "url"
    BY <1>3 DEF ResolveAlgorithm, Hash, CopyCode, vars
  <2>2. LastSays("secret", <<>>)' = LastSays("secret", <<>>)
    BY <2>1, NothingSaid
  <2> QED
    BY <2>1, <2>2 DEF SecretInv, KeyRecovered, params
<1> QED
    BY <1>1, <1>2, <1>3 DEF Next

(* Every URL of any number of properties, in whatever order and however    *)
(* often repeated, if it is not refused, yields the key that the last of   *)
(* its secrets meant, and gives each setting what the last property of its *)
(* name says, or the default; if each property alone is decoded.           *)
THEOREM UrlAlwaysApplied ==
    ASSUME \A p \in Properties : Decoded(p)
    PROVE  Spec => []UrlApplied
<1> DEFINE Inv == UrlInv /\ SecretInv /\ KeyRecovered /\ SettingsApplied
<1>1. Init => Inv
    BY UrlInitially, SecretInitially, SettingsInitially
<1>2. Inv /\ [Next]_vars => Inv'
    BY UrlStep, SecretStep, SettingsStep
<1>3. Inv => UrlApplied
    BY DEF UrlApplied
<1> QED
    BY <1>1, <1>2, <1>3, PTL DEF Spec

-----------------------------------------------------------------------------
(* Numbers and their digits.                                               *)

(* The powers of 2 and of 10 that occur.                                   *)
LEMMA Powers ==
    ASSUME NEW k \in 0 .. 7
    PROVE  /\ 2 ^ k \in Nat \ {0} /\ 2 ^ (k + 1) = 2 * 2 ^ k
           /\ 10 ^ k \in Nat \ {0} /\ 10 ^ (k + 1) = 10 * 10 ^ k
<1>1. CASE k = 0
    BY <1>1, SMT
<1>2. CASE k = 1
    BY <1>2, SMT
<1>3. CASE k = 2
    BY <1>3, SMT
<1>4. CASE k = 3
    BY <1>4, SMT
<1>5. CASE k = 4
    BY <1>5, SMT
<1>6. CASE k = 5
    BY <1>6, SMT
<1>7. CASE k = 6
    BY <1>7, SMT
<1>8. CASE k = 7
    BY <1>8, SMT
<1> QED
    BY <1>1, <1>2, <1>3, <1>4, <1>5, <1>6, <1>7, <1>8

(* Weights of digits, the last of which has the weight 1.                  *)
Weights(base, m, W) ==
    /\ W \in [0 .. m -> Nat \ {0}] /\ W[0] = 1
    /\ \A k \in 0 .. m - 1 : W[k + 1] = base * W[k]

(* Those of binary and of decimal numbers.                                 *)
LEMMA WeightsOfPowers ==
    ASSUME NEW m \in 0 .. 8
    PROVE  /\ Weights(2, m, [k \in 0 .. m |-> 2 ^ k])
           /\ Weights(10, m, [k \in 0 .. m |-> 10 ^ k])
<1>1. 2 ^ 0 = 1 /\ 10 ^ 0 = 1
    BY SMT
<1>2. ASSUME NEW k \in 0 .. m
      PROVE  2 ^ k \in Nat \ {0} /\ 10 ^ k \in Nat \ {0}
  <2>1. CASE k \in 0 .. 7
    BY <2>1, Powers
  <2>2. CASE k = 8
    BY <2>2, SMT
  <2> QED
    BY <2>1, <2>2
<1>3. ASSUME NEW k \in 0 .. m - 1
      PROVE  2 ^ (k + 1) = 2 * 2 ^ k /\ 10 ^ (k + 1) = 10 * 10 ^ k
  <2>1. k \in 0 .. 7
    OBVIOUS
  <2> QED
    BY <2>1, Powers
<1>4. \A k \in 0 .. m - 1 : k \in 0 .. m /\ k + 1 \in 0 .. m
    OBVIOUS
<1>5. 0 \in 0 .. m
    OBVIOUS
<1>6. Weights(2, m, [k \in 0 .. m |-> 2 ^ k])
    BY <1>1, <1>2, <1>3, <1>4, <1>5, Zenon DEF Weights
<1>7. Weights(10, m, [k \in 0 .. m |-> 10 ^ k])
    BY <1>1, <1>2, <1>3, <1>4, <1>5, Zenon DEF Weights
<1> QED
    BY <1>6, <1>7

(* The numbers of the first digits, in which one digit follows another.    *)
Numbered(base, s, number) ==
    /\ number \in [0 .. Len(s) -> Nat] /\ number[0] = 0
    /\ \A i \in 0 .. Len(s) - 1 :
           number[i + 1] = base * number[i] + s[i + 1]

(* A numeral is read digit by digit.                                       *)
LEMMA NumeralFacts ==
    ASSUME NEW base \in Nat, NEW s \in Seq(Nat)
    PROVE  \E number : /\ Numbered(base, s, number)
                       /\ Numeral(base, s) = number[Len(s)]
<1> DEFINE n == Len(s)
           F == [i \in Nat |-> [v \in Nat |->
                     IF i < n THEN base * v + s[i + 1] ELSE 0]]
           Def(num) == num = [i \in 0 .. n |-> IF i = 0 THEN 0
                                  ELSE base * num[i - 1] + s[i]]
<1>1. n \in Nat /\ \A i \in 1 .. n : s[i] \in Nat
    OBVIOUS
<1>2. F \in StepsOn(Nat)
  <2>1. ASSUME NEW i \in Nat, NEW v \in Nat, i < n
        PROVE  base * v + s[i + 1] \in Nat
    <3>1. i + 1 \in 1 .. n
      BY <1>1, <2>1
    <3>2. base * v \in Nat
      OBVIOUS
    <3> QED
      BY <1>1, <3>1, <3>2
  <2> HIDE DEF n
  <2> QED
    BY <2>1 DEF StepsOn
<1> HIDE DEF n, F
<1>3. PICK f : Follows(f, Nat, 0, F)
    BY <1>2, Recursion
<1>4. /\ f \in [Nat -> Nat] /\ f[0] = 0
      /\ \A i \in Nat : i < n => f[i + 1] = base * f[i] + s[i + 1]
    BY <1>3 DEF F, Follows
<1> DEFINE g == [i \in 0 .. n |-> f[i]]
<1>5. Def(g)
  <2>1. ASSUME NEW i \in 0 .. n
        PROVE  g[i] = IF i = 0 THEN 0 ELSE base * g[i - 1] + s[i]
    <3>1. CASE i = 0
      BY <1>1, <1>4, <3>1
    <3>2. CASE i # 0
      <4>1. i - 1 \in Nat /\ (i - 1) + 1 = i /\ i - 1 < n /\ i - 1 \in 0 .. n
        BY <1>1, <3>2
      <4> QED
        BY <1>4, <3>2, <4>1
    <3> QED
      BY <3>1, <3>2
  <2> QED
    BY <2>1
<1> HIDE DEF g
<1> DEFINE number == CHOOSE num : Def(num)
<1>6. Def(number)
    BY <1>5
<1>7. Numeral(base, s) = number[n]
    BY DEF Numeral, n
<1> HIDE DEF number
<1>8. number = [i \in 0 .. n |-> IF i = 0 THEN 0
                                 ELSE base * number[i - 1] + s[i]]
    BY <1>6
<1>9. /\ number[0] = 0
      /\ \A i \in 0 .. n - 1 : number[i + 1] = base * number[i] + s[i + 1]
  <2>1. number[0] = 0
    BY <1>1, <1>8
  <2>2. ASSUME NEW i \in 0 .. n - 1
        PROVE  number[i + 1] = base * number[i] + s[i + 1]
    <3>1. i + 1 \in 0 .. n /\ i + 1 # 0 /\ (i + 1) - 1 = i
      BY <1>1
    <3> QED
      BY <1>8, <3>1
  <2> QED
    BY <2>1, <2>2
<1>10. \A i \in 0 .. n : number[i] = f[i]
  <2> DEFINE T == { i \in Nat : i <= n => number[i] = f[i] }
  <2>1. 0 \in T
    BY <1>4, <1>9
  <2>2. ASSUME NEW i \in T PROVE i + 1 \in T
    <3>1. i \in Nat /\ (i < n => i \in 0 .. n - 1)
      BY <1>1
    <3>2. CASE i < n
      <4>1. number[i] = f[i]
        BY <1>1, <3>2
      <4>2. number[i + 1] = base * number[i] + s[i + 1]
        BY <1>9, <3>1, <3>2
      <4>3. f[i + 1] = base * f[i] + s[i + 1]
        BY <1>4, <3>1, <3>2
      <4> QED
        BY <3>1, <4>1, <4>2, <4>3
    <3>3. CASE ~ (i < n)
      BY <1>1, <3>3
    <3> QED
      BY <3>2, <3>3
  <2>3. T = Nat
    <3> HIDE DEF T
    <3>1. T \subseteq Nat
      BY DEF T
    <3> QED
      BY <2>1, <2>2, <3>1, Induct
  <2> QED
    BY <1>1, <2>3
<1>11. number \in [0 .. n -> Nat]
  <2>1. \A i \in 0 .. n : number[i] \in Nat
    BY <1>1, <1>4, <1>10
  <2>2. DOMAIN number = 0 .. n /\ number = [i \in DOMAIN number |-> number[i]]
    BY <1>8
  <2> QED
    BY <2>1, <2>2
<1>12. Numbered(base, s, number)
    BY <1>9, <1>11 DEF Numbered, n
<1> QED
    BY <1>7, <1>12 DEF n

(* Nothing of c is left where the weight is more.                          *)
LEMMA TooLight ==
    ASSUME NEW w \in Nat \ {0}, NEW c \in 0 .. w - 1
    PROVE  c \div w = 0
    OBVIOUS

(* The next digit of c, where v is its weight, and u that of the digits    *)
(* that were read.                                                         *)
Follow(base, u, x, q, t) ==
    base * (u * x + q) + (t % base) = (base * u) * x + t

Parts(base, c, v, q, t) == q = c \div (base * v) /\ t = c \div v

(* What is left of c gives its next digit.                                 *)
LEMMA DigitNext ==
    ASSUME NEW base \in Nat \ {0}, NEW c \in Nat, NEW v \in Nat \ {0},
           NEW u \in Nat, NEW x \in Nat, NEW t, NEW q,
           Parts(base, c, v, q, t)
    PROVE  Follow(base, u, x, q, t)
<1>0. q = c \div (base * v) /\ t = c \div v
    BY DEF Parts
<1>1. t \in Int /\ c \in Int
  <2>1. c \in Int
    OBVIOUS
  <2> QED
    BY <1>0, <2>1, DivMod
<1>2. q = t \div base
  <2>1. base * v = v * base
    OBVIOUS
  <2>2. c \div (v * base) = (c \div v) \div base
    BY <1>1, DivDiv, Zenon
  <2> QED
    BY <1>0, <2>1, <2>2, Zenon
<1>3. PICK r : r = t % base
    OBVIOUS
<1>4. q \in Int /\ r \in Int /\ t = base * q + r
  <2>1. /\ t \div base \in Int /\ t % base \in 0 .. base - 1
        /\ t = base * (t \div base) + (t % base)
    BY <1>1, DivMod, Zenon
  <2>2. r \in 0 .. base - 1
    BY <1>3, <2>1, Zenon
  <2>3. r \in Int
    BY <2>2
  <2> QED
    BY <1>2, <1>3, <2>1, <2>3, Zenon
<1>5. base * (u * x + q) = (base * u) * x + base * q
  <2>1. base * (u * x) = (base * u) * x
    OBVIOUS
  <2>2. PICK y \in Int : y = u * x
    OBVIOUS
  <2>3. base * (y + q) = base * y + base * q
    BY <1>4
  <2> QED
    BY <2>1, <2>2, <2>3, Zenon
<1>6. (base * u) * x \in Int /\ base * q \in Int
    BY <1>4
<1>7. base * (u * x + q) + r = (base * u) * x + t
    BY <1>1, <1>4, <1>5, <1>6
<1> QED
    BY <1>3, <1>7, Zenon DEF Follow

(* The m digits of c in s, after p others, and what reading them does.     *)
Spelled(base, W, s, p, m, c) ==
    \A i \in 1 .. m : s[p + i] = (c \div W[m - i]) % base

Continued(W, number, p, m, c) == number[p + m] = W[m] * number[p] + c

(* A number comes back from its digits, behind those that were read before.*)
LEMMA DigitsRead ==
    ASSUME NEW base \in Nat \ {0}, NEW s \in Seq(Nat), NEW number,
           Numbered(base, s, number), NEW p \in Nat, NEW m \in Nat,
           p + m <= Len(s), NEW W, Weights(base, m, W), NEW c \in 0 .. W[m] - 1,
           Spelled(base, W, s, p, m, c)
    PROVE  Continued(W, number, p, m, c)
<1> DEFINE T == { j \in Nat : j <= m =>
                    number[p + j] = W[j] * number[p] + c \div W[m - j] }
<1>1. Len(s) \in Nat
    OBVIOUS
<1>2. /\ \A k \in 0 .. m : W[k] \in Nat \ {0}
      /\ W[0] = 1 /\ \A k \in 0 .. m - 1 : W[k + 1] = base * W[k]
    BY DEF Weights
<1>3. W[m] \in Nat \ {0} /\ c \in Nat /\ c < W[m]
    BY <1>2
<1>4. \A i \in 0 .. Len(s) : number[i] \in Nat
    BY DEF Numbered
<1>5. 0 \in T
  <2>1. c \div W[m] = 0
    BY <1>3, TooLight, Zenon
  <2>2. p + 0 = p /\ m - 0 = m /\ number[p] \in Nat
    BY <1>1, <1>4
  <2>3. W[0] * number[p] = number[p]
    BY <1>2, <2>2
  <2>4. number[p + 0] = W[0] * number[p] + c \div W[m - 0]
    BY <2>1, <2>2, <2>3
  <2> QED
    BY <2>4
<1>6. ASSUME NEW j \in T PROVE j + 1 \in T
  <2> SUFFICES ASSUME j + 1 <= m
      PROVE  number[p + (j + 1)]
                = W[j + 1] * number[p] + c \div W[m - (j + 1)]
    OBVIOUS
  <2> DEFINE k == m - (j + 1)
  <2>1. /\ j \in 0 .. m - 1 /\ k \in 0 .. m - 1 /\ m - j = k + 1
        /\ p + j \in 0 .. Len(s) - 1 /\ p + (j + 1) = (p + j) + 1
        /\ j + 1 \in 1 .. m /\ p \in 0 .. Len(s)
    BY <1>1
  <2>2. number[p + j] = W[j] * number[p] + c \div W[k + 1]
    BY <2>1
  <2>3. number[(p + j) + 1] = base * number[p + j] + s[(p + j) + 1]
    BY <2>1 DEF Numbered
  <2>4. s[p + (j + 1)] = (c \div W[k]) % base
    BY <2>1 DEF Spelled
  <2> HIDE DEF k
  <2>5. \A l \in 0 .. m - 1 : l \in 0 .. m
    OBVIOUS
  <2>6. W[k] \in Nat \ {0} /\ W[j] \in Nat /\ number[p] \in Nat
    <3>1. j \in 0 .. m /\ k \in 0 .. m
      BY <2>1, <2>5
    <3> QED
      BY <1>2, <1>4, <2>1, <3>1
  <2>7. W[k + 1] = base * W[k] /\ W[j + 1] = base * W[j]
    BY <1>2, <2>1
  <2>8. PICK t, q : t = c \div W[k] /\ q = c \div W[k + 1]
    OBVIOUS
  <2>9. base * (W[j] * number[p] + q) + (t % base)
           = (base * W[j]) * number[p] + t
    <3>1. q = c \div (base * W[k])
      BY <2>7, <2>8, Zenon
    <3>2. c \in Nat
      BY <1>3
    <3>3. PICK u \in Nat, v \in Nat \ {0}, x \in Nat :
              u = W[j] /\ v = W[k] /\ x = number[p]
      BY <2>6
    <3>4. t = c \div v /\ q = c \div (base * v)
      BY <2>8, <3>1, <3>3, Zenon
    <3>5. Parts(base, c, v, q, t)
      BY <3>4, Zenon DEF Parts
    <3>6. Follow(base, u, x, q, t)
      BY <3>2, <3>5, DigitNext, Zenon
    <3> QED
      BY <3>3, <3>6, Zenon DEF Follow
  <2>10. number[p + j] = W[j] * number[p] + q
    BY <2>2, <2>8, Zenon
  <2>11. s[(p + j) + 1] = t % base
    BY <2>1, <2>4, <2>8, Zenon
  <2>12. number[p + (j + 1)] = base * number[p + j] + (t % base)
    BY <2>1, <2>3, <2>11, Zenon
  <2>13. number[p + (j + 1)] = W[j + 1] * number[p] + t
    BY <2>7, <2>9, <2>10, <2>12, Zenon
  <2> QED
    BY <2>8, <2>13, Zenon DEF k
<1>7. T = Nat
  <2>1. T \subseteq Nat
    OBVIOUS
  <2> HIDE DEF T
  <2> QED
    BY <1>5, <1>6, <2>1, Induct
<1>8. m \in T
    BY <1>7
<1>9. number[p + m] = W[m] * number[p] + c \div W[m - m]
    BY <1>8
<1>10. m - m = 0 /\ c \div 1 = c
    BY <1>3
<1> QED
    BY <1>2, <1>9, <1>10 DEF Continued

(* Binary digits.                                                          *)
LEMMA BitsFacts ==
    ASSUME NEW b \in Int, NEW w \in 1 .. 8
    PROVE  /\ BitsOf(b, w) \in Seq({0, 1}) /\ Len(BitsOf(b, w)) = w
           /\ \A i \in 1 .. w : BitsOf(b, w)[i] = (b \div 2 ^ (w - i)) % 2
<1> DEFINE d == [i \in 1 .. w |-> (b \div 2 ^ (w - i)) % 2]
<1>1. ASSUME NEW i \in 1 .. w PROVE d[i] \in {0, 1}
  <2>1. w - i \in 0 .. 7
    OBVIOUS
  <2>2. 2 ^ (w - i) \in Nat \ {0}
    BY <2>1, Powers
  <2>3. b \div 2 ^ (w - i) \in Int
    BY <2>2, DivMod
  <2>4. \A x \in Int : x % 2 \in {0, 1}
    OBVIOUS
  <2>5. (b \div 2 ^ (w - i)) % 2 \in {0, 1}
    BY <2>3, <2>4
  <2> QED
    BY <2>5, Zenon
<1>2. d \in [1 .. w -> {0, 1}] /\ w \in Nat
    BY <1>1
<1>3. d \in Seq({0, 1}) /\ Len(d) = w
  <2> HIDE DEF d
  <2> QED
    BY <1>2
<1>4. \A i \in 1 .. w : d[i] = (b \div 2 ^ (w - i)) % 2
    BY Zenon
<1>5. BitsOf(b, w) = d
    BY Zenon DEF BitsOf
<1> HIDE DEF d
<1> QED
    BY <1>3, <1>4, <1>5, Zenon

(* Some of them are those of c, and what reading them does.                *)
Shows(s, p, m, c) == \A i \in 1 .. m : s[p + i] = (c \div 2 ^ (m - i)) % 2

Reads(number, p, m, c) == number[p + m] = 2 ^ m * number[p] + c

(* These are read as c.                                                    *)
LEMMA BitsRead ==
    ASSUME NEW s \in Seq(Nat), NEW number, Numbered(2, s, number),
           NEW p \in Nat, NEW m \in 0 .. 8, p + m <= Len(s),
           NEW c \in 0 .. 2 ^ m - 1, Shows(s, p, m, c)
    PROVE  Reads(number, p, m, c)
<1> DEFINE W == [k \in 0 .. m |-> 2 ^ k]
<1>1. Weights(2, m, W)
    BY WeightsOfPowers
<1>2. \A k \in 0 .. m : W[k] = 2 ^ k
    BY Zenon
<1> HIDE DEF W
<1>3. m \in 0 .. m /\ m \in Nat /\ 2 \in Nat \ {0}
    OBVIOUS
<1>4. W[m] = 2 ^ m
    BY <1>2, <1>3, Zenon
<1>5. c \in 0 .. W[m] - 1
    BY <1>4, Zenon
<1>6. ASSUME NEW i \in 1 .. m PROVE s[p + i] = (c \div W[m - i]) % 2
  <2>1. m - i \in 0 .. m
    OBVIOUS
  <2>2. W[m - i] = 2 ^ (m - i)
    BY <1>2, <2>1, Zenon
  <2>3. s[p + i] = (c \div 2 ^ (m - i)) % 2
    BY DEF Shows
  <2> QED
    BY <2>2, <2>3, Zenon
<1>7. Spelled(2, W, s, p, m, c)
    BY <1>6, Zenon DEF Spelled
<1>8. Continued(W, number, p, m, c)
    BY <1>1, <1>3, <1>5, <1>7, DigitsRead, Zenon
<1> QED
    BY <1>4, <1>8, Zenon DEF Continued, Reads

(* The code is the number that it shows, in as many digits as asked.       *)
LEMMA FormatRead ==
    ASSUME NEW w \in 6 .. 8, NEW n \in 0 .. 10 ^ w - 1
    PROVE  /\ FormatCode(n, w) \in Seq(0 .. 9) /\ Len(FormatCode(n, w)) = w
           /\ Numeral(10, FormatCode(n, w)) = n
<1> DEFINE Fits(u) == /\ u >= w /\ 10 ^ (IF u > 9 THEN 9 ELSE u) > n
                      /\ \A v \in w .. u - 1 : 10 ^ v <= n
           used == CHOOSE u \in 1 .. 10 : Fits(u)
           d == [i \in 1 .. w |-> (n \div 10 ^ (w - i)) % 10]
           W == [k \in 0 .. w |-> 10 ^ k]
<1>0. w \in Nat /\ w \in 0 .. 8
    OBVIOUS
<1>1. Weights(10, w, W)
    BY <1>0, WeightsOfPowers
<1>2. \A k \in 0 .. w : W[k] = 10 ^ k
    BY Zenon
<1> HIDE DEF W
<1>3. \A k \in 0 .. w : 10 ^ k \in Nat \ {0}
  <2>1. \A k \in 0 .. w : W[k] \in Nat \ {0}
    BY <1>1 DEF Weights
  <2> QED
    BY <1>2, <2>1, Zenon
<1>4. 10 ^ w \in Nat \ {0} /\ n \in Nat /\ n < 10 ^ w
  <2>1. w \in 0 .. w
    OBVIOUS
  <2>2. 10 ^ w \in Nat \ {0}
    BY <1>3, <2>1, Zenon
  <2> QED
    BY <2>2
<1>5. used = w
  <2>1. Fits(w) /\ w \in 1 .. 10
    <3>1. ~ (w > 9) /\ w - 1 < w /\ w \in 1 .. 10
      OBVIOUS
    <3>2. (IF w > 9 THEN 9 ELSE w) = w
      BY <3>1
    <3>3. 10 ^ (IF w > 9 THEN 9 ELSE w) > n
      BY <1>4, <3>2
    <3> QED
      BY <3>1, <3>3
  <2>2. ASSUME NEW u \in 1 .. 10, Fits(u) PROVE u = w
    <3>1. CASE u > w
      <4>1. w \in w .. u - 1
        BY <3>1
      <4>2. 10 ^ w <= n
        BY <2>2, <4>1
      <4> QED
        BY <1>4, <4>2
    <3> QED
      BY <2>2, <3>1
  <2> HIDE DEF Fits
  <2> QED
    BY <2>1, <2>2
<1>6. FormatCode(n, w) = d
  <2>1. FormatCode(n, w) = [i \in 1 .. used |-> (n \div 10 ^ (used - i)) % 10]
    BY Zenon DEF FormatCode
  <2> HIDE DEF used
  <2> QED
    BY <1>5, <2>1, Zenon
<1>7. ASSUME NEW i \in 1 .. w PROVE d[i] \in 0 .. 9
  <2>1. w - i \in 0 .. w
    OBVIOUS
  <2>2. 10 ^ (w - i) \in Nat \ {0}
    BY <1>3, <2>1, Zenon
  <2>3. n \div 10 ^ (w - i) \in Int
    BY <1>4, <2>2, DivMod
  <2>4. \A x \in Int : x % 10 \in 0 .. 9
    OBVIOUS
  <2>5. (n \div 10 ^ (w - i)) % 10 \in 0 .. 9
    BY <2>3, <2>4
  <2> QED
    BY <2>5, Zenon
<1>8. \A i \in 1 .. w : d[i] = (n \div 10 ^ (w - i)) % 10
    BY Zenon
<1>9. d \in [1 .. w -> 0 .. 9]
    BY <1>7
<1> HIDE DEF d, used
<1>10. d \in Seq(0 .. 9) /\ Len(d) = w /\ d \in Seq(Nat)
    BY <1>0, <1>9
<1>11. PICK number : Numbered(10, d, number) /\ Numeral(10, d) = number[Len(d)]
  <2>1. 10 \in Nat
    OBVIOUS
  <2> QED
    BY <1>10, <2>1, NumeralFacts
<1>12. ASSUME NEW i \in 1 .. w PROVE d[0 + i] = (n \div W[w - i]) % 10
  <2>1. w - i \in 0 .. w /\ 0 + i = i
    OBVIOUS
  <2>2. W[w - i] = 10 ^ (w - i)
    BY <1>2, <2>1, Zenon
  <2> QED
    BY <1>8, <2>1, <2>2, Zenon
<1>13. number[0 + w] = W[w] * number[0] + n
  <2>1. 10 \in Nat \ {0} /\ 0 \in Nat /\ 0 + w <= Len(d) /\ w \in 0 .. w
    BY <1>10
  <2>2. W[w] = 10 ^ w
    BY <1>2, <2>1, Zenon
  <2>3. n \in 0 .. W[w] - 1
    BY <2>2, Zenon
  <2>4. Spelled(10, W, d, 0, w, n)
    BY <1>12, Zenon DEF Spelled
  <2>5. Continued(W, number, 0, w, n)
    BY <1>0, <1>1, <1>10, <1>11, <2>1, <2>3, <2>4, DigitsRead, Zenon
  <2> QED
    BY <2>5, Zenon DEF Continued
<1>14. number[0] = 0 /\ 0 + w = w /\ W[w] * 0 = 0 /\ 0 + n = n
  <2>1. number[0] = 0
    BY <1>11 DEF Numbered
  <2>2. W[w] \in Nat
    BY <1>1 DEF Weights
  <2> QED
    BY <1>4, <2>1, <2>2
<1>15. number[w] = n
    BY <1>13, <1>14, Zenon
<1> QED
    BY <1>6, <1>10, <1>11, <1>15, Zenon

(* The low bits of a byte are those of its remainder.                      *)
LEMMA LowBits ==
    ASSUME NEW b \in 0 .. 255
    PROVE  /\ \A i \in 1 .. 4 :
                 (b \div 2 ^ (4 - i)) % 2 = ((b % 16) \div 2 ^ (4 - i)) % 2
           /\ \A i \in 1 .. 7 :
                 (b \div 2 ^ (7 - i)) % 2 = ((b % 128) \div 2 ^ (7 - i)) % 2
<1>1. ASSUME NEW i \in 1 .. 4
      PROVE  (b \div 2 ^ (4 - i)) % 2 = ((b % 16) \div 2 ^ (4 - i)) % 2
  <2>1. CASE i = 1
    BY <2>1, SMT
  <2>2. CASE i = 2
    BY <2>2, SMT
  <2>3. CASE i = 3
    BY <2>3, SMT
  <2>4. CASE i = 4
    BY <2>4, SMT
  <2> QED
    BY <2>1, <2>2, <2>3, <2>4
<1>2. ASSUME NEW i \in 1 .. 7
      PROVE  (b \div 2 ^ (7 - i)) % 2 = ((b % 128) \div 2 ^ (7 - i)) % 2
  <2>1. CASE i = 1
    BY <2>1, SMT
  <2>2. CASE i = 2
    BY <2>2, SMT
  <2>3. CASE i = 3
    BY <2>3, SMT
  <2>4. CASE i = 4
    BY <2>4, SMT
  <2>5. CASE i = 5
    BY <2>5, SMT
  <2>6. CASE i = 6
    BY <2>6, SMT
  <2>7. CASE i = 7
    BY <2>7, SMT
  <2> QED
    BY <2>1, <2>2, <2>3, <2>4, <2>5, <2>6, <2>7
<1> QED
    BY <1>1, <1>2

-----------------------------------------------------------------------------
(* Sequences of sequences.                                                 *)

(* The first sequences, one after another.                                 *)
Joins(S, seqs, f) ==
    /\ f \in [1 .. Len(seqs) -> Seq(S)] /\ f[1] = seqs[1]
    /\ \A i \in 1 .. Len(seqs) - 1 : f[i + 1] = f[i] \o seqs[i + 1]

(* FlattenSeq joins them one by one.                                       *)
LEMMA FlattenFacts ==
    ASSUME NEW S, NEW seqs \in Seq(Seq(S)), seqs # <<>>
    PROVE  \E f : Joins(S, seqs, f) /\ FlattenSeq(seqs) = f[Len(seqs)]
<1> DEFINE n == Len(seqs)
           Q == Seq(S)
           F == [i \in Nat |-> [v \in Q |->
                     IF i < n THEN v \o seqs[i + 1] ELSE <<>>]]
           Def(g) == g = [i \in 1 .. n |-> IF i = 1 THEN seqs[i]
                                           ELSE g[i - 1] \o seqs[i]]
<1>1. n \in Nat \ {0} /\ \A i \in 1 .. n : seqs[i] \in Q
  <2> HIDE DEF Q
  <2>1. seqs \in Seq(Q)
    BY DEF Q
  <2> QED
    BY <2>1
<1>2. <<>> \in Q /\ \A v, u \in Q : v \o u \in Q /\ <<>> \o u = u
    OBVIOUS
<1> HIDE DEF n, Q
<1>3. F \in StepsOn(Q)
  <2>1. ASSUME NEW i \in Nat, NEW v \in Q, i < n PROVE v \o seqs[i + 1] \in Q
    <3>1. i + 1 \in 1 .. n
      BY <1>1, <2>1
    <3> QED
      BY <1>1, <1>2, <3>1
  <2> QED
    BY <1>2, <2>1 DEF StepsOn
<1> HIDE DEF F
<1>4. PICK h : Follows(h, Q, <<>>, F)
    BY <1>2, <1>3, Recursion
<1>5. /\ h \in [Nat -> Q] /\ h[0] = <<>>
      /\ \A i \in Nat : i < n => h[i + 1] = h[i] \o seqs[i + 1]
    BY <1>4 DEF F, Follows
<1> DEFINE g == [i \in 1 .. n |-> h[i]]
<1>6. h[1] = seqs[1]
  <2>1. 0 \in Nat /\ 0 < n /\ 0 + 1 = 1 /\ 1 \in 1 .. n
    BY <1>1
  <2>2. h[1] = <<>> \o seqs[1]
    BY <1>5, <2>1
  <2> QED
    BY <1>1, <1>2, <2>1, <2>2
<1>7. Def(g)
  <2>1. ASSUME NEW i \in 1 .. n
        PROVE  g[i] = IF i = 1 THEN seqs[i] ELSE g[i - 1] \o seqs[i]
    <3>1. CASE i = 1
      BY <1>6, <3>1
    <3>2. CASE i # 1
      <4>1. i - 1 \in Nat /\ (i - 1) + 1 = i /\ i - 1 < n /\ i - 1 \in 1 .. n
        BY <1>1, <3>2
      <4>2. h[i] = h[i - 1] \o seqs[i]
        BY <1>5, <4>1
      <4> QED
        BY <3>2, <4>1, <4>2
    <3> QED
      BY <3>1, <3>2
  <2> QED
    BY <2>1
<1> HIDE DEF g
<1> DEFINE f == CHOOSE r : Def(r)
<1>8. Def(f)
    BY <1>7
<1>9. FlattenSeq(seqs) = f[n]
  <2>1. Len(seqs) # 0
    BY <1>1 DEF n
  <2> QED
    BY <2>1, Zenon DEF FlattenSeq, n
<1> HIDE DEF f
<1>10. f = [i \in 1 .. n |-> IF i = 1 THEN seqs[i] ELSE f[i - 1] \o seqs[i]]
    BY <1>8
<1>11. /\ f[1] = seqs[1]
       /\ \A i \in 1 .. n - 1 : f[i + 1] = f[i] \o seqs[i + 1]
  <2>1. f[1] = seqs[1]
    BY <1>1, <1>10
  <2>2. ASSUME NEW i \in 1 .. n - 1 PROVE f[i + 1] = f[i] \o seqs[i + 1]
    <3>1. i + 1 \in 1 .. n /\ i + 1 # 1 /\ (i + 1) - 1 = i
      BY <1>1
    <3> QED
      BY <1>10, <3>1
  <2> QED
    BY <2>1, <2>2
<1>12. \A i \in 1 .. n : f[i] = h[i]
  <2> DEFINE T == { i \in Nat : i + 1 <= n => f[i + 1] = h[i + 1] }
  <2>1. 0 \in T
    BY <1>6, <1>11
  <2>2. ASSUME NEW i \in T PROVE i + 1 \in T
    <3> SUFFICES ASSUME (i + 1) + 1 <= n PROVE f[(i + 1) + 1] = h[(i + 1) + 1]
      OBVIOUS
    <3>1. i + 1 \in 1 .. n - 1 /\ i + 1 \in Nat /\ i + 1 < n
      BY <1>1
    <3>2. f[i + 1] = h[i + 1]
      <4>1. i + 1 <= n => f[i + 1] = h[i + 1]
        OBVIOUS
      <4>2. i + 1 <= n
        BY <1>1, <3>1
      <4> QED
        BY <4>1, <4>2
    <3>3. f[(i + 1) + 1] = f[i + 1] \o seqs[(i + 1) + 1]
      BY <1>11, <3>1
    <3>4. h[(i + 1) + 1] = h[i + 1] \o seqs[(i + 1) + 1]
      BY <1>5, <3>1
    <3> QED
      BY <3>2, <3>3, <3>4
  <2>3. T = Nat
    <3>1. T \subseteq Nat
      OBVIOUS
    <3> HIDE DEF T
    <3> QED
      BY <2>1, <2>2, <3>1, Induct
  <2>4. ASSUME NEW i \in 1 .. n PROVE f[i] = h[i]
    <3>1. i - 1 \in Nat /\ (i - 1) + 1 = i /\ i <= n
      BY <1>1
    <3>2. i - 1 \in T
      BY <2>3, <3>1
    <3> QED
      BY <3>1, <3>2
  <2> QED
    BY <2>4
<1>13. f \in [1 .. n -> Q]
  <2>1. \A i \in 1 .. n : f[i] \in Q
    BY <1>1, <1>5, <1>12
  <2>2. DOMAIN f = 1 .. n /\ f = [i \in DOMAIN f |-> f[i]]
    BY <1>10
  <2> QED
    BY <2>1, <2>2
<1>14. Joins(S, seqs, f)
    BY <1>11, <1>13 DEF Joins, n, Q
<1> QED
    BY <1>9, <1>14 DEF n

(* It keeps their elements.                                                *)
LEMMA FlattenType ==
    ASSUME NEW S, NEW seqs \in Seq(Seq(S))
    PROVE  FlattenSeq(seqs) \in Seq(S)
<1>1. CASE seqs = <<>>
  <2>1. Len(seqs) = 0 /\ seqs \in Seq(S)
    BY <1>1
  <2> QED
    BY <2>1, Zenon DEF FlattenSeq
<1>2. CASE seqs # <<>>
  <2>1. PICK f : Joins(S, seqs, f) /\ FlattenSeq(seqs) = f[Len(seqs)]
    BY <1>2, FlattenFacts
  <2>2. Len(seqs) \in 1 .. Len(seqs)
    BY <1>2
  <2> QED
    BY <2>1, <2>2 DEF Joins
<1> QED
    BY <1>1, <1>2

(* Where each of the sequences starts in flat.                             *)
Laid(seqs, flat, start) ==
    /\ start \in [1 .. Len(seqs) + 1 -> Nat] /\ start[1] = 0
    /\ \A k \in 1 .. Len(seqs) : start[k + 1] = start[k] + Len(seqs[k])
    /\ Len(flat) = start[Len(seqs) + 1]
    /\ \A k \in 1 .. Len(seqs) : \A l \in 1 .. Len(seqs[k]) :
           flat[start[k] + l] = seqs[k][l]

(* Every sequence is there, after those before it.                         *)
LEMMA FlattenLaid ==
    ASSUME NEW S, NEW seqs \in Seq(Seq(S))
    PROVE  \E start : Laid(seqs, FlattenSeq(seqs), start)
<1>1. CASE seqs = <<>>
  <2> DEFINE start == [k \in 1 .. 1 |-> 0]
  <2>1. Len(seqs) = 0 /\ seqs \in Seq(S)
    BY <1>1
  <2>2. FlattenSeq(seqs) = seqs
    BY <1>1, <2>1, Zenon DEF FlattenSeq
  <2>3. Laid(seqs, seqs, start)
    BY <2>1 DEF Laid
  <2> QED
    BY <2>2, <2>3
<1>2. CASE seqs # <<>>
  <2> DEFINE n == Len(seqs)
             Q == Seq(S)
  <2>1. n \in Nat \ {0} /\ \A i \in 1 .. n : seqs[i] \in Q
    <3>1. n \in Nat \ {0}
      BY <1>2
    <3> HIDE DEF Q, n
    <3>2. \A i \in 1 .. n : seqs[i] \in Q
      BY Element, Zenon DEF Q, n
    <3> QED
      BY <3>1, <3>2
  <2>2. PICK f : Joins(S, seqs, f) /\ FlattenSeq(seqs) = f[n]
    BY <1>2, FlattenFacts
  <2>3. /\ \A i \in 1 .. n : f[i] \in Q
        /\ f[1] = seqs[1] /\ \A i \in 1 .. n - 1 : f[i + 1] = f[i] \o seqs[i + 1]
    BY <2>2 DEF Joins
  <2>4. ASSUME NEW i \in 1 .. n PROVE Len(f[i]) \in Nat /\ Len(seqs[i]) \in Nat
    <3>1. \A s \in Q : Len(s) \in Nat
      OBVIOUS
    <3> QED
      BY <2>1, <2>3, <3>1, Zenon
  <2>5. ASSUME NEW i \in 1 .. n - 1
        PROVE  /\ Len(f[i + 1]) = Len(f[i]) + Len(seqs[i + 1])
               /\ \A j \in 1 .. Len(f[i]) : f[i + 1][j] = f[i][j]
               /\ \A j \in 1 .. Len(seqs[i + 1]) :
                      f[i + 1][Len(f[i]) + j] = seqs[i + 1][j]
    <3>1. PICK a, b : a = f[i] /\ b = seqs[i + 1]
      OBVIOUS
    <3>2. i \in 1 .. n /\ i + 1 \in 1 .. n
      BY <2>1
    <3>3. a \in Seq(S) /\ b \in Seq(S)
      BY <2>1, <2>3, <3>1, <3>2, Zenon
    <3>4. /\ Len(a \o b) = Len(a) + Len(b)
          /\ \A j \in 1 .. Len(a) : (a \o b)[j] = a[j]
          /\ \A j \in 1 .. Len(b) : (a \o b)[Len(a) + j] = b[j]
      BY <3>3, Concatenation
    <3> QED
      BY <2>3, <3>1, <3>4, Zenon
  <2> HIDE DEF n, Q
  <2> DEFINE start == [k \in 1 .. n + 1 |-> IF k = 1 THEN 0 ELSE Len(f[k - 1])]
             Here(i) == \A k \in 1 .. i : \A l \in 1 .. Len(seqs[k]) :
                           /\ start[k] + l \in 1 .. Len(f[i])
                           /\ f[i][start[k] + l] = seqs[k][l]
             T == { i \in Nat : i + 1 <= n => Here(i + 1) }
  <2>6. /\ start \in [1 .. n + 1 -> Nat] /\ start[1] = 0
        /\ \A k \in 1 .. n : start[k + 1] = Len(f[k])
    <3>1. ASSUME NEW k \in 1 .. n + 1, k # 1 PROVE Len(f[k - 1]) \in Nat
      <4>1. k - 1 \in 1 .. n
        BY <2>1, <3>1
      <4> QED
        BY <2>4, <4>1
    <3>2. start \in [1 .. n + 1 -> Nat]
      BY <3>1
    <3>3. 1 \in 1 .. n + 1
      BY <2>1
    <3>4. ASSUME NEW k \in 1 .. n PROVE start[k + 1] = Len(f[k])
      <4>1. k + 1 \in 1 .. n + 1 /\ k + 1 # 1 /\ (k + 1) - 1 = k
        BY <2>1
      <4> QED
        BY <4>1, Zenon
    <3> QED
      BY <3>2, <3>3, <3>4, Zenon
  <2>7. ASSUME NEW k \in 1 .. n PROVE start[k + 1] = start[k] + Len(seqs[k])
    <3>1. CASE k = 1
      BY <2>3, <2>4, <2>6, <3>1
    <3>2. CASE k # 1
      <4>1. k - 1 \in 1 .. n - 1 /\ (k - 1) + 1 = k /\ k - 1 \in 1 .. n
        BY <2>1, <3>2
      <4>2. Len(f[k]) = Len(f[k - 1]) + Len(seqs[k])
        BY <2>5, <4>1, Zenon
      <4>3. start[k] = Len(f[k - 1])
        BY <2>6, <4>1, Zenon
      <4> QED
        BY <2>6, <4>2, <4>3, Zenon
    <3> QED
      BY <3>1, <3>2
  <2> HIDE DEF start
  <2>8. Here(1)
    <3>1. ASSUME NEW k \in 1 .. 1, NEW l \in 1 .. Len(seqs[k])
          PROVE  start[k] + l \in 1 .. Len(f[1]) /\ f[1][start[k] + l] = seqs[k][l]
      <4>1. k = 1 /\ 0 + l = l
        BY <2>4
      <4> QED
        BY <2>3, <2>6, <4>1
    <3> QED
      BY <3>1
  <2>9. ASSUME NEW i \in 1 .. n - 1, Here(i) PROVE Here(i + 1)
    <3>1. i \in 1 .. n /\ i + 1 \in 1 .. n /\ i \in Nat
      BY <2>1
    <3>2. ASSUME NEW k \in 1 .. i + 1, NEW l \in 1 .. Len(seqs[k])
          PROVE  /\ start[k] + l \in 1 .. Len(f[i + 1])
                 /\ f[i + 1][start[k] + l] = seqs[k][l]
      <4>1. CASE k \in 1 .. i
        <5>1. start[k] + l \in 1 .. Len(f[i]) /\ f[i][start[k] + l] = seqs[k][l]
          BY <2>9, <4>1
        <5>2. f[i + 1][start[k] + l] = f[i][start[k] + l]
          BY <2>5, <5>1, Zenon
        <5>3. Len(f[i + 1]) >= Len(f[i]) /\ Len(f[i + 1]) \in Nat /\ Len(f[i]) \in Nat
          <6>1. \A a, b \in Nat : a + b >= a
            OBVIOUS
          <6>2. Len(f[i]) \in Nat /\ Len(seqs[i + 1]) \in Nat /\ Len(f[i + 1]) \in Nat
            BY <2>4, <3>1, Zenon
          <6>3. Len(f[i + 1]) = Len(f[i]) + Len(seqs[i + 1])
            BY <2>5, Zenon
          <6> QED
            BY <6>1, <6>2, <6>3, Zenon
        <5>4. \A m \in 1 .. Len(f[i]) : m \in 1 .. Len(f[i + 1])
          BY <5>3
        <5> QED
          BY <5>1, <5>2, <5>4, Zenon
      <4>2. CASE k = i + 1
        <5>1. start[k] = Len(f[i])
          BY <2>6, <3>1, <4>2, Zenon
        <5>2. f[i + 1][Len(f[i]) + l] = seqs[k][l]
          BY <2>5, <4>2, Zenon
        <5>3. Len(f[i + 1]) = Len(f[i]) + Len(seqs[k])
          BY <2>5, <4>2, Zenon
        <5>4. Len(f[i]) \in Nat /\ Len(seqs[k]) \in Nat
          BY <2>4, <3>1, <4>2, Zenon
        <5>5. Len(f[i]) + l \in 1 .. Len(f[i + 1])
          <6>1. \A a, b \in Nat : \A m \in 1 .. b : a + m \in 1 .. a + b
            OBVIOUS
          <6> QED
            BY <5>3, <5>4, <6>1, Zenon
        <5> QED
          BY <5>1, <5>2, <5>5, Zenon
      <4>3. k \in 1 .. i \/ k = i + 1
        BY <3>1
      <4> QED
        BY <4>1, <4>2, <4>3, Zenon
    <3> QED
      BY <3>2, Zenon
  <2> HIDE DEF Here
  <2>10. 0 \in T
    BY <2>8
  <2>11. ASSUME NEW i \in T PROVE i + 1 \in T
    <3> SUFFICES ASSUME (i + 1) + 1 <= n PROVE Here((i + 1) + 1)
      OBVIOUS
    <3>1. i + 1 \in 1 .. n - 1 /\ i + 1 <= n
      BY <2>1
    <3> QED
      BY <2>9, <3>1
  <2>12. T = Nat
    <3>1. T \subseteq Nat
      OBVIOUS
    <3> HIDE DEF T
    <3> QED
      BY <2>10, <2>11, <3>1, Induct
  <2>13. Here(n)
    <3>1. n - 1 \in Nat /\ (n - 1) + 1 = n /\ n <= n
      BY <2>1
    <3>2. n - 1 \in T
      BY <2>12, <3>1
    <3> QED
      BY <3>1, <3>2
  <2>14. Len(f[n]) = start[n + 1]
    <3>1. n \in 1 .. n
      BY <2>1
    <3> QED
      BY <2>6, <3>1, Zenon
  <2>15. Laid(seqs, f[n], start)
    BY <2>6, <2>7, <2>13, <2>14, Zenon DEF Laid, Here, n
  <2> QED
    BY <2>2, <2>15
<1> QED
    BY <1>1, <1>2

(* All sequences but the last are of one length.                           *)
EvenBut(seqs, w) == \A k \in 1 .. Len(seqs) - 1 : Len(seqs[k]) = w

Multiples(start, n, w) == \A k \in 1 .. n : start[k] = w * (k - 1)

(* Then these are multiples.                                               *)
LEMMA LaidEven ==
    ASSUME NEW seqs, NEW flat, NEW start, Laid(seqs, flat, start),
           Len(seqs) \in Nat, NEW w \in Nat, EvenBut(seqs, w)
    PROVE  Multiples(start, Len(seqs), w)
<1> DEFINE n == Len(seqs)
           T == { m \in Nat : m + 1 <= n => start[m + 1] = w * m }
<1>1. n \in Nat
    OBVIOUS
<1>2. start[1] = 0 /\ \A k \in 1 .. n - 1 : start[k + 1] = start[k] + w
  <2>1. start[1] = 0 /\ \A k \in 1 .. n : start[k + 1] = start[k] + Len(seqs[k])
    BY DEF Laid
  <2>2. \A k \in 1 .. n - 1 : k \in 1 .. n
    OBVIOUS
  <2> QED
    BY <2>1, <2>2, Zenon DEF EvenBut
<1> HIDE DEF n
<1>3. 0 \in T
  <2>1. w * 0 = 0 /\ 0 + 1 = 1
    OBVIOUS
  <2> QED
    BY <1>2, <2>1
<1>4. ASSUME NEW m \in T PROVE m + 1 \in T
  <2> SUFFICES ASSUME (m + 1) + 1 <= n PROVE start[(m + 1) + 1] = w * (m + 1)
    OBVIOUS
  <2>1. m \in Nat /\ m + 1 \in 1 .. n - 1 /\ m + 1 <= n
    BY <1>1
  <2>2. start[(m + 1) + 1] = start[m + 1] + w
    BY <1>2, <2>1, Zenon
  <2>3. start[m + 1] = w * m
    BY <2>1
  <2>4. w * (m + 1) = w * m + w
    BY <2>1
  <2> QED
    BY <2>2, <2>3, <2>4, Zenon
<1>5. T = Nat
  <2>1. T \subseteq Nat
    OBVIOUS
  <2> HIDE DEF T
  <2> QED
    BY <1>3, <1>4, <2>1, Induct
<1>6. \A k \in 1 .. n : start[k] = w * (k - 1)
  <2> TAKE k \in 1 .. n
  <2>1. k - 1 \in Nat /\ (k - 1) + 1 = k /\ k <= n
    BY <1>1
  <2>2. k - 1 \in T
    BY <1>5, <2>1
  <2> QED
    BY <2>1, <2>2
<1> QED
    BY <1>6, Zenon DEF n, Multiples

(* Where the elements are if all the sequences are of one length.          *)
AllLong(seqs, w) == \A k \in 1 .. Len(seqs) : Len(seqs[k]) = w

LaidEvenly(flat, S, seqs, w) ==
    /\ flat \in Seq(S) /\ Len(flat) = w * Len(seqs)
    /\ \A k \in 1 .. Len(seqs) : \A l \in 1 .. w :
           flat[w * (k - 1) + l] = seqs[k][l]

(* Each part of w elements is one of the sequences.                        *)
LEMMA FlattenEven ==
    ASSUME NEW S, NEW seqs \in Seq(Seq(S)), seqs # <<>>, NEW w \in Nat,
           AllLong(seqs, w)
    PROVE  LaidEvenly(FlattenSeq(seqs), S, seqs, w)
<1> DEFINE n == Len(seqs)
           flat == FlattenSeq(seqs)
<1>1. PICK start : Laid(seqs, flat, start)
    BY FlattenLaid
<1>2. n \in Nat \ {0} /\ n \in 1 .. n
    OBVIOUS
<1> HIDE DEF flat, n
<1>3. \A k \in 1 .. n : start[k] = w * (k - 1)
  <2>1. EvenBut(seqs, w)
    <3>1. \A k \in 1 .. n - 1 : k \in 1 .. n
      BY <1>2
    <3> QED
      BY <3>1, Zenon DEF EvenBut, AllLong, n
  <2>2. Len(seqs) \in Nat
    BY <1>2 DEF n
  <2>3. Multiples(start, Len(seqs), w)
    BY <1>1, <2>1, <2>2, LaidEven, Zenon
  <2> QED
    BY <2>3, Zenon DEF n, Multiples
<1>4. Len(flat) = w * n
  <2>1. Len(flat) = start[n] + w
    BY <1>1, <1>2, Zenon DEF Laid, AllLong, n
  <2>2. w * (n - 1) + w = w * n
    BY <1>2
  <2> QED
    BY <1>2, <1>3, <2>1, <2>2, Zenon
<1>5. \A k \in 1 .. n : \A l \in 1 .. w : flat[w * (k - 1) + l] = seqs[k][l]
    BY <1>1, <1>3, Zenon DEF Laid, AllLong, n
<1>6. flat \in Seq(S)
    BY FlattenType DEF flat
<1>7. LaidEvenly(flat, S, seqs, w)
    BY <1>4, <1>5, <1>6, Zenon DEF LaidEvenly, n
<1> QED
    BY <1>7 DEF flat

-----------------------------------------------------------------------------
(* The truncation of RFC 4226.                                             *)

(* A byte of a string of bytes.                                            *)
LEMMA ByteAt ==
    ASSUME NEW h \in Seq(0 .. 255), NEW k \in 1 .. Len(h)
    PROVE  h[k] \in 0 .. 255 /\ h[k] \in Int
<1> DEFINE S == 0 .. 255
<1>1. h \in Seq(S)
    OBVIOUS
<1>2. \A x \in S : x \in Int
    OBVIOUS
<1> HIDE DEF S
<1>3. h[k] \in S
    BY <1>1
<1> QED
    BY <1>2, <1>3, Zenon DEF S

Bytes == 0 .. 255

(* The bits of bytes, one byte after another.                              *)
BitString(h) == FlattenSeq([i \in DOMAIN h |-> BitsOf(h[i], 8)])

IsBitString(bits, h) ==
    /\ bits \in Seq({0, 1}) /\ Len(bits) = 8 * Len(h)
    /\ \A k \in 1 .. Len(h) : \A i \in 1 .. 8 :
           bits[8 * (k - 1) + i] = (h[k] \div 2 ^ (8 - i)) % 2

(* The bits of a byte are at eight times its place.                        *)
LEMMA BitStringFacts ==
    ASSUME NEW h \in Seq(0 .. 255), Len(h) >= 1
    PROVE  IsBitString(BitString(h), h)
<1> DEFINE seqs == [i \in DOMAIN h |-> BitsOf(h[i], 8)]
           B == {0, 1}
           Q == Seq(B)
<1>1. /\ Len(h) \in Nat /\ DOMAIN h = 1 .. Len(h)
      /\ \A k \in 1 .. Len(h) : h[k] \in Int
  <2>1. \A k \in 1 .. Len(h) : h[k] \in Int
    BY ByteAt, Zenon
  <2>2. Len(h) \in Nat /\ DOMAIN h = 1 .. Len(h)
    OBVIOUS
  <2> QED
    BY <2>1, <2>2, Zenon
<1>2. 8 \in 1 .. 8 /\ 8 \in Nat
    OBVIOUS
<1>3. ASSUME NEW k \in 1 .. Len(h)
      PROVE  /\ seqs[k] \in Q /\ Len(seqs[k]) = 8
             /\ \A i \in 1 .. 8 : seqs[k][i] = (h[k] \div 2 ^ (8 - i)) % 2
  <2> DEFINE b == h[k]
  <2>1. seqs[k] = BitsOf(b, 8)
    BY <1>1, Zenon
  <2>2. b \in Int
    BY <1>1
  <2> HIDE DEF b, seqs
  <2>3. /\ BitsOf(b, 8) \in Q /\ Len(BitsOf(b, 8)) = 8
        /\ \A i \in 1 .. 8 : BitsOf(b, 8)[i] = (b \div 2 ^ (8 - i)) % 2
    BY <1>2, <2>2, BitsFacts, Zenon
  <2> QED
    BY <2>1, <2>3, Zenon DEF b
<1>4. seqs = [i \in 1 .. Len(h) |-> seqs[i]]
  <2>1. \A i \in 1 .. Len(h) : seqs[i] = BitsOf(h[i], 8)
    BY <1>1, Zenon
  <2>2. seqs = [i \in 1 .. Len(h) |-> BitsOf(h[i], 8)]
    BY <1>1
  <2> QED
    BY <2>1, <2>2, Zenon
<1>5. BitString(h) = FlattenSeq(seqs)
    BY DEF BitString
<1> HIDE DEF seqs, Q
<1>6. seqs \in Seq(Q) /\ Len(seqs) = Len(h) /\ seqs # <<>>
  <2>1. seqs \in [1 .. Len(h) -> Q]
    BY <1>3, <1>4
  <2> QED
    BY <1>1, <2>1
<1> HIDE DEF B
<1>7. /\ FlattenSeq(seqs) \in Seq(B)
      /\ Len(FlattenSeq(seqs)) = 8 * Len(seqs)
      /\ \A k \in 1 .. Len(seqs) : \A l \in 1 .. 8 :
             FlattenSeq(seqs)[8 * (k - 1) + l] = seqs[k][l]
  <2>1. AllLong(seqs, 8)
    BY <1>3, <1>6, Zenon DEF AllLong
  <2>2. seqs \in Seq(Seq(B)) /\ seqs # <<>>
    BY <1>6, Zenon DEF Q
  <2>3. LaidEvenly(FlattenSeq(seqs), B, seqs, 8)
    BY <1>2, <2>1, <2>2, FlattenEven, Zenon
  <2> QED
    BY <2>3, Zenon DEF LaidEvenly
<1>8. FlattenSeq(seqs) \in Seq({0, 1})
    BY <1>7, Zenon DEF B
<1> QED
  <2>1. Len(FlattenSeq(seqs)) = 8 * Len(h)
    BY <1>6, <1>7, Zenon
  <2>2. ASSUME NEW k \in 1 .. Len(h), NEW i \in 1 .. 8
        PROVE  FlattenSeq(seqs)[8 * (k - 1) + i] = (h[k] \div 2 ^ (8 - i)) % 2
    <3>1. FlattenSeq(seqs)[8 * (k - 1) + i] = seqs[k][i]
      BY <1>6, <1>7, Zenon
    <3>2. seqs[k][i] = (h[k] \div 2 ^ (8 - i)) % 2
      BY <1>3, Zenon
    <3> QED
      BY <3>1, <3>2, Zenon
  <2>3. IsBitString(FlattenSeq(seqs), h)
    BY <1>8, <2>1, <2>2, Zenon DEF IsBitString
  <2> QED
    BY <1>5, <2>3, Zenon

(* Bits are numbers.                                                       *)
LEMMA BitsAreNumbers ==
    ASSUME NEW s \in Seq({0, 1})
    PROVE  s \in Seq(Nat)
<1>1. {0, 1} \subseteq Nat
    OBVIOUS
<1> QED
    BY <1>1, SeqOfMore, Zenon

(* The sequence of the length l that follows the place q.                  *)
PartAt(s, bits, q, l) ==
    /\ s \in Seq(Nat) /\ Len(s) = l
    /\ \A i \in 1 .. l : s[i] = bits[q + i]

(* The low m bits of a byte appear in a part of the bits that has them.    *)
SameLow(b, c, m) ==
    \A i \in 1 .. m : (b \div 2 ^ (m - i)) % 2 = (c \div 2 ^ (m - i)) % 2

(* So they do wherever a byte ends in the bits.                            *)
LEMMA ByteShown ==
    ASSUME NEW h \in Seq(0 .. 255), NEW bits, IsBitString(bits, h),
           NEW k \in 1 .. Len(h), NEW q \in Nat, NEW l \in Nat, NEW s,
           PartAt(s, bits, q, l), NEW m \in 1 .. 8, NEW p \in Nat,
           p + m <= l, q + p + m = 8 * k, NEW c, SameLow(h[k], c, m)
    PROVE  Shows(s, p, m, c)
<1> DEFINE b == h[k]
<1>1. ASSUME NEW i \in 1 .. m PROVE s[p + i] = (c \div 2 ^ (m - i)) % 2
  <2> DEFINE j == 8 - m + i
  <2>1. /\ p + i \in 1 .. l /\ q + (p + i) = 8 * (k - 1) + j /\ j \in 1 .. 8
        /\ 8 - j = m - i
    OBVIOUS
  <2> HIDE DEF j
  <2>2. s[p + i] = bits[8 * (k - 1) + j]
    BY <2>1, Zenon DEF PartAt
  <2>3. bits[8 * (k - 1) + j] = (h[k] \div 2 ^ (8 - j)) % 2
    BY <2>1, Zenon DEF IsBitString
  <2>4. (h[k] \div 2 ^ (m - i)) % 2 = (c \div 2 ^ (m - i)) % 2
    BY Zenon DEF SameLow
  <2> QED
    BY <2>1, <2>2, <2>3, <2>4, Zenon
<1> QED
    BY <1>1, Zenon DEF Shows

(* A part of a sequence is one.                                            *)
LEMMA PartIs ==
    ASSUME NEW bits \in Seq(Nat), NEW m \in Nat, NEW n \in Nat, NEW q \in Nat,
           NEW l \in Nat, m = q + 1, n = q + l, n <= Len(bits)
    PROVE  PartAt(SubSeq(bits, m, n), bits, q, l)
<1>1. SubSeq(bits, m, n) = SubSeq(bits, q + 1, q + l)
    BY Zenon
<1>2. q + l <= Len(bits)
    OBVIOUS
<1> DEFINE s == SubSeq(bits, q + 1, q + l)
<1>3. s \in Seq(Nat)
    BY <1>2, Part
<1>4. Len(s) = l
    BY <1>2, Part
<1>5. \A i \in 1 .. l : s[i] = bits[q + i]
    BY <1>2, Part
<1> HIDE DEF s
<1>6. PartAt(s, bits, q, l)
    BY <1>3, <1>4, <1>5, Zenon DEF PartAt
<1> QED
    BY <1>1, <1>6, Zenon DEF s

(* The last four bits of the last byte are the offset.                     *)
LEMMA OffsetRead ==
    ASSUME NEW h \in Seq(0 .. 255), Len(h) >= 20, NEW bits, IsBitString(bits, h)
    PROVE  Number(SubSeq(bits, Len(bits) - 3, Len(bits))) = h[Len(h)] % 16
<1> DEFINE n == Len(h)
           s == SubSeq(bits, Len(bits) - 3, Len(bits))
           b == h[n]
           c == b % 16
           q == 8 * n - 4
<1>1. n \in Nat /\ n >= 20 /\ b \in 0 .. 255 /\ n \in 1 .. n
  <2>1. n \in Nat /\ n >= 20 /\ n \in 1 .. n
    OBVIOUS
  <2>2. b \in 0 .. 255
    BY <2>1, ByteAt, Zenon
  <2> QED
    BY <2>1, <2>2, Zenon
<1>2. bits \in Seq(Nat) /\ Len(bits) = 8 * n
    BY BitsAreNumbers, Zenon DEF IsBitString
<1>3. /\ q \in Nat /\ Len(bits) = q + 4 /\ Len(bits) - 3 = q + 1
      /\ Len(bits) - 3 \in Nat /\ Len(bits) \in Nat /\ 4 \in Nat
      /\ Len(bits) <= Len(bits) /\ 0 + 4 <= 4 /\ q + 0 + 4 = 8 * n
      /\ 4 \in 1 .. 8 /\ 0 \in Nat /\ 4 \in 0 .. 8
    BY <1>1, <1>2
<1>4. PartAt(s, bits, q, 4)
    BY <1>2, <1>3, PartIs, Zenon
<1>5. c \in 0 .. 15 /\ c \in 0 .. 2 ^ 4 - 1
  <2>1. 2 ^ 4 = 16
    BY SMT
  <2>2. \A x \in 0 .. 255 : x % 16 \in 0 .. 15
    OBVIOUS
  <2>3. c \in 0 .. 15
    BY <1>1, <2>2, Zenon
  <2> HIDE DEF c
  <2>4. 2 ^ 4 - 1 = 15
    BY <2>1, SMT
  <2> QED
    BY <2>3, <2>4, Zenon
<1>6. SameLow(b, c, 4)
    BY <1>1, LowBits, Zenon DEF SameLow
<1> HIDE DEF s, q, c
<1>7. Shows(s, 0, 4, c)
    BY <1>1, <1>3, <1>4, <1>6, ByteShown, Zenon
<1>8. s \in Seq(Nat) /\ Len(s) = 4
    BY <1>4 DEF PartAt
<1>9. PICK number : Numbered(2, s, number) /\ Numeral(2, s) = number[Len(s)]
  <2>1. 2 \in Nat
    OBVIOUS
  <2> QED
    BY <1>8, <2>1, NumeralFacts
<1>10. Reads(number, 0, 4, c)
    BY <1>3, <1>5, <1>7, <1>8, <1>9, BitsRead, Zenon
<1>11. number[4] = c
  <2>1. number[0] = 0
    BY <1>9 DEF Numbered
  <2>2. number[0 + 4] = 2 ^ 4 * 0 + c
    BY <1>10, <2>1, Zenon DEF Reads
  <2>3. 2 ^ 4 * 0 + c = c /\ 0 + 4 = 4
    BY <1>5, SMT
  <2> QED
    BY <2>2, <2>3, Zenon
<1>12. Number(s) = c
    BY <1>8, <1>9, <1>11, Zenon DEF Number
<1> QED
    BY <1>12, Zenon DEF s, c

(* The 31 bits after the first at the offset o are those of four bytes.    *)
LEMMA BinaryCodeRead ==
    ASSUME NEW h \in Seq(0 .. 255), NEW bits, IsBitString(bits, h),
           NEW o \in Nat, o + 4 <= Len(h)
    PROVE  Number(SubSeq(bits, 8 * o + 2, 8 * o + 32)) =
              BigEndian31(SubSeq(h, o + 1, o + 4))
<1> DEFINE s == SubSeq(bits, 8 * o + 2, 8 * o + 32)
           q == 8 * o + 1
           b(j) == h[o + j]
           c == b(1) % 128
<1>1. /\ \A j \in 1 .. 4 : o + j \in 1 .. Len(h)
      /\ \A j \in 1 .. 4 : h[o + j] \in 0 .. 255
  <2>1. \A j \in 1 .. 4 : o + j \in 1 .. Len(h)
    OBVIOUS
  <2> QED
    BY <2>1, ByteAt, Zenon
<1>2. bits \in Seq(Nat) /\ Len(bits) = 8 * Len(h)
    BY BitsAreNumbers, Zenon DEF IsBitString
<1>3. /\ q \in Nat /\ 31 \in Nat /\ 8 * o + 2 \in Nat /\ 8 * o + 32 \in Nat
      /\ 8 * o + 2 = q + 1 /\ 8 * o + 32 = q + 31 /\ 8 * o + 32 <= Len(bits)
    BY <1>2
<1>4. PartAt(s, bits, q, 31)
    BY <1>2, <1>3, PartIs, Zenon
<1>5. s \in Seq(Nat) /\ Len(s) = 31
    BY <1>4 DEF PartAt
<1>6. /\ 2 ^ 7 - 1 = 127 /\ 2 ^ 8 - 1 = 255 /\ 2 ^ 8 = 256 /\ 2 ^ 7 = 128
    BY SMT
<1>7. PICK number : Numbered(2, s, number) /\ Numeral(2, s) = number[Len(s)]
  <2>1. 2 \in Nat
    OBVIOUS
  <2> QED
    BY <1>5, <2>1, NumeralFacts
<1>8. number[0] = 0
    BY <1>7 DEF Numbered
<1>9. /\ h[o + 1] \in 0 .. 255 /\ h[o + 2] \in 0 .. 255
      /\ h[o + 3] \in 0 .. 255 /\ h[o + 4] \in 0 .. 255
    BY <1>1
<1> HIDE DEF s, q
<1>10. number[0 + 7] = 2 ^ 7 * number[0] + c
  <2>1. /\ o + 1 \in 1 .. Len(h) /\ 7 \in 1 .. 8 /\ 0 \in Nat /\ 0 + 7 <= 31
        /\ q + 0 + 7 = 8 * (o + 1) /\ 7 \in 0 .. 8
    BY <1>1 DEF q
  <2>2. SameLow(h[o + 1], c, 7)
    BY <1>9, LowBits, Zenon DEF SameLow
  <2>3. \A x \in 0 .. 255 : x % 128 \in 0 .. 127
    OBVIOUS
  <2>4. c \in 0 .. 127
    BY <1>9, <2>3, Zenon
  <2> HIDE DEF c
  <2>7. c \in 0 .. 2 ^ 7 - 1
    BY <1>6, <2>4, Zenon
  <2>5. Shows(s, 0, 7, c)
    BY <1>3, <1>4, <2>1, <2>2, ByteShown, Zenon
  <2>6. Reads(number, 0, 7, c)
    BY <1>5, <1>7, <2>1, <2>5, <2>7, BitsRead, Zenon
  <2> QED
    BY <2>6, Zenon DEF Reads
<1>11. ASSUME NEW j \in 2 .. 4, NEW p \in Nat, p = 8 * j - 9
       PROVE  number[p + 8] = 2 ^ 8 * number[p] + h[o + j]
  <2>1. /\ j \in 1 .. 4 /\ 8 \in 1 .. 8 /\ p + 8 <= 31
        /\ q + p + 8 = 8 * (o + j) /\ 8 \in 0 .. 8
    BY <1>11 DEF q
  <2>5. o + j \in 1 .. Len(h) /\ h[o + j] \in 0 .. 255
    BY <1>1, <2>1, Zenon
  <2>2. h[o + j] \in 0 .. 2 ^ 8 - 1
    BY <1>6, <2>5, Zenon
  <2>6. SameLow(h[o + j], h[o + j], 8)
    BY Zenon DEF SameLow
  <2>3. Shows(s, p, 8, h[o + j])
    BY <1>3, <1>4, <1>11, <2>1, <2>5, <2>6, ByteShown, Zenon
  <2>4. Reads(number, p, 8, h[o + j])
    BY <1>5, <1>7, <2>1, <2>2, <2>3, BitsRead, Zenon
  <2> QED
    BY <2>4, Zenon DEF Reads
<1>12. /\ number[15] = 256 * number[7] + h[o + 2]
       /\ number[23] = 256 * number[15] + h[o + 3]
       /\ number[31] = 256 * number[23] + h[o + 4]
  <2>1. /\ 2 \in 2 .. 4 /\ 3 \in 2 .. 4 /\ 4 \in 2 .. 4
        /\ 7 \in Nat /\ 15 \in Nat /\ 23 \in Nat
        /\ 7 = 8 * 2 - 9 /\ 15 = 8 * 3 - 9 /\ 23 = 8 * 4 - 9
        /\ 7 + 8 = 15 /\ 15 + 8 = 23 /\ 23 + 8 = 31
    OBVIOUS
  <2> QED
    <3>1. number[7 + 8] = 2 ^ 8 * number[7] + h[o + 2]
      BY <1>11, <2>1, Zenon
    <3>2. number[15 + 8] = 2 ^ 8 * number[15] + h[o + 3]
      BY <1>11, <2>1, Zenon
    <3>3. number[23 + 8] = 2 ^ 8 * number[23] + h[o + 4]
      BY <1>11, <2>1, Zenon
    <3> QED
      BY <1>6, <2>1, <3>1, <3>2, <3>3, Zenon
<1>13. number[7] = h[o + 1] % 128
  <2>1. 0 + 7 = 7 /\ 2 ^ 7 * 0 + c = c
    <3>1. ASSUME NEW x \in 0 .. 255 PROVE 2 ^ 7 * 0 + (x % 128) = x % 128
      <4>1. 128 * 0 + (x % 128) = x % 128
        OBVIOUS
      <4> QED
        BY <1>6, <4>1, Zenon
    <3>2. 2 ^ 7 * 0 + (h[o + 1] % 128) = h[o + 1] % 128
      BY <1>9, <3>1, Zenon
    <3>3. 0 + 7 = 7
      OBVIOUS
    <3> QED
      BY <3>2, <3>3, Zenon
  <2> QED
    BY <1>8, <1>10, <2>1, Zenon
<1>14. Number(s) = number[31]
    BY <1>5, <1>7, Zenon DEF Number
<1>15. /\ SubSeq(h, o + 1, o + 4)[1] = h[o + 1]
       /\ SubSeq(h, o + 1, o + 4)[2] = h[o + 2]
       /\ SubSeq(h, o + 1, o + 4)[3] = h[o + 3]
       /\ SubSeq(h, o + 1, o + 4)[4] = h[o + 4]
  <2> DEFINE S == 0 .. 255
  <2>1. h \in Seq(S) /\ 4 \in Nat /\ 1 \in 1 .. 4 /\ 2 \in 1 .. 4
        /\ 3 \in 1 .. 4 /\ 4 \in 1 .. 4
    OBVIOUS
  <2> HIDE DEF S
  <2>2. \A i \in 1 .. 4 : SubSeq(h, o + 1, o + 4)[i] = h[o + i]
    BY <2>1, Part
  <2> QED
    BY <2>1, <2>2, Zenon
<1>16. BigEndian31(SubSeq(h, o + 1, o + 4)) =
          h[o + 4] + 256 * h[o + 3] + 256 * 256 * h[o + 2]
          + 256 * 256 * 256 * (h[o + 1] % 128)
  <2>1. PICK t : t = SubSeq(h, o + 1, o + 4)
    BY Zenon
  <2>2. BigEndian31(t) = t[4] + 256 * t[3] + 256 * 256 * t[2]
                         + 256 * 256 * 256 * (t[1] % 128)
    BY Zenon DEF BigEndian31
  <2>3. t[1] = h[o + 1] /\ t[2] = h[o + 2] /\ t[3] = h[o + 3] /\ t[4] = h[o + 4]
    BY <1>15, <2>1, Zenon
  <2>4. BigEndian31(t) = h[o + 4] + 256 * h[o + 3] + 256 * 256 * h[o + 2]
                         + 256 * 256 * 256 * (h[o + 1] % 128)
    BY <2>2, <2>3
  <2> QED
    BY <2>1, <2>4, Zenon
<1>17. number[31] = h[o + 4] + 256 * h[o + 3] + 256 * 256 * h[o + 2]
                    + 256 * 256 * 256 * (h[o + 1] % 128)
  <2>1. \A x \in 0 .. 255 : x \in Int /\ x % 128 \in Int
    OBVIOUS
  <2>2. /\ h[o + 1] % 128 \in Int /\ h[o + 2] \in Int /\ h[o + 3] \in Int
        /\ h[o + 4] \in Int
    BY <1>9, <2>1, Zenon
  <2>3. PICK d, x, y, z : /\ d = h[o + 1] % 128 /\ x = h[o + 2]
                          /\ y = h[o + 3] /\ z = h[o + 4]
    BY Zenon
  <2>4. PICK n7, n15, n23, n31 :
            /\ n7 = number[7] /\ n15 = number[15] /\ n23 = number[23]
            /\ n31 = number[31]
    BY Zenon
  <2>5. d \in Int /\ x \in Int /\ y \in Int /\ z \in Int
    BY <2>2, <2>3, Zenon
  <2>6. n7 = d /\ n15 = 256 * n7 + x /\ n23 = 256 * n15 + y /\ n31 = 256 * n23 + z
    BY <1>12, <1>13, <2>3, <2>4, Zenon
  <2>7. n31 = z + 256 * y + 256 * 256 * x + 256 * 256 * 256 * d
    BY <2>5, <2>6
  <2>8. number[31] = z + 256 * y + 256 * 256 * x + 256 * 256 * 256 * d
    BY <2>4, <2>7, Zenon
  <2> QED
    BY <2>3, <2>8
<1> QED
    BY <1>14, <1>16, <1>17, Zenon DEF s

(* Four bytes, without the top bit, as a number.                           *)
LEMMA BigEndianType ==
    ASSUME NEW h \in Seq(0 .. 255), NEW o \in Nat, o + 4 <= Len(h)
    PROVE  BigEndian31(SubSeq(h, o + 1, o + 4)) \in Int
<1> DEFINE s == SubSeq(h, o + 1, o + 4)
           S == 0 .. 255
<1>1. s \in Seq(S) /\ Len(s) = 4
  <2>1. h \in Seq(S) /\ 4 \in Nat
    OBVIOUS
  <2> HIDE DEF S
  <2>2. s \in Seq(S)
    BY <2>1, Part
  <2>3. Len(s) = 4
    BY <2>1, Part
  <2> QED
    BY <2>2, <2>3
<1> HIDE DEF s
<1>2. ASSUME NEW j \in 1 .. 4 PROVE s[j] \in Int
  <2>1. s \in Seq(0 .. 255) /\ j \in 1 .. Len(s)
    BY <1>1
  <2> QED
    BY <2>1, ByteAt, Zenon
<1>3. PICK b1, b2, b3, b4 : b1 = s[1] /\ b2 = s[2] /\ b3 = s[3] /\ b4 = s[4]
    BY Zenon
<1>4. b1 \in Int /\ b2 \in Int /\ b3 \in Int /\ b4 \in Int
  <2>1. 1 \in 1 .. 4 /\ 2 \in 1 .. 4 /\ 3 \in 1 .. 4 /\ 4 \in 1 .. 4
    OBVIOUS
  <2> QED
    BY <1>2, <1>3, <2>1, Zenon
<1>5. b4 + 256 * b3 + 256 * 256 * b2 + 256 * 256 * 256 * (b1 % 128) \in Int
    BY <1>4
<1> QED
    BY <1>3, <1>5, Zenon DEF BigEndian31, s

(* There are four bytes at the offset.                                     *)
LEMMA OffsetIn ==
    ASSUME NEW h \in Seq(0 .. 255), Len(h) >= 20, NEW o, o = h[Len(h)] % 16
    PROVE  o \in Nat /\ o + 4 <= Len(h)
<1>1. \A x \in 0 .. 255 : x % 16 \in 0 .. 15
    OBVIOUS
<1>2. Len(h) \in Nat /\ Len(h) \in 1 .. Len(h)
    OBVIOUS
<1>3. h[Len(h)] \in 0 .. 255
    BY <1>2, ByteAt, Zenon
<1>4. o \in 0 .. 15
    BY <1>1, <1>3, Zenon
<1>5. PICK n : n = Len(h)
    BY Zenon
<1>6. n \in Nat /\ n >= 20
    BY <1>2, <1>5
<1>7. o \in Nat /\ o + 4 <= n
  <2>1. \A x \in 0 .. 15 : \A m \in Nat : m >= 20 => x \in Nat /\ x + 4 <= m
    OBVIOUS
  <2> QED
    BY <1>4, <1>6, <2>1, Zenon
<1> QED
    BY <1>5, <1>7, Zenon

(* What is left of a number of as many decimal digits as may be asked.     *)
LEMMA DecimalRemainder ==
    ASSUME NEW v \in Int, NEW w \in 6 .. 8
    PROVE  v % 10 ^ w \in 0 .. 10 ^ w - 1
<1>1. CASE w = 6
  <2>1. v % 10 ^ 6 \in 0 .. 10 ^ 6 - 1
    BY SMT
  <2> QED
    BY <1>1, <2>1, Zenon
<1>2. CASE w = 7
  <2>1. v % 10 ^ 7 \in 0 .. 10 ^ 7 - 1
    BY SMT
  <2> QED
    BY <1>2, <2>1, Zenon
<1>3. CASE w = 8
  <2>1. v % 10 ^ 8 \in 0 .. 10 ^ 8 - 1
    BY SMT
  <2> QED
    BY <1>3, <2>1, Zenon
<1>4. w = 6 \/ w = 7 \/ w = 8
    OBVIOUS
<1> QED
    BY <1>1, <1>2, <1>3, <1>4, Zenon

(* What the code of an HMAC is.                                            *)
IsHotp(h, figures, asked) ==
    LET bits   == BitString(h)
        offset == Number(SubSeq(bits, Len(bits) - 3, Len(bits)))
        dbc    == Number(SubSeq(bits, 8 * offset + 2, 8 * offset + 32))
    IN  Len(figures) = asked /\ Numeral(10, figures) = dbc % 10 ^ asked

(* Truncated to the digits that were asked, it is.                         *)
LEMMA TruncationIsHotp ==
    ASSUME NEW h \in Seq(0 .. 255), Len(h) >= 20, NEW w \in 6 .. 8, NEW o,
           o = h[Len(h)] % 16, NEW v, v = BigEndian31(SubSeq(h, o + 1, o + 4))
    PROVE  IsHotp(h, FormatCode(v % 10 ^ w, w), w)
<1>1. o \in Nat /\ o + 4 <= Len(h)
    BY OffsetIn, Zenon
<1> DEFINE bits == BitString(h)
           n    == v % 10 ^ w
<1>2. IsBitString(bits, h)
  <2>1. Len(h) >= 1
    OBVIOUS
  <2> QED
    BY <2>1, BitStringFacts, Zenon
<1> HIDE DEF bits
<1>3. Number(SubSeq(bits, Len(bits) - 3, Len(bits))) = o
    BY <1>2, OffsetRead, Zenon
<1>4. Number(SubSeq(bits, 8 * o + 2, 8 * o + 32)) = v
    BY <1>1, <1>2, BinaryCodeRead, Zenon
<1>5. n \in 0 .. 10 ^ w - 1
  <2>1. v \in Int
    BY <1>1, BigEndianType, Zenon
  <2> QED
    BY <2>1, DecimalRemainder, Zenon
<1> HIDE DEF n
<1>6. Len(FormatCode(n, w)) = w /\ Numeral(10, FormatCode(n, w)) = n
    BY <1>5, FormatRead, Zenon
<1>7. n = v % 10 ^ w
    BY DEF n
<1> QED
    BY <1>3, <1>4, <1>6, <1>7, Zenon DEF IsHotp, bits

(* The step that copies the code copies that one.                          *)
LEMMA CopyIsHotp ==
    ASSUME ArgumentsInv, CopyCode
    PROVE  CodeIsHotp'
<1> DEFINE o == hmac[Len(hmac)] % 16
           v == BigEndian31(SubSeq(hmac, o + 1, o + 4))
<1>1. hmac \in Seq(0 .. 255) /\ Len(hmac) >= 20
    BY DEF ArgumentsInv, CopyCode
<1>2. Digits \in 6 .. 8
    BY ArgumentsAllowed
<1>3. Truncated = v
    BY Zenon DEF Truncated, Last
<1>4. /\ code' = FormatCode(v % 10 ^ Digits, Digits)
      /\ hmac' = hmac /\ Digits' = Digits
  <2>1. /\ code' = FormatCode(Truncated % 10 ^ Digits, Width(Digits))
        /\ hmac' = hmac /\ digits' = digits
    BY DEF CopyCode, params
  <2>2. Digits' = Digits
    BY <2>1 DEF Digits
  <2> QED
    BY <1>3, <2>1, <2>2, Zenon DEF Width
<1> HIDE DEF v
<1>5. IsHotp(hmac, FormatCode(v % 10 ^ Digits, Digits), Digits)
    BY <1>1, <1>2, TruncationIsHotp, Zenon DEF v
<1>6. IsHotp(hmac', code', Digits')
    BY <1>4, <1>5, Zenon
<1> QED
    BY <1>6, Zenon DEF CodeIsHotp, IsHotp, BitString

(* Every step keeps a code that was copied.                                *)
LEMMA HotpStep ==
    ASSUME ArgumentsInv, CodeIsHotp, [Next]_vars
    PROVE  CodeIsHotp'
<1>1. CASE CopyCode
    BY <1>1, CopyIsHotp
<1>2. CASE UNCHANGED vars
  <2>1. UNCHANGED << step, hmac, code, Digits >>
    BY <1>2 DEF vars, params, Digits
  <2> QED
    BY <2>1 DEF CodeIsHotp
<1>3. CASE ReadProperty \/ DecodeSecret \/ ResolveAlgorithm \/ Hash
  <2>1. step' # "copied"
    BY <1>3 DEF ReadProperty, DecodeSecret, ResolveAlgorithm, Hash
  <2> QED
    BY <2>1 DEF CodeIsHotp
<1> QED
    BY <1>1, <1>2, <1>3 DEF Next

(* Whatever the URL and whatever the HMAC, a code that is copied is that   *)
(* of RFC 4226, with its zeros in front.                                   *)
THEOREM CodeAlwaysHotp == Spec => []CodeIsHotp
<1>1. Init => CodeIsHotp
    BY DEF Init, CodeIsHotp
<1> QED
    BY <1>1, ArgumentsInitially, ArgumentsStep, HotpStep, PTL DEF Spec

-----------------------------------------------------------------------------
(* The decoders of texts.                                                  *)

(* What is decoded from the place i on, if a, b and c are decoded from the *)
(* three places after it.                                                  *)
Piece(text, i, a, b, c) ==
    IF i > Len(text) THEN <<>>
    ELSE IF text[i] = 43 THEN << 32 >> \o a
    ELSE IF text[i] # 37 \/ i = Len(text) THEN << text[i] >> \o a
    ELSE IF HexToNibble(text[i + 1]) = 255 \/ i + 1 = Len(text)
    THEN << text[i], text[i + 1] >> \o b
    ELSE IF HexToNibble(text[i + 2]) = 255
    THEN << text[i], text[i + 1], text[i + 2] >> \o c
    ELSE << Escape(text[i + 1], text[i + 2]) >> \o c

(* An escape that is one is that of a byte.                                *)
LEMMA EscapeType ==
    ASSUME NEW t \in Bytes, NEW b \in Bytes, HexToNibble(t) # 255,
           HexToNibble(b) # 255
    PROVE  Escape(t, b) \in Bytes
<1>1. ASSUME NEW x \in Bytes, HexToNibble(x) # 255
      PROVE  HexToNibble(x) \in 0 .. 15
    BY <1>1 DEF HexToNibble, Bytes
<1>2. HexToNibble(t) \in 0 .. 15 /\ HexToNibble(b) \in 0 .. 15
    BY <1>1
<1>3. \A x, y \in 0 .. 15 : 16 * x + y \in Bytes
    BY DEF Bytes
<1> QED
    BY <1>2, <1>3 DEF Escape

(* It is decoded to bytes.                                                 *)
LEMMA PieceType ==
    ASSUME NEW text \in Seq(Bytes), NEW i \in Nat \ {0}, NEW a \in Seq(Bytes),
           NEW b \in Seq(Bytes), NEW c \in Seq(Bytes)
    PROVE  Piece(text, i, a, b, c) \in Seq(Bytes)
<1> DEFINE n == Len(text)
<1>1. \A j \in 1 .. n : text[j] \in Bytes
    OBVIOUS
<1>2. n \in Nat /\ 32 \in Bytes
    BY DEF Bytes
<1>3. CASE i > n
    BY <1>3 DEF Piece
<1>4. CASE i \in 1 .. n
  <2>1. text[i] \in Bytes
    BY <1>1, <1>4
  <2>2. /\ << 32 >> \in Seq(Bytes) /\ << text[i] >> \in Seq(Bytes)
    BY <1>2, <2>1
  <2>3. CASE text[i] = 43 \/ text[i] # 37 \/ i = n
    <3>1. << 32 >> \o a \in Seq(Bytes) /\ << text[i] >> \o a \in Seq(Bytes)
      BY <2>2, Concatenation, Zenon
    <3>2. ~ (i > n)
      BY <1>4
    <3> QED
      BY <2>3, <3>1, <3>2, Zenon DEF Piece
  <2>4. CASE ~ (text[i] = 43 \/ text[i] # 37 \/ i = n)
    <3>1. i + 1 \in 1 .. n
      BY <1>2, <1>4, <2>4
    <3>2. text[i + 1] \in Bytes
      BY <1>1, <3>1
    <3>3. << text[i], text[i + 1] >> \o b \in Seq(Bytes)
      <4>1. << text[i], text[i + 1] >> \in Seq(Bytes)
        BY <2>1, <3>2
      <4> QED
        BY <4>1, Concatenation, Zenon
    <3>4. ~ (i > n)
      BY <1>4
    <3>5. CASE HexToNibble(text[i + 1]) = 255 \/ i + 1 = n
      BY <2>4, <3>3, <3>4, <3>5, Zenon DEF Piece
    <3>6. CASE ~ (HexToNibble(text[i + 1]) = 255 \/ i + 1 = n)
      <4>1. i + 2 \in 1 .. n
        BY <1>2, <1>4, <3>1, <3>6
      <4>2. text[i + 2] \in Bytes
        BY <1>1, <4>1
      <4>3. << text[i], text[i + 1], text[i + 2] >> \o c \in Seq(Bytes)
        <5>1. << text[i], text[i + 1], text[i + 2] >> \in Seq(Bytes)
          BY <2>1, <3>2, <4>2
        <5> QED
          BY <5>1, Concatenation, Zenon
      <4>4. CASE HexToNibble(text[i + 2]) = 255
        BY <2>4, <3>4, <3>6, <4>3, <4>4, Zenon DEF Piece
      <4>5. CASE HexToNibble(text[i + 2]) # 255
        <5> DEFINE e == Escape(text[i + 1], text[i + 2])
        <5>1. e \in Bytes
          BY <3>2, <3>6, <4>2, <4>5, EscapeType, Zenon
        <5> HIDE DEF e
        <5>2. << e >> \in Seq(Bytes)
          BY <5>1
        <5>3. << e >> \o c \in Seq(Bytes)
          BY <5>2, Concatenation, Zenon
        <5> QED
          BY <2>4, <3>4, <3>6, <4>5, <5>3, Zenon DEF Piece, e
      <4> QED
        BY <4>4, <4>5
    <3> QED
      BY <3>5, <3>6
  <2> QED
    BY <2>3, <2>4
<1> QED
    BY <1>2, <1>3, <1>4

(* The texts that are decoded from each place on.                          *)
Decodes(text, decode) ==
    decode = [i \in 1 .. Len(text) + 3 |->
                 Piece(text, i, decode[i + 1], decode[i + 2], decode[i + 3])]

(* There are some.                                                         *)
LEMMA DecodesExists ==
    ASSUME NEW text \in Seq(Bytes)
    PROVE  \E decode : Decodes(text, decode)
<1> DEFINE n == Len(text)
           Q == Seq(Bytes)
           T == [0 .. 2 -> Q]
           s == [j \in 0 .. 2 |-> <<>>]
           F == [k \in Nat |-> [v \in T |-> [j \in 0 .. 2 |->
                    IF j > 0 THEN v[j - 1]
                    ELSE IF k < n THEN Piece(text, n - k, v[0], v[1], v[2])
                    ELSE <<>>]]]
<1>1. n \in Nat /\ <<>> \in Q
    OBVIOUS
<1>2. ASSUME NEW i \in Nat \ {0}, NEW a \in Q, NEW b \in Q, NEW c \in Q
      PROVE  Piece(text, i, a, b, c) \in Q
    BY PieceType
<1> HIDE DEF n, Q
<1>3. F \in StepsOn(T) /\ s \in T
  <2>1. s \in T
    BY <1>1
  <2>2. ASSUME NEW k \in Nat, NEW v \in T, NEW j \in 0 .. 2
        PROVE  (IF j > 0 THEN v[j - 1]
                ELSE IF k < n THEN Piece(text, n - k, v[0], v[1], v[2])
                ELSE <<>>) \in Q
    <3>1. CASE j > 0
      BY <3>1
    <3>2. CASE ~ (j > 0) /\ k < n
      <4>1. n - k \in Nat \ {0}
        BY <1>1, <3>2
      <4>2. v[0] \in Q /\ v[1] \in Q /\ v[2] \in Q
        OBVIOUS
      <4>3. Piece(text, n - k, v[0], v[1], v[2]) \in Q
        BY <1>2, <4>1, <4>2, Zenon
      <4> QED
        BY <3>2, <4>3
    <3>3. CASE ~ (j > 0) /\ ~ (k < n)
      BY <1>1, <3>3
    <3> QED
      BY <3>1, <3>2, <3>3
  <2> QED
    BY <2>1, <2>2, Zenon DEF StepsOn
<1>4. PICK f : Follows(f, T, s, F)
    BY <1>3, Recursion, Zenon
<1>5. /\ \A j \in 0 .. 2 : f[0][j] = <<>>
      /\ \A k \in Nat : f[k + 1][1] = f[k][0] /\ f[k + 1][2] = f[k][1]
      /\ \A k \in Nat : k < n =>
             f[k + 1][0] = Piece(text, n - k, f[k][0], f[k][1], f[k][2])
  <2>1. f[0] = s /\ \A k \in Nat : f[k] \in T /\ f[k + 1] = F[k][f[k]]
    BY <1>4 DEF Follows
  <2>2. ASSUME NEW k \in Nat, NEW j \in 0 .. 2
        PROVE  f[k + 1][j] = IF j > 0 THEN f[k][j - 1]
                             ELSE IF k < n THEN Piece(text, n - k, f[k][0], f[k][1], f[k][2])
                             ELSE <<>>
    <3>1. \A v \in T :
             F[k][v] = [l \in 0 .. 2 |->
                 IF l > 0 THEN v[l - 1]
                 ELSE IF k < n THEN Piece(text, n - k, v[0], v[1], v[2])
                 ELSE <<>>]
      BY Zenon
    <3> HIDE DEF F, T
    <3>2. f[k] \in T /\ f[k + 1] = F[k][f[k]]
      BY <2>1, Zenon
    <3>3. f[k + 1] = [l \in 0 .. 2 |->
              IF l > 0 THEN f[k][l - 1]
              ELSE IF k < n THEN Piece(text, n - k, f[k][0], f[k][1], f[k][2])
              ELSE <<>>]
      BY <3>1, <3>2, Zenon
    <3> QED
      BY <3>3, Zenon
  <2> HIDE DEF F
  <2>3. \A j \in 0 .. 2 : f[0][j] = <<>>
    BY <2>1, Zenon
  <2>4. /\ 0 \in 0 .. 2 /\ 1 \in 0 .. 2 /\ 2 \in 0 .. 2 /\ ~ (0 > 0)
        /\ 1 > 0 /\ 2 > 0 /\ 1 - 1 = 0 /\ 2 - 1 = 1
    OBVIOUS
  <2> QED
    BY <2>2, <2>3, <2>4, Zenon
<1> HIDE DEF s, F, T
<1> DEFINE g == [i \in 1 .. n + 3 |-> IF i > n THEN <<>> ELSE f[n + 1 - i][0]]
<1>6. ASSUME NEW i \in 1 .. n
      PROVE  f[n - i][0] = g[i + 1] /\ f[n - i][1] = g[i + 2] /\ f[n - i][2] = g[i + 3]
  <2>1. CASE i = n
    <3>1. n - i = 0 /\ i + 1 > n /\ i + 2 > n /\ i + 3 > n
      BY <1>1, <2>1
    <3>2. i + 1 \in 1 .. n + 3 /\ i + 2 \in 1 .. n + 3 /\ i + 3 \in 1 .. n + 3
      BY <1>1
    <3>3. g[i + 1] = <<>> /\ g[i + 2] = <<>> /\ g[i + 3] = <<>>
      BY <3>1, <3>2, Zenon
    <3>4. f[0][0] = <<>> /\ f[0][1] = <<>> /\ f[0][2] = <<>>
      BY <1>5
    <3> QED
      BY <3>1, <3>3, <3>4, Zenon
  <2>2. CASE i = n - 1
    <3>1. n - i = 0 + 1 /\ ~ (i + 1 > n) /\ n + 1 - (i + 1) = 0 + 1 /\ i + 2 > n /\ i + 3 > n
      BY <1>1, <2>2
    <3>2. i + 1 \in 1 .. n + 3 /\ i + 2 \in 1 .. n + 3 /\ i + 3 \in 1 .. n + 3
      BY <1>1
    <3>3. g[i + 1] = f[0 + 1][0] /\ g[i + 2] = <<>> /\ g[i + 3] = <<>>
      BY <3>1, <3>2, Zenon
    <3>4. f[0 + 1][1] = <<>> /\ f[0 + 1][2] = <<>>
      <4>1. 0 \in Nat /\ 0 \in 0 .. 2 /\ 1 \in 0 .. 2
        OBVIOUS
      <4> QED
        BY <1>5, <4>1, Zenon
    <3> QED
      BY <3>1, <3>3, <3>4, Zenon
  <2>3. CASE i < n - 1
    <3> DEFINE k == n - i - 2
    <3>1. /\ k \in Nat /\ k + 1 \in Nat /\ n - i = (k + 1) + 1
          /\ n + 1 - (i + 1) = (k + 1) + 1 /\ n + 1 - (i + 2) = k + 1
          /\ ~ (i + 1 > n) /\ ~ (i + 2 > n)
          /\ (i + 3 > n => k = 0) /\ (~ (i + 3 > n) => n + 1 - (i + 3) = k)
      BY <1>1, <2>3
    <3> HIDE DEF k
    <3>2. i + 1 \in 1 .. n + 3 /\ i + 2 \in 1 .. n + 3 /\ i + 3 \in 1 .. n + 3
      BY <1>1
    <3>3. g[i + 1] = f[(k + 1) + 1][0] /\ g[i + 2] = f[k + 1][0]
      BY <3>1, <3>2, Zenon
    <3>4. g[i + 3] = f[k][0]
      <4>1. f[0][0] = <<>>
        <5>1. 0 \in 0 .. 2
          OBVIOUS
        <5> QED
          BY <1>5, <5>1, Zenon
      <4> QED
        BY <3>1, <3>2, <4>1, Zenon
    <3>5. f[(k + 1) + 1][1] = f[k + 1][0] /\ f[(k + 1) + 1][2] = f[k][0]
      BY <1>5, <3>1, Zenon
    <3> QED
      BY <3>1, <3>3, <3>4, <3>5, Zenon
  <2> QED
    BY <1>1, <2>1, <2>2, <2>3
<1>7. ASSUME NEW i \in 1 .. n + 3
      PROVE  g[i] = Piece(text, i, g[i + 1], g[i + 2], g[i + 3])
  <2>1. CASE i > n
    <3>1. g[i] = <<>>
      BY <2>1, Zenon
    <3> HIDE DEF g
    <3> QED
      BY <2>1, <3>1, Zenon DEF Piece, n
  <2>2. CASE i \in 1 .. n
    <3>1. /\ ~ (i > n) /\ n + 1 - i = (n - i) + 1 /\ n - i \in Nat /\ n - i < n
          /\ n - (n - i) = i
      BY <1>1, <2>2
    <3>2. g[i] = f[(n - i) + 1][0]
      BY <3>1, Zenon
    <3>3. f[(n - i) + 1][0] =
             Piece(text, i, f[n - i][0], f[n - i][1], f[n - i][2])
      BY <1>5, <3>1, Zenon
    <3>4. f[n - i][0] = g[i + 1] /\ f[n - i][1] = g[i + 2] /\ f[n - i][2] = g[i + 3]
      BY <1>6, <2>2, Zenon
    <3> HIDE DEF g
    <3> QED
      BY <3>2, <3>3, <3>4, Zenon
  <2> QED
    BY <1>1, <2>1, <2>2
<1>8. g = [i \in 1 .. n + 3 |-> g[i]]
    OBVIOUS
<1> HIDE DEF g
<1>9. g = [i \in 1 .. n + 3 |-> Piece(text, i, g[i + 1], g[i + 2], g[i + 3])]
    BY <1>7, <1>8
<1> QED
    BY <1>9, Zenon DEF Decodes, n

(* They are all bytes.                                                     *)
LEMMA DecodesTypes ==
    ASSUME NEW text \in Seq(Bytes), NEW decode, Decodes(text, decode)
    PROVE  decode[1] \in Seq(Bytes)
<1> DEFINE n == Len(text)
           Q == Seq(Bytes)
           T == { k \in Nat : \A i \in 1 .. n + 3 : n - k < i => decode[i] \in Q }
<1>1. n \in Nat /\ <<>> \in Q
    OBVIOUS
<1>2. ASSUME NEW i \in Nat \ {0}, NEW a \in Q, NEW b \in Q, NEW c \in Q
      PROVE  Piece(text, i, a, b, c) \in Q
    BY PieceType
<1>3. ASSUME NEW i \in 1 .. n + 3
      PROVE  decode[i] = Piece(text, i, decode[i + 1], decode[i + 2], decode[i + 3])
    BY Zenon DEF Decodes
<1>4. \A i \in 1 .. n + 3 : i > n => decode[i] \in Q
  <2>1. ASSUME NEW i \in 1 .. n + 3, i > n PROVE decode[i] = <<>>
    <3>1. PICK a, b, c : decode[i] = Piece(text, i, a, b, c)
      BY <1>3, Zenon
    <3> QED
      BY <2>1, <3>1, Zenon DEF Piece
  <2> QED
    BY <1>1, <2>1, Zenon
<1> HIDE DEF n, Q
<1>5. 0 \in T
    BY <1>1, <1>4
<1>6. ASSUME NEW k \in T PROVE k + 1 \in T
  <2>1. k \in Nat /\ \A i \in 1 .. n + 3 : n - k < i => decode[i] \in Q
    OBVIOUS
  <2>2. ASSUME NEW i \in 1 .. n + 3, n - (k + 1) < i PROVE decode[i] \in Q
    <3>1. CASE n - k < i
      BY <2>1, <3>1
    <3>2. CASE ~ (n - k < i)
      <4>1. /\ i + 1 \in 1 .. n + 3 /\ i + 2 \in 1 .. n + 3 /\ i + 3 \in 1 .. n + 3
            /\ n - k < i + 1 /\ n - k < i + 2 /\ n - k < i + 3 /\ i \in Nat \ {0}
        BY <1>1, <2>1, <2>2, <3>2
      <4>2. decode[i + 1] \in Q /\ decode[i + 2] \in Q /\ decode[i + 3] \in Q
        BY <2>1, <4>1, Zenon
      <4>3. Piece(text, i, decode[i + 1], decode[i + 2], decode[i + 3]) \in Q
        BY <1>2, <4>1, <4>2, Zenon
      <4> QED
        BY <1>3, <4>3, Zenon
    <3> QED
      BY <3>1, <3>2
  <2> QED
    BY <2>1, <2>2
<1>7. T = Nat
  <2> HIDE DEF T
  <2>1. T \subseteq Nat
    BY DEF T
  <2> QED
    BY <1>5, <1>6, <2>1, Induct
<1>8. 1 \in 1 .. n + 3 /\ n - n < 1
    BY <1>1
<1>9. n \in T
  <2> HIDE DEF T
  <2> QED
    BY <1>1, <1>7
<1> QED
    BY <1>8, <1>9, Zenon DEF Q

(* A text is decoded to bytes.                                             *)
LEMMA UrldecodeType ==
    ASSUME NEW text \in Seq(Bytes)
    PROVE  Urldecode(text) \in Seq(Bytes)
<1> DEFINE decode == CHOOSE d : Decodes(text, d)
<1>1. Decodes(text, decode)
    BY DecodesExists
<1>2. Urldecode(text) = decode[1]
    BY Zenon DEF Urldecode, Decodes, Piece
<1> HIDE DEF decode
<1> QED
    BY <1>1, <1>2, DecodesTypes, Zenon

(* Eight bits are those of a byte.                                         *)
LEMMA EightBits ==
    ASSUME NEW s \in Seq({0, 1}), Len(s) = 8
    PROVE  Number(s) \in Bytes
<1>1. s \in Seq(Nat)
    BY BitsAreNumbers, Zenon
<1>2. PICK number : Numbered(2, s, number) /\ Numeral(2, s) = number[Len(s)]
  <2>1. 2 \in Nat
    OBVIOUS
  <2> QED
    BY <1>1, <2>1, NumeralFacts
<1>3. ASSUME NEW i \in 0 .. 7, NEW m \in Nat, number[i] \in 0 .. m, NEW j, NEW n,
             j = i + 1, n = 2 * m + 1
      PROVE  number[j] \in 0 .. n
  <2>1. i \in 0 .. Len(s) - 1 /\ i + 1 \in 1 .. Len(s)
    OBVIOUS
  <2>2. number[i + 1] = 2 * number[i] + s[i + 1]
    BY <1>2, <2>1, Zenon DEF Numbered
  <2>3. s[i + 1] \in {0, 1}
    BY <2>1, Element, Zenon
  <2>4. \A x \in 0 .. m : \A y \in {0, 1} : 2 * x + y \in 0 .. 2 * m + 1
    OBVIOUS
  <2> QED
    BY <1>3, <2>2, <2>3, <2>4, Zenon
<1>4. number[0] \in 0 .. 0
  <2>1. number[0] = 0
    BY <1>2 DEF Numbered
  <2>2. 0 \in 0 .. 0
    OBVIOUS
  <2> QED
    BY <2>1, <2>2, Zenon
<1>5. number[1] \in 0 .. 1
  <2>1. 0 \in 0 .. 7 /\ 0 \in Nat /\ 1 = 0 + 1 /\ 1 = 2 * 0 + 1
    OBVIOUS
  <2> QED
    BY <1>3, <1>4, <2>1, Zenon
<1>6. number[2] \in 0 .. 3
  <2>1. 1 \in 0 .. 7 /\ 1 \in Nat /\ 2 = 1 + 1 /\ 3 = 2 * 1 + 1
    OBVIOUS
  <2> QED
    BY <1>3, <1>5, <2>1, Zenon
<1>7. number[3] \in 0 .. 7
  <2>1. 2 \in 0 .. 7 /\ 3 \in Nat /\ 3 = 2 + 1 /\ 7 = 2 * 3 + 1
    OBVIOUS
  <2> QED
    BY <1>3, <1>6, <2>1, Zenon
<1>8. number[4] \in 0 .. 15
  <2>1. 3 \in 0 .. 7 /\ 7 \in Nat /\ 4 = 3 + 1 /\ 15 = 2 * 7 + 1
    OBVIOUS
  <2> QED
    BY <1>3, <1>7, <2>1, Zenon
<1>9. number[5] \in 0 .. 31
  <2>1. 4 \in 0 .. 7 /\ 15 \in Nat /\ 5 = 4 + 1 /\ 31 = 2 * 15 + 1
    OBVIOUS
  <2> QED
    BY <1>3, <1>8, <2>1, Zenon
<1>10. number[6] \in 0 .. 63
  <2>1. 5 \in 0 .. 7 /\ 31 \in Nat /\ 6 = 5 + 1 /\ 63 = 2 * 31 + 1
    OBVIOUS
  <2>2. number[5 + 1] \in 0 .. 2 * 31 + 1
    BY <1>3, <1>9, <2>1, Zenon
  <2> QED
    BY <2>1, <2>2
<1>11. number[7] \in 0 .. 127
  <2>1. 6 \in 0 .. Len(s) - 1 /\ 6 + 1 = 7 /\ 7 \in 1 .. Len(s)
    OBVIOUS
  <2>2. number[7] = 2 * number[6] + s[7]
    BY <1>2, <2>1, Zenon DEF Numbered
  <2>3. s[7] \in {0, 1}
    BY <2>1, Element, Zenon
  <2>4. PICK x, y, z : x = number[6] /\ y = s[7] /\ z = number[7]
    BY Zenon
  <2>5. x \in 0 .. 63 /\ y \in {0, 1} /\ z = 2 * x + y
    BY <1>10, <2>2, <2>3, <2>4, Zenon
  <2>6. z \in 0 .. 127
    BY <2>5
  <2> QED
    BY <2>4, <2>6, Zenon
<1>12. number[8] \in Bytes
  <2>1. 7 \in 0 .. Len(s) - 1 /\ 7 + 1 = 8 /\ 8 \in 1 .. Len(s)
    OBVIOUS
  <2>2. number[8] = 2 * number[7] + s[8]
    BY <1>2, <2>1, Zenon DEF Numbered
  <2>3. s[8] \in {0, 1}
    BY <2>1, Element, Zenon
  <2>4. \A x \in 0 .. 127 : \A y \in {0, 1} : 2 * x + y \in Bytes
    BY DEF Bytes
  <2> QED
    BY <1>11, <2>2, <2>3, <2>4, Zenon
<1> QED
    BY <1>2, <1>12, Zenon DEF Number

(* The bits of a chunk of characters, five of each.                        *)
LEMMA ChunkBits ==
    ASSUME NEW chunk \in Seq(Bytes), chunk # <<>>
    PROVE  LET bits == FlattenSeq([i \in DOMAIN chunk |-> BitsOf(Base32(chunk[i]), 5)])
           IN  /\ bits \in Seq({0, 1}) /\ Len(bits) = 5 * Len(chunk)
               /\ \A i \in 1 .. Len(chunk) : \A l \in 1 .. 5 :
                      bits[5 * (i - 1) + l] = BitsOf(Base32(chunk[i]), 5)[l]
<1> DEFINE seqs == [i \in DOMAIN chunk |-> BitsOf(Base32(chunk[i]), 5)]
           n == Len(chunk)
           B == {0, 1}
           Q == Seq(B)
<1>1. /\ n \in Nat \ {0} /\ DOMAIN chunk = 1 .. n
      /\ \A i \in 1 .. n : chunk[i] \in Bytes
    OBVIOUS
<1>2. \A x \in Bytes : Base32(x) \in Int
    BY DEF Bytes, Base32
<1>3. 5 \in 1 .. 8 /\ 5 \in Nat
    OBVIOUS
<1>4. ASSUME NEW i \in 1 .. n PROVE seqs[i] \in Q /\ Len(seqs[i]) = 5
  <2>1. seqs[i] = BitsOf(Base32(chunk[i]), 5)
    BY <1>1, Zenon
  <2>2. Base32(chunk[i]) \in Int
    BY <1>1, <1>2, Zenon
  <2> HIDE DEF seqs
  <2>3. PICK x \in Int : x = Base32(chunk[i])
    BY <2>2, Zenon
  <2>4. BitsOf(x, 5) \in Q /\ Len(BitsOf(x, 5)) = 5
    BY <1>3, BitsFacts, Zenon
  <2> QED
    BY <2>1, <2>3, <2>4, Zenon
<1>5. seqs = [i \in 1 .. n |-> seqs[i]]
  <2>1. \A i \in 1 .. n : seqs[i] = BitsOf(Base32(chunk[i]), 5)
    BY <1>1, Zenon
  <2>2. seqs = [i \in 1 .. n |-> BitsOf(Base32(chunk[i]), 5)]
    BY <1>1
  <2> QED
    BY <2>1, <2>2, Zenon
<1> HIDE DEF seqs, Q, n
<1>6. seqs \in Seq(Q) /\ Len(seqs) = n /\ seqs # <<>>
  <2>1. seqs \in [1 .. n -> Q]
    BY <1>4, <1>5
  <2> QED
    BY <1>1, <2>1
<1> HIDE DEF B
<1>7. /\ FlattenSeq(seqs) \in Seq(B) /\ Len(FlattenSeq(seqs)) = 5 * Len(seqs)
      /\ \A k \in 1 .. Len(seqs) : \A l \in 1 .. 5 :
             FlattenSeq(seqs)[5 * (k - 1) + l] = seqs[k][l]
  <2>1. AllLong(seqs, 5)
    BY <1>4, <1>6, Zenon DEF AllLong
  <2>2. seqs \in Seq(Seq(B)) /\ seqs # <<>>
    BY <1>6, Zenon DEF Q
  <2>3. LaidEvenly(FlattenSeq(seqs), B, seqs, 5)
    BY <1>3, <2>1, <2>2, FlattenEven, Zenon
  <2> QED
    BY <2>3, Zenon DEF LaidEvenly
<1>8. \A i \in 1 .. n : \A l \in 1 .. 5 :
          FlattenSeq(seqs)[5 * (i - 1) + l] = BitsOf(Base32(chunk[i]), 5)[l]
  <2> SUFFICES ASSUME NEW i \in 1 .. n, NEW l \in 1 .. 5
               PROVE  FlattenSeq(seqs)[5 * (i - 1) + l] = BitsOf(Base32(chunk[i]), 5)[l]
    OBVIOUS
  <2>1. seqs[i] = BitsOf(Base32(chunk[i]), 5)
    BY <1>1, Zenon DEF seqs
  <2>2. FlattenSeq(seqs)[5 * (i - 1) + l] = seqs[i][l]
    BY <1>6, <1>7, Zenon
  <2> QED
    BY <2>1, <2>2, Zenon
<1> QED
    BY <1>6, <1>7, <1>8, Zenon DEF seqs, n, B

(* A chunk is decoded to bytes.                                            *)
LEMMA DecodeChunkType ==
    ASSUME NEW chunk \in Seq(Bytes)
    PROVE  DecodeChunk(chunk) \in Seq(Bytes)
<1> DEFINE n     == BytesIn(Len(chunk))
           value == FlattenSeq([i \in DOMAIN chunk |-> BitsOf(Base32(chunk[i]), 5)])
           kept  == Toss(value, 8 * n)
           B     == {0, 1}
<1>1. n \in 0 .. 5 /\ (n # 0 => chunk # <<>> /\ 8 * n <= 5 * Len(chunk))
  <2>1. Len(chunk) \in Nat /\ (Len(chunk) # 0 => chunk # <<>>)
    OBVIOUS
  <2>2. ASSUME NEW l \in Nat
        PROVE  /\ BytesIn(l) \in 0 .. 5
               /\ BytesIn(l) # 0 => l # 0 /\ 8 * BytesIn(l) <= 5 * l
    <3>1. CASE l = 2
      BY <3>1 DEF BytesIn
    <3>2. CASE l = 4
      BY <3>2 DEF BytesIn
    <3>3. CASE l = 5
      BY <3>3 DEF BytesIn
    <3>4. CASE l = 7
      BY <3>4 DEF BytesIn
    <3>5. CASE l = 8
      BY <3>5 DEF BytesIn
    <3>6. CASE l \notin {2, 4, 5, 7, 8}
      BY <3>6 DEF BytesIn
    <3> QED
      BY <3>1, <3>2, <3>3, <3>4, <3>5, <3>6
  <2> QED
    BY <2>1, <2>2, Zenon
<1>2. DecodeChunk(chunk) = [j \in 1 .. n |-> Number(SubSeq(kept, 8 * j - 7, 8 * j))]
    BY DEF DecodeChunk
<1> HIDE DEF n
<1>3. ASSUME NEW j \in 1 .. n
      PROVE  Number(SubSeq(kept, 8 * j - 7, 8 * j)) \in Bytes
  <2>1. chunk # <<>> /\ 8 * n <= 5 * Len(chunk) /\ n \in Nat
    BY <1>1
  <2>2. value \in Seq(B) /\ Len(value) = 5 * Len(chunk)
    BY <2>1, ChunkBits, Zenon
  <2> HIDE DEF value, B
  <2>3. kept \in Seq(B) /\ Len(kept) = 8 * n
    <3>1. /\ 0 \in Nat /\ 8 * n \in Nat /\ 0 + 8 * n <= Len(value)
          /\ 0 + 1 = 1 /\ 0 + 8 * n = 8 * n
      BY <2>1, <2>2
    <3>2. kept = SubSeq(value, 0 + 1, 0 + 8 * n)
      BY <3>1, Zenon DEF Toss
    <3> HIDE DEF kept
    <3>3. SubSeq(value, 0 + 1, 0 + 8 * n) \in Seq(B)
      BY <2>2, <3>1, Part
    <3>4. Len(SubSeq(value, 0 + 1, 0 + 8 * n)) = 8 * n
      BY <2>2, <3>1, Part
    <3> QED
      BY <3>2, <3>3, <3>4, Zenon
  <2> HIDE DEF kept
  <2>4. /\ 8 * (j - 1) \in Nat /\ 8 \in Nat /\ 8 * (j - 1) + 8 <= Len(kept)
        /\ 8 * (j - 1) + 1 = 8 * j - 7 /\ 8 * (j - 1) + 8 = 8 * j
    BY <2>1, <2>3
  <2> DEFINE s == SubSeq(kept, 8 * (j - 1) + 1, 8 * (j - 1) + 8)
  <2>5. s \in Seq(B) /\ Len(s) = 8
    <3>1. s \in Seq(B)
      BY <2>3, <2>4, Part
    <3>2. Len(s) = 8
      BY <2>3, <2>4, Part
    <3> QED
      BY <3>1, <3>2, Zenon
  <2>6. s = SubSeq(kept, 8 * j - 7, 8 * j)
    BY <2>4, Zenon
  <2> HIDE DEF s
  <2>7. Number(s) \in Bytes
    BY <2>5, EightBits, Zenon DEF B
  <2> QED
    BY <2>6, <2>7, Zenon
<1> HIDE DEF kept
<1>4. DecodeChunk(chunk) \in [1 .. n -> Bytes]
    BY <1>2, <1>3
<1>5. n \in Nat
    BY <1>1
<1> QED
    BY <1>4, <1>5

(* A text of base 32 is decoded to bytes.                                  *)
LEMMA DecodeBase32Type ==
    ASSUME NEW text \in Seq(Bytes)
    PROVE  DecodeBase32(text) \in Seq(Bytes)
<1> DEFINE c == (Len(text) + 7) \div 8
           seqs == [k \in DOMAIN Chunks(text) |-> DecodeChunk(Chunk(text, k))]
           Q == Seq(Bytes)
<1>1. Len(text) \in Nat /\ c \in Nat /\ 8 * c <= Len(text) + 7
  <2>1. Len(text) \in Nat
    OBVIOUS
  <2>2. \A x \in Nat : (x + 7) \div 8 \in Nat /\ 8 * ((x + 7) \div 8) <= x + 7
    OBVIOUS
  <2> QED
    BY <2>1, <2>2, Zenon
<1>2. DOMAIN Chunks(text) = 1 .. c
    BY Zenon DEF Chunks
<1> HIDE DEF c
<1>3. ASSUME NEW k \in 1 .. c PROVE Chunk(text, k) \in Seq(Bytes)
  <2> DEFINE u == IF 8 * k < Len(text) THEN 8 * k ELSE Len(text)
             m == 8 * k - 8
             l == u - m
  <2>1. /\ m \in Nat /\ l \in Nat /\ m + l <= Len(text)
        /\ m + 1 = 8 * k - 7 /\ m + l = u
    <3>1. 8 * k <= Len(text) + 7
      BY <1>1
    <3>2. CASE 8 * k < Len(text)
      BY <1>1, <3>2
    <3>3. CASE ~ (8 * k < Len(text))
      BY <1>1, <3>1, <3>3
    <3> QED
      BY <3>2, <3>3
  <2>2. Chunk(text, k) = SubSeq(text, 8 * k - 7, u)
    BY Zenon DEF Chunk
  <2> HIDE DEF u, m, l
  <2>3. SubSeq(text, m + 1, m + l) \in Seq(Bytes)
    BY <2>1, Part, Zenon
  <2> QED
    BY <2>1, <2>2, <2>3, Zenon
<1>4. ASSUME NEW k \in 1 .. c PROVE DecodeChunk(Chunk(text, k)) \in Q
    BY <1>3, DecodeChunkType, Zenon
<1> HIDE DEF Q
<1>5. seqs = [k \in 1 .. c |-> DecodeChunk(Chunk(text, k))]
    BY <1>2, Zenon
<1>6. DecodeBase32(text) = FlattenSeq(seqs)
    BY DEF DecodeBase32
<1> HIDE DEF seqs
<1>7. seqs \in Seq(Q)
  <2>1. seqs \in [1 .. c -> Q]
    BY <1>4, <1>5
  <2> QED
    BY <1>1, <2>1
<1>8. FlattenSeq(seqs) \in Seq(Bytes)
    BY <1>7, FlattenType, Zenon DEF Q
<1> QED
    BY <1>6, <1>8, Zenon

-----------------------------------------------------------------------------
(* Types.                                                                  *)

(* Every text that is read is one of bytes.                                *)
LEMMA ReadType ==
    ASSUME NEW p \in Properties, p.name \in {"secret", "issuer"}
    PROVE  Urldecode(p.value) \in Seq(0 .. 255)
<1>1. p.value \in Seq(Bytes)
    BY PropertiesAssumption, Zenon DEF Bytes
<1>2. Urldecode(p.value) \in Seq(Bytes)
    BY <1>1, UrldecodeType, Zenon
<1> QED
    BY <1>2, Zenon DEF Bytes

(* What the proof that types are kept has besides the types.               *)
TypesInv == TotpTypeOK /\ UrlInv /\ ArgumentsInv

(* Initially nothing was read.                                             *)
LEMMA TypesInitially == Init => TypesInv
<1> SUFFICES ASSUME Init PROVE TypesInv
    OBVIOUS
<1>1. UrlInv /\ ArgumentsInv
    BY UrlInitially, ArgumentsInitially
<1>2. TotpTypeOK
    BY <1>1 DEF Init, TotpTypeOK, Option, UrlInv
<1> QED
    BY <1>1, <1>2 DEF TypesInv

(* What is read has its type.                                              *)
LEMMA ReadPropertyType ==
    ASSUME TypesInv, ReadProperty
    PROVE  TotpTypeOK'
<1> DEFINE p    == url[at + 1]
           text == Urldecode(p.value)
<1>1. UrlInv' /\ p \in Properties
  <2>1. UrlInv /\ [Next]_vars
    BY DEF TypesInv, Next
  <2> QED
    BY <2>1, UrlStep, ReadSays
<1>2. secret' = Unset \/ secret'[2] \in Seq(0 .. 255)
  <2>1. \/ secret' = secret
        \/ p.name = "secret" /\ IsUtf8(text) /\ secret' = Some(text)
    BY DEF ReadProperty, Assign
  <2>2. p.name = "secret" => text \in Seq(0 .. 255)
    BY <1>1, ReadType, Zenon
  <2>3. Some(text)[2] = text
    BY DEF Some
  <2> HIDE DEF text, p
  <2>4. secret = Unset \/ secret[2] \in Seq(0 .. 255)
    BY DEF TypesInv, TotpTypeOK
  <2> QED
    BY <2>1, <2>2, <2>3, <2>4, Zenon
<1>3. attrib_issuer' = Unset \/ attrib_issuer'[2] \in Seq(0 .. 255)
  <2>1. \/ attrib_issuer' = attrib_issuer
        \/ p.name = "issuer" /\ IsUtf8(text) /\ attrib_issuer' = Some(text)
    BY DEF ReadProperty, Assign
  <2>2. p.name = "issuer" => text \in Seq(0 .. 255)
    BY <1>1, ReadType, Zenon
  <2>3. Some(text)[2] = text
    BY DEF Some
  <2> HIDE DEF text, p
  <2>4. attrib_issuer = Unset \/ attrib_issuer[2] \in Seq(0 .. 255)
    BY DEF TypesInv, TotpTypeOK
  <2> QED
    BY <2>1, <2>2, <2>3, <2>4, Zenon
<1>4. digits' \in Option(6 .. 8)
  <2>1. \/ digits' = digits
        \/ p.value \in 6 .. 8 /\ digits' = Some(p.value)
    BY DEF ReadProperty, Assign, DigitsAllowed
  <2> HIDE DEF p
  <2> QED
    BY <2>1, Zenon DEF TypesInv, TotpTypeOK, Option
<1>5. period_seconds' = Unset \/ period_seconds'[2] > 0
  <2>1. \/ period_seconds' = period_seconds
        \/ p.value > 0 /\ period_seconds' = Some(p.value)
    BY DEF ReadProperty, Assign
  <2>2. Some(p.value)[2] = p.value
    BY DEF Some
  <2> HIDE DEF p
  <2> QED
    BY <2>1, <2>2, Zenon DEF TypesInv, TotpTypeOK
<1>6. step' \in {"url", "refused"} /\ UNCHANGED << key, hmac, code >>
    BY DEF ReadProperty
<1>7. at' \in 0 .. Len(url')
    BY <1>1 DEF UrlInv
<1> HIDE DEF p, text
<1>8. /\ step' \in {"url", "algorithm", "hmac", "truncate", "copied", "refused",
                    "panicked"}
      /\ key' \in Seq(0 .. 255) /\ hmac' \in Seq(0 .. 255) /\ code' \in Seq(0 .. 9)
    BY <1>6, Zenon DEF TypesInv, TotpTypeOK
<1> QED
    BY <1>2, <1>3, <1>4, <1>5, <1>7, <1>8, Zenon DEF TotpTypeOK

(* What the other steps leave alone has its type.                          *)
LEMMA ParamsType ==
    ASSUME TypesInv, UNCHANGED << url, at, params >>
    PROVE  /\ at' \in 0 .. Len(url')
           /\ (secret' = Unset \/ secret'[2] \in Seq(0 .. 255))
           /\ (attrib_issuer' = Unset \/ attrib_issuer'[2] \in Seq(0 .. 255))
           /\ digits' \in Option(6 .. 8)
           /\ (period_seconds' = Unset \/ period_seconds'[2] > 0)
    BY Zenon DEF TypesInv, TotpTypeOK, params

(* A code is of decimal digits.                                            *)
LEMMA CodeType ==
    ASSUME ArgumentsInv, CopyCode
    PROVE  code' \in Seq(0 .. 9)
<1>1. hmac \in Seq(0 .. 255) /\ Len(hmac) >= 20
    BY DEF ArgumentsInv, CopyCode
<1>2. Digits \in 6 .. 8
    BY ArgumentsAllowed
<1>3. Truncated % 10 ^ Digits \in 0 .. 10 ^ Digits - 1
  <2> DEFINE o == hmac[Len(hmac)] % 16
  <2>1. o \in Nat /\ o + 4 <= Len(hmac)
    BY <1>1, OffsetIn, Zenon
  <2>2. Truncated = BigEndian31(SubSeq(hmac, o + 1, o + 4))
    BY Zenon DEF Truncated, Last
  <2> HIDE DEF o
  <2>3. Truncated \in Int
    BY <1>1, <2>1, <2>2, BigEndianType, Zenon
  <2> QED
    BY <1>2, <2>3, DecimalRemainder, Zenon
<1>4. code' = FormatCode(Truncated % 10 ^ Digits, Digits)
    BY DEF CopyCode, Width
<1> QED
    BY <1>2, <1>3, <1>4, FormatRead, Zenon

(* Every step keeps the types.                                             *)
LEMMA TypesStep ==
    ASSUME TypesInv, [Next]_vars
    PROVE  TypesInv'
<1>1. UrlInv' /\ ArgumentsInv'
    BY UrlStep, ArgumentsStep DEF TypesInv
<1>2. TotpTypeOK'
  <2> DEFINE Steps == {"url", "algorithm", "hmac", "truncate", "copied",
                       "refused", "panicked"}
  <2> SUFFICES ASSUME ~ ReadProperty PROVE TotpTypeOK'
    BY ReadPropertyType
  <2>1. UNCHANGED << url, at, params >>
    BY DEF Next, DecodeSecret, ResolveAlgorithm, Hash, CopyCode, vars
  <2>2. step' \in Steps
    BY DEF Next, DecodeSecret, ResolveAlgorithm, Hash, CopyCode, vars,
           TypesInv, TotpTypeOK
  <2> HIDE DEF Steps
  <2>3. key' \in Seq(0 .. 255)
    <3>1. CASE DecodeSecret /\ secret # Unset
      <4>1. secret[2] \in Seq(0 .. 255)
        BY <3>1 DEF TypesInv, TotpTypeOK
      <4>2. DecodeBase32(secret[2]) \in Seq(0 .. 255)
        BY <4>1, DecodeBase32Type, Zenon DEF Bytes
      <4>3. key' = DecodeBase32(secret[2]) \/ UNCHANGED key
        BY <3>1 DEF DecodeSecret
      <4> QED
        BY <4>2, <4>3, Zenon DEF TypesInv, TotpTypeOK
    <3>2. CASE ~ (DecodeSecret /\ secret # Unset)
      <4>1. UNCHANGED key
        BY <3>2 DEF Next, DecodeSecret, ResolveAlgorithm, Hash, CopyCode, vars
      <4> QED
        BY <4>1, Zenon DEF TypesInv, TotpTypeOK
    <3> QED
      BY <3>1, <3>2
  <2>4. hmac' \in Seq(0 .. 255)
    <3>1. CASE step' = "truncate"
      BY <1>1, <3>1 DEF ArgumentsInv
    <3>2. CASE step' # "truncate"
      <4>1. UNCHANGED hmac
        BY <3>2 DEF Next, DecodeSecret, ResolveAlgorithm, Hash, CopyCode, vars
      <4> QED
        BY <4>1, Zenon DEF TypesInv, TotpTypeOK
    <3> QED
      BY <3>1, <3>2
  <2>5. code' \in Seq(0 .. 9)
    <3>1. CASE CopyCode
      BY <3>1, CodeType DEF TypesInv
    <3>2. CASE ~ CopyCode
      <4>1. UNCHANGED code
        BY <3>2 DEF Next, DecodeSecret, ResolveAlgorithm, Hash, vars
      <4> QED
        BY <4>1, Zenon DEF TypesInv, TotpTypeOK
    <3> QED
      BY <3>1, <3>2
  <2> QED
    BY <2>1, <2>2, <2>3, <2>4, <2>5, ParamsType, Zenon DEF TotpTypeOK, Steps
<1> QED
    BY <1>1, <1>2 DEF TypesInv

(* What is decoded, hashed and copied are texts and bytes, whatever the    *)
(* URL, escapes that are none and characters out of place included.        *)
THEOREM TypesKept == Spec => []TotpTypeOK
<1>1. TypesInv => TotpTypeOK
    BY DEF TypesInv
<1> QED
    BY <1>1, TypesInitially, TypesStep, PTL DEF Spec

-----------------------------------------------------------------------------
(* Base 32.                                                                *)

(* Five bits are those of the number that they are read as.                *)
LEMMA FiveBits ==
    ASSUME NEW s \in Seq({0, 1}), Len(s) = 5
    PROVE  /\ Number(s) \in 0 .. 31
           /\ \A l \in 1 .. 5 : BitsOf(Number(s), 5)[l] = s[l]
<1>1. s \in Seq(Nat)
    BY BitsAreNumbers, Zenon
<1>2. PICK number : Numbered(2, s, number) /\ Numeral(2, s) = number[Len(s)]
  <2>1. 2 \in Nat
    OBVIOUS
  <2> QED
    BY <1>1, <2>1, NumeralFacts
<1>3. PICK a, b, c, d, e :
          s[1] = a /\ s[2] = b /\ s[3] = c /\ s[4] = d /\ s[5] = e
    BY Zenon
<1>4. a \in {0, 1} /\ b \in {0, 1} /\ c \in {0, 1} /\ d \in {0, 1} /\ e \in {0, 1}
  <2>1. /\ 1 \in 1 .. Len(s) /\ 2 \in 1 .. Len(s) /\ 3 \in 1 .. Len(s)
        /\ 4 \in 1 .. Len(s) /\ 5 \in 1 .. Len(s)
    OBVIOUS
  <2> QED
    BY <1>3, <2>1, Element, Zenon
<1>5. PICK n : n = 16 * a + 8 * b + 4 * c + 2 * d + e
    BY Zenon
<1>6. Number(s) = n
  <2>1. /\ number[0] = 0
        /\ \A i \in 0 .. Len(s) - 1 : number[i + 1] = 2 * number[i] + s[i + 1]
    BY <1>2, Zenon DEF Numbered
  <2>2. /\ 0 \in 0 .. Len(s) - 1 /\ 1 \in 0 .. Len(s) - 1 /\ 2 \in 0 .. Len(s) - 1
        /\ 3 \in 0 .. Len(s) - 1 /\ 4 \in 0 .. Len(s) - 1
        /\ 0 + 1 = 1 /\ 1 + 1 = 2 /\ 2 + 1 = 3 /\ 3 + 1 = 4 /\ 4 + 1 = 5
    OBVIOUS
  <2>3. PICK n1, n2, n3, n4, n5 :
            /\ n1 = number[1] /\ n2 = number[2] /\ n3 = number[3]
            /\ n4 = number[4] /\ n5 = number[5]
    BY Zenon
  <2>4. /\ n1 = 2 * 0 + a /\ n2 = 2 * n1 + b /\ n3 = 2 * n2 + c
        /\ n4 = 2 * n3 + d /\ n5 = 2 * n4 + e
    <3>1. n1 = 2 * 0 + a
      BY <1>3, <2>1, <2>2, <2>3, Zenon
    <3>2. n2 = 2 * n1 + b
      BY <1>3, <2>1, <2>2, <2>3, Zenon
    <3>3. n3 = 2 * n2 + c
      BY <1>3, <2>1, <2>2, <2>3, Zenon
    <3>4. n4 = 2 * n3 + d
      BY <1>3, <2>1, <2>2, <2>3, Zenon
    <3>5. n5 = 2 * n4 + e
      BY <1>3, <2>1, <2>2, <2>3, Zenon
    <3> QED
      BY <3>1, <3>2, <3>3, <3>4, <3>5
  <2>5. n5 = n
    BY <1>4, <1>5, <2>4
  <2> QED
    BY <1>2, <2>3, <2>5, Zenon DEF Number
<1>7. n \in 0 .. 31
    BY <1>4, <1>5
<1>8. ASSUME NEW l \in 1 .. 5 PROVE (n \div 2 ^ (5 - l)) % 2 = s[l]
  <2>1. CASE l = 1
    <3>1. (n \div 2 ^ (5 - 1)) % 2 = a
      BY <1>4, <1>5, SMT
    <3> QED
      BY <1>3, <2>1, <3>1, Zenon
  <2>2. CASE l = 2
    <3>1. (n \div 2 ^ (5 - 2)) % 2 = b
      BY <1>4, <1>5, SMT
    <3> QED
      BY <1>3, <2>2, <3>1, Zenon
  <2>3. CASE l = 3
    <3>1. (n \div 2 ^ (5 - 3)) % 2 = c
      BY <1>4, <1>5, SMT
    <3> QED
      BY <1>3, <2>3, <3>1, Zenon
  <2>4. CASE l = 4
    <3>1. (n \div 2 ^ (5 - 4)) % 2 = d
      BY <1>4, <1>5, SMT
    <3> QED
      BY <1>3, <2>4, <3>1, Zenon
  <2>5. CASE l = 5
    <3>1. (n \div 2 ^ (5 - 5)) % 2 = e
      BY <1>4, <1>5, SMT
    <3> QED
      BY <1>3, <2>5, <3>1, Zenon
  <2> QED
    BY <2>1, <2>2, <2>3, <2>4, <2>5
<1>9. \A l \in 1 .. 5 : BitsOf(n, 5)[l] = (n \div 2 ^ (5 - l)) % 2
  <2>1. n \in Int /\ 5 \in 1 .. 8
    BY <1>7
  <2> QED
    BY <2>1, BitsFacts, Zenon
<1> QED
    BY <1>6, <1>7, <1>8, <1>9, Zenon

(* A character that is read as a number, and is no escape.                 *)
ReadAs(x, n) == x \in 0 .. 127 /\ x # 37 /\ x # 43 /\ Base32(x) = n

(* The letter of a number, small or capital, is read as it.                *)
LEMMA LetterBack ==
    ASSUME NEW n \in 0 .. 31, NEW first \in {65, 97}
    PROVE  ReadAs(Letter(n, first), n)
<1>1. CASE first = 65
  <2>1. CASE n < 26
    BY <1>1, <2>1 DEF ReadAs, Letter, Base32
  <2>2. CASE ~ (n < 26)
    BY <1>1, <2>2 DEF ReadAs, Letter, Base32
  <2> QED
    BY <2>1, <2>2
<1>2. CASE first = 97
  <2>1. CASE n < 26
    BY <1>2, <2>1 DEF ReadAs, Letter, Base32
  <2>2. CASE ~ (n < 26)
    BY <1>2, <2>2 DEF ReadAs, Letter, Base32
  <2> QED
    BY <2>1, <2>2
<1> QED
    BY <1>1, <1>2

(* The characters of a text carry bits, five each.                         *)
Carries(text, fill, chars) ==
    /\ text \in Seq(0 .. 127) /\ Len(text) = chars
    /\ \A c \in 1 .. chars :
           /\ text[c] # 37 /\ text[c] # 43 /\ Base32(text[c]) \in 0 .. 31
           /\ \A l \in 1 .. 5 :
                  BitsOf(Base32(text[c]), 5)[l] = fill[5 * (c - 1) + l]

(* A text of letters that stand for the bits, five by five, does.          *)
LEMMA LettersCarry ==
    ASSUME NEW chars \in Nat, NEW fill \in Seq({0, 1}), Len(fill) = 5 * chars,
           NEW first \in {65, 97}
    PROVE  Carries([c \in 1 .. chars |->
                       Letter(Number(SubSeq(fill, 5 * c - 4, 5 * c)), first)],
                   fill, chars)
<1> DEFINE text == [c \in 1 .. chars |->
                       Letter(Number(SubSeq(fill, 5 * c - 4, 5 * c)), first)]
           B == {0, 1}
<1>1. ASSUME NEW c \in 1 .. chars
      PROVE  /\ text[c] \in 0 .. 127 /\ text[c] # 37 /\ text[c] # 43
             /\ Base32(text[c]) \in 0 .. 31
             /\ \A l \in 1 .. 5 :
                    BitsOf(Base32(text[c]), 5)[l] = fill[5 * (c - 1) + l]
  <2> DEFINE s == SubSeq(fill, 5 * (c - 1) + 1, 5 * (c - 1) + 5)
  <2>1. /\ 5 * (c - 1) \in Nat /\ 5 \in Nat /\ 5 * (c - 1) + 5 <= Len(fill)
        /\ 5 * (c - 1) + 1 = 5 * c - 4 /\ 5 * (c - 1) + 5 = 5 * c
    OBVIOUS
  <2>2. fill \in Seq(B)
    OBVIOUS
  <2> HIDE DEF B
  <2>3. s \in Seq(B)
    BY <2>1, <2>2, Part
  <2>4. Len(s) = 5
    BY <2>1, <2>2, Part
  <2>5. \A l \in 1 .. 5 : s[l] = fill[5 * (c - 1) + l]
    BY <2>1, <2>2, Part
  <2>6. text[c] = Letter(Number(s), first)
    BY <2>1, Zenon
  <2> HIDE DEF s, text
  <2>7. Number(s) \in 0 .. 31 /\ \A l \in 1 .. 5 : BitsOf(Number(s), 5)[l] = s[l]
    BY <2>3, <2>4, FiveBits, Zenon DEF B
  <2>8. PICK n : n = Number(s)
    BY Zenon
  <2>9. n \in 0 .. 31
    BY <2>7, <2>8, Zenon
  <2>10. ReadAs(Letter(n, first), n)
    BY <2>9, LetterBack, Zenon
  <2>11. /\ text[c] \in 0 .. 127 /\ text[c] # 37 /\ text[c] # 43
         /\ Base32(text[c]) = n
    BY <2>6, <2>8, <2>10, Zenon DEF ReadAs
  <2>12. \A l \in 1 .. 5 :
            BitsOf(Base32(text[c]), 5)[l] = fill[5 * (c - 1) + l]
    <3>1. Base32(text[c]) = Number(s)
      BY <2>8, <2>11, Zenon
    <3>2. \A l \in 1 .. 5 : BitsOf(Base32(text[c]), 5)[l] = s[l]
      BY <2>7, <3>1
    <3> QED
      BY <2>5, <3>2, Zenon
  <2> QED
    BY <2>9, <2>11, <2>12, Zenon
<1>2. text = [c \in 1 .. chars |-> text[c]]
    OBVIOUS
<1> HIDE DEF text
<1>3. text \in Seq(0 .. 127) /\ Len(text) = chars
  <2> DEFINE S == 0 .. 127
  <2>1. \A c \in 1 .. chars : text[c] \in S
    BY <1>1
  <2> HIDE DEF S
  <2>2. text \in [1 .. chars -> S]
    BY <1>2, <2>1
  <2>3. text \in Seq(S) /\ Len(text) = chars
    BY <2>2
  <2> QED
    BY <2>3 DEF S
<1>4. Carries(text, fill, chars)
  <2>1. ASSUME NEW c \in 1 .. chars
        PROVE  /\ text[c] # 37 /\ text[c] # 43 /\ Base32(text[c]) \in 0 .. 31
               /\ \A l \in 1 .. 5 :
                      BitsOf(Base32(text[c]), 5)[l] = fill[5 * (c - 1) + l]
    BY <1>1
  <2> QED
    BY <1>3, <2>1, Zenon DEF Carries
<1> QED
    BY <1>4 DEF text

(* The bits of a key, filled up with zeros.                                *)
Fills(fill, k, chars) ==
    /\ chars = (8 * Len(k) + 4) \div 5 /\ chars \in Nat
    /\ fill \in Seq({0, 1}) /\ Len(fill) = 5 * chars /\ 8 * Len(k) <= 5 * chars
    /\ \A q \in 1 .. Len(k) : \A i \in 1 .. 8 :
           fill[8 * (q - 1) + i] = (k[q] \div 2 ^ (8 - i)) % 2

(* A key is encoded as a text that carries them.                           *)
LEMMA EncodedCarries ==
    ASSUME NEW k \in Seq(Bytes), Len(k) >= 1, NEW first \in {65, 97}
    PROVE  \E fill, chars : /\ Fills(fill, k, chars)
                            /\ Carries(Encode32(k, first), fill, chars)
<1> DEFINE bits  == BitString(k)
           L     == Len(k)
           chars == (8 * L + 4) \div 5
           rest  == 5 * chars - 8 * L
           zeros == [i \in 1 .. rest |-> 0]
           fill  == bits \o zeros
           B     == {0, 1}
<1>1. /\ bits \in Seq(B) /\ Len(bits) = 8 * L
      /\ \A q \in 1 .. L : \A i \in 1 .. 8 :
             bits[8 * (q - 1) + i] = (k[q] \div 2 ^ (8 - i)) % 2
    BY BitStringFacts, Zenon DEF IsBitString, Bytes
<1>2. L \in Nat /\ chars \in Nat /\ rest \in Nat /\ 8 * L + rest = 5 * chars
  <2>1. L \in Nat
    OBVIOUS
  <2>2. \A x \in Nat : /\ (8 * x + 4) \div 5 \in Nat
                       /\ 5 * ((8 * x + 4) \div 5) - 8 * x \in Nat
                       /\ 8 * x + (5 * ((8 * x + 4) \div 5) - 8 * x)
                            = 5 * ((8 * x + 4) \div 5)
    OBVIOUS
  <2> QED
    BY <2>1, <2>2, Zenon
<1>3. zeros \in Seq(B) /\ Len(zeros) = rest
  <2>1. zeros \in [1 .. rest -> B]
    OBVIOUS
  <2> HIDE DEF rest, B, zeros
  <2> QED
    BY <1>2, <2>1
<1>4. Encode32(k, first) = [c \in 1 .. chars |->
          Letter(Number(SubSeq(fill, 5 * c - 4, 5 * c)), first)]
    BY <1>1, Zenon DEF Encode32, BitString
<1> HIDE DEF bits, zeros, chars, rest, B
<1>5. /\ fill \in Seq(B) /\ Len(fill) = Len(bits) + Len(zeros)
      /\ \A i \in 1 .. Len(bits) : fill[i] = bits[i]
  <2>1. bits \in Seq(B) /\ zeros \in Seq(B)
    BY <1>1, <1>3, Zenon
  <2>2. fill \in Seq(B)
    BY <2>1, Concatenation
  <2>3. Len(fill) = Len(bits) + Len(zeros)
    BY <2>1, Concatenation
  <2>4. \A i \in 1 .. Len(bits) : fill[i] = bits[i]
    BY <2>1, Concatenation
  <2> QED
    BY <2>2, <2>3, <2>4, Zenon
<1> HIDE DEF fill
<1>6. Len(fill) = 5 * chars
    BY <1>1, <1>2, <1>3, <1>5, Zenon
<1>7. Carries(Encode32(k, first), fill, chars)
    BY <1>2, <1>4, <1>5, <1>6, LettersCarry, Zenon DEF B
<1>8. ASSUME NEW q \in 1 .. L, NEW i \in 1 .. 8
      PROVE  fill[8 * (q - 1) + i] = (k[q] \div 2 ^ (8 - i)) % 2
  <2>1. 8 * (q - 1) + i \in 1 .. Len(bits)
    <3>1. Len(bits) = 8 * L /\ L \in Nat
      BY <1>1, <1>2, Zenon
    <3> QED
      BY <3>1
  <2>2. fill[8 * (q - 1) + i] = bits[8 * (q - 1) + i]
    BY <1>5, <2>1, Zenon
  <2> QED
    BY <1>1, <2>2, Zenon
<1>9. 8 * L <= 5 * chars
    BY <1>2
<1>10. Fills(fill, k, chars)
    BY <1>2, <1>5, <1>6, <1>8, <1>9, Zenon DEF Fills, B, chars
<1> QED
    BY <1>7, <1>10

(* A chunk of w characters, the one numbered m, has n bytes of L.          *)
Sizes(L, chars, m, w, n) ==
    /\ w \in 1 .. 8 /\ n \in 1 .. 5 /\ n = BytesIn(w) /\ 8 * n <= 5 * w
    /\ 8 * (m - 1) + w <= chars /\ 5 * (m - 1) + n <= L
    /\ 8 * (m - 1) + w = IF 8 * m < chars THEN 8 * m ELSE chars

(* How L bytes are cut into chunks of five, and the rest of one to five.   *)
Cut(L, chars, c, q, r, w) ==
    /\ c = q + 1 /\ L = 5 * q + r
    /\ \A m \in 1 .. q : Sizes(L, chars, m, 8, 5)
    /\ Sizes(L, chars, q + 1, w, r)

(* The chunks of a text that encodes L bytes.                              *)
LEMMA ChunkSizes ==
    ASSUME NEW L \in Nat, L >= 1, NEW chars, chars = (8 * L + 4) \div 5,
           NEW c, c = (chars + 7) \div 8
    PROVE  \E q \in Nat, r \in 1 .. 5, w \in 1 .. 8 : Cut(L, chars, c, q, r, w)
<1>1. PICK q \in Nat : \E r \in 1 .. 5 : L = 5 * q + r
  <2> DEFINE q == (L - 1) \div 5
  <2>1. q \in Nat /\ L - 5 * q \in 1 .. 5 /\ L = 5 * q + (L - 5 * q)
    OBVIOUS
  <2> HIDE DEF q
  <2> QED
    BY <2>1
<1>2. PICK r \in 1 .. 5 : L = 5 * q + r
    BY <1>1
<1>3. /\ BytesIn(2) = 1 /\ BytesIn(4) = 2 /\ BytesIn(5) = 3
      /\ BytesIn(7) = 4 /\ BytesIn(8) = 5
    BY DEF BytesIn
<1>4. \E w \in 1 .. 8 : chars = 8 * q + w /\ BytesIn(w) = r /\ 8 * r <= 5 * w
  <2>1. CASE r = 1
    <3>1. chars = 8 * q + 2
      BY <1>2, <2>1
    <3> QED
      BY <1>3, <2>1, <3>1
  <2>2. CASE r = 2
    <3>1. chars = 8 * q + 4
      BY <1>2, <2>2
    <3> QED
      BY <1>3, <2>2, <3>1
  <2>3. CASE r = 3
    <3>1. chars = 8 * q + 5
      BY <1>2, <2>3
    <3> QED
      BY <1>3, <2>3, <3>1
  <2>4. CASE r = 4
    <3>1. chars = 8 * q + 7
      BY <1>2, <2>4
    <3> QED
      BY <1>3, <2>4, <3>1
  <2>5. CASE r = 5
    <3>1. chars = 8 * q + 8
      BY <1>2, <2>5
    <3> QED
      BY <1>3, <2>5, <3>1
  <2> QED
    BY <2>1, <2>2, <2>3, <2>4, <2>5
<1>5. PICK w \in 1 .. 8 : chars = 8 * q + w /\ BytesIn(w) = r /\ 8 * r <= 5 * w
    BY <1>4
<1>6. c = q + 1
    BY <1>5
<1>7. ASSUME NEW m \in 1 .. q PROVE Sizes(L, chars, m, 8, 5)
  <2>1. /\ 8 * m < chars /\ 8 * (m - 1) + 8 <= chars /\ 8 * (m - 1) + 8 = 8 * m
        /\ 5 * (m - 1) + 5 <= L /\ 8 \in 1 .. 8 /\ 5 \in 1 .. 5 /\ 8 * 5 <= 5 * 8
    BY <1>2, <1>5
  <2> QED
    BY <1>3, <2>1, Zenon DEF Sizes
<1>8. Sizes(L, chars, q + 1, w, r)
  <2>1. /\ (q + 1) - 1 = q /\ ~ (8 * (q + 1) < chars) /\ chars <= chars /\ L <= L
    BY <1>2, <1>5
  <2> QED
    BY <1>2, <1>5, <2>1, Zenon DEF Sizes
<1> QED
    BY <1>2, <1>6, <1>7, <1>8, Zenon DEF Cut

(* A place among bits five by five.                                        *)
LEMMA ByFive ==
    ASSUME NEW w \in Nat, NEW x \in 1 .. 5 * w
    PROVE  \E i \in 1 .. w, l \in 1 .. 5 : x = 5 * (i - 1) + l
<1> DEFINE i == (x - 1) \div 5 + 1
           l == x - 5 * (i - 1)
<1>1. i \in 1 .. w /\ l \in 1 .. 5 /\ x = 5 * (i - 1) + l
    OBVIOUS
<1> HIDE DEF i, l
<1> QED
    BY <1>1

(* The characters of the chunk, and its bytes when it was decoded.         *)
PartOf(chunk, text, m, w) ==
    chunk = SubSeq(text, 8 * (m - 1) + 1, 8 * (m - 1) + w)

HasBytes(bytes, k, m, n) ==
    Len(bytes) = n /\ \A j \in 1 .. n : bytes[j] = k[5 * (m - 1) + j]

(* A chunk of a text that carries the bits of a key has its bytes.         *)
LEMMA ChunkBack ==
    ASSUME NEW k \in Seq(Bytes), NEW fill, NEW chars, Fills(fill, k, chars),
           NEW text, Carries(text, fill, chars), NEW m \in Nat \ {0},
           NEW w, NEW n, Sizes(Len(k), chars, m, w, n),
           NEW chunk, PartOf(chunk, text, m, w)
    PROVE  HasBytes(DecodeChunk(chunk), k, m, n)
<1> DEFINE value == FlattenSeq([i \in DOMAIN chunk |-> BitsOf(Base32(chunk[i]), 5)])
           kept  == Toss(value, 8 * n)
           B     == {0, 1}
           S     == 0 .. 127
<1>1. /\ w \in 1 .. 8 /\ n \in 1 .. 5 /\ n = BytesIn(w) /\ 8 * n <= 5 * w
      /\ 8 * (m - 1) + w <= chars /\ 5 * (m - 1) + n <= Len(k)
    BY DEF Sizes
<1>2. /\ chars \in Nat /\ fill \in Seq(B)
      /\ \A q \in 1 .. Len(k) : \A i \in 1 .. 8 :
             fill[8 * (q - 1) + i] = (k[q] \div 2 ^ (8 - i)) % 2
    BY Zenon DEF Fills
<1>3. /\ text \in Seq(S) /\ Len(text) = chars
      /\ \A c \in 1 .. chars : \A l \in 1 .. 5 :
             BitsOf(Base32(text[c]), 5)[l] = fill[5 * (c - 1) + l]
    BY Zenon DEF Carries
<1>4. S \subseteq Bytes
    BY DEF Bytes
<1> HIDE DEF B, S
<1>5. /\ chunk \in Seq(S) /\ Len(chunk) = w
      /\ \A i \in 1 .. w : chunk[i] = text[8 * (m - 1) + i]
  <2>1. 8 * (m - 1) \in Nat /\ w \in Nat /\ 8 * (m - 1) + w <= Len(text)
    <3>1. w \in 1 .. 8 /\ 8 * (m - 1) + w <= Len(text)
      BY <1>1, <1>3, Zenon
    <3> QED
      BY <3>1
  <2>5. text \in Seq(S)
    BY <1>3, Zenon
  <2>6. chunk = SubSeq(text, 8 * (m - 1) + 1, 8 * (m - 1) + w)
    BY DEF PartOf
  <2>2. chunk \in Seq(S)
    BY <2>1, <2>5, <2>6, Part
  <2>3. Len(chunk) = w
    BY <2>1, <2>5, <2>6, Part
  <2>4. \A i \in 1 .. w : chunk[i] = text[8 * (m - 1) + i]
    <3>1. PICK a \in Nat : a = 8 * (m - 1)
      BY <2>1, Zenon
    <3>2. \A i \in 1 .. w : SubSeq(text, a + 1, a + w)[i] = text[a + i]
      BY <2>1, <2>5, <3>1, Part
    <3> QED
      BY <2>6, <3>1, <3>2, Zenon
  <2> QED
    BY <2>2, <2>3, <2>4, Zenon
<1>6. chunk \in Seq(Bytes) /\ chunk # <<>>
  <2>1. chunk # <<>>
    <3>1. Len(chunk) = w /\ w \in 1 .. 8
      BY <1>1, <1>5, Zenon
    <3>2. \A x \in 1 .. 8 : x # Len(<<>>)
      OBVIOUS
    <3> QED
      BY <3>1, <3>2, Zenon
  <2> QED
    BY <1>4, <1>5, <2>1, SeqOfMore
<1>7. /\ value \in Seq(B) /\ Len(value) = 5 * w
      /\ \A i \in 1 .. w : \A l \in 1 .. 5 :
             value[5 * (i - 1) + l] = BitsOf(Base32(chunk[i]), 5)[l]
    BY <1>5, <1>6, ChunkBits, Zenon DEF B
<1>8. DecodeChunk(chunk) = [j \in 1 .. n |-> Number(SubSeq(kept, 8 * j - 7, 8 * j))]
    BY <1>1, <1>5, Zenon DEF DecodeChunk
<1> HIDE DEF value
<1>9. ASSUME NEW x \in 1 .. 5 * w PROVE value[x] = fill[40 * (m - 1) + x]
  <2>1. w \in Nat
    BY <1>1
  <2>2. PICK i \in 1 .. w, l \in 1 .. 5 : x = 5 * (i - 1) + l
    BY <2>1, ByFive
  <2>3. value[x] = BitsOf(Base32(text[8 * (m - 1) + i]), 5)[l]
    BY <1>5, <1>7, <2>2, Zenon
  <2>4. /\ 8 * (m - 1) + i \in 1 .. chars
        /\ 5 * ((8 * (m - 1) + i) - 1) + l = 40 * (m - 1) + x
    BY <1>1, <1>2, <2>2
  <2>5. BitsOf(Base32(text[8 * (m - 1) + i]), 5)[l] =
           fill[5 * ((8 * (m - 1) + i) - 1) + l]
    BY <1>3, <2>4, Zenon
  <2> QED
    BY <2>3, <2>4, <2>5, Zenon
<1>10. /\ kept \in Seq(B) /\ Len(kept) = 8 * n
       /\ \A x \in 1 .. 8 * n : kept[x] = value[x]
  <2>1. /\ 0 \in Nat /\ 8 * n \in Nat /\ 0 + 8 * n <= Len(value)
        /\ 0 + 1 = 1 /\ 0 + 8 * n = 8 * n
    <3>1. n \in 1 .. 5 /\ 8 * n <= 5 * w /\ Len(value) = 5 * w
      BY <1>1, <1>7, Zenon
    <3> QED
      BY <3>1
  <2>2. kept = SubSeq(value, 0 + 1, 0 + 8 * n)
    BY <2>1, Zenon DEF Toss
  <2> DEFINE s == SubSeq(value, 0 + 1, 0 + 8 * n)
  <2>3. s \in Seq(B)
    BY <1>7, <2>1, Part
  <2>4. Len(s) = 8 * n
    BY <1>7, <2>1, Part
  <2>5. \A x \in 1 .. 8 * n : s[x] = value[0 + x]
    BY <1>7, <2>1, Part
  <2>6. \A x \in 1 .. 8 * n : 0 + x = x
    BY <1>1
  <2> HIDE DEF s, kept
  <2> QED
    BY <2>2, <2>3, <2>4, <2>5, <2>6, Zenon DEF s
<1> HIDE DEF kept
<1>11. ASSUME NEW j \in 1 .. n
       PROVE  Number(SubSeq(kept, 8 * j - 7, 8 * j)) = k[5 * (m - 1) + j]
  <2> DEFINE q == 5 * (m - 1) + j
             s == SubSeq(kept, 8 * (j - 1) + 1, 8 * (j - 1) + 8)
             b == k[q]
  <2>1. q \in 1 .. Len(k) /\ n \in Nat
    BY <1>1
  <2>2. b \in 0 .. 255
    BY <2>1, ByteAt, Zenon DEF Bytes
  <2>3. /\ 8 * (j - 1) \in Nat /\ 8 \in Nat /\ 8 * (j - 1) + 8 <= Len(kept)
        /\ 8 * (j - 1) + 1 = 8 * j - 7 /\ 8 * (j - 1) + 8 = 8 * j
    BY <1>10, <2>1
  <2>4. s \in Seq(B)
    BY <1>10, <2>3, Part
  <2>5. Len(s) = 8
    BY <1>10, <2>3, Part
  <2>6. \A i \in 1 .. 8 : s[i] = kept[8 * (j - 1) + i]
    BY <1>10, <2>3, Part
  <2>7. s = SubSeq(kept, 8 * j - 7, 8 * j)
    BY <2>3, Zenon
  <2> HIDE DEF s
  <2>8. ASSUME NEW i \in 1 .. 8 PROVE s[0 + i] = (b \div 2 ^ (8 - i)) % 2
    <3>1. /\ 8 * (j - 1) + i \in 1 .. 8 * n /\ 0 + i = i
          /\ 8 * (j - 1) + i \in 1 .. 5 * w
          /\ 40 * (m - 1) + (8 * (j - 1) + i) = 8 * (q - 1) + i
      <4>1. 8 * (j - 1) + i \in 1 .. 8 * n /\ 0 + i = i
        BY <2>1
      <4>2. 8 * n <= 5 * w /\ w \in Nat
        BY <1>1
      <4>3. 8 * (j - 1) + i \in 1 .. 5 * w
        BY <2>1, <4>1, <4>2
      <4>4. 40 * (m - 1) + (8 * (j - 1) + i) = 8 * (q - 1) + i
        OBVIOUS
      <4> QED
        BY <4>1, <4>3, <4>4, Zenon
    <3>2. s[i] = value[8 * (j - 1) + i]
      BY <1>10, <2>6, <3>1, Zenon
    <3>3. value[8 * (j - 1) + i] = fill[40 * (m - 1) + (8 * (j - 1) + i)]
      BY <1>9, <3>1, Zenon
    <3> HIDE DEF q
    <3>4. fill[8 * (q - 1) + i] = (k[q] \div 2 ^ (8 - i)) % 2
      BY <1>2, <2>1, Zenon
    <3> QED
      BY <3>1, <3>2, <3>3, <3>4, Zenon
  <2> HIDE DEF b, q
  <2>9. Shows(s, 0, 8, b)
    BY <2>8, Zenon DEF Shows
  <2>10. s \in Seq(Nat)
    BY <2>4, BitsAreNumbers, Zenon DEF B
  <2>11. PICK number : Numbered(2, s, number) /\ Numeral(2, s) = number[Len(s)]
    <3>1. 2 \in Nat
      OBVIOUS
    <3> QED
      BY <2>10, <3>1, NumeralFacts
  <2>12. Reads(number, 0, 8, b)
    <3>1. 0 \in Nat /\ 8 \in 0 .. 8 /\ 0 + 8 <= Len(s)
      BY <2>5
    <3>2. 2 ^ 8 - 1 = 255
      BY SMT
    <3>3. b \in 0 .. 2 ^ 8 - 1
      BY <2>2, <3>2, Zenon
    <3> QED
      BY <2>9, <2>10, <2>11, <3>1, <3>3, BitsRead, Zenon
  <2>13. number[8] = b
    <3>1. number[0] = 0
      BY <2>11 DEF Numbered
    <3>2. number[0 + 8] = 2 ^ 8 * 0 + b
      BY <2>12, <3>1, Zenon DEF Reads
    <3>3. 2 ^ 8 * 0 + b = b /\ 0 + 8 = 8
      BY <2>2, SMT
    <3> QED
      BY <3>2, <3>3, Zenon
  <2>14. Number(s) = b
    BY <2>5, <2>11, <2>13, Zenon DEF Number
  <2> QED
    BY <2>7, <2>14, Zenon DEF b, q
<1>12. \A j \in 1 .. n : DecodeChunk(chunk)[j] = k[5 * (m - 1) + j]
    BY <1>8, <1>11, Zenon
<1>13. Len(DecodeChunk(chunk)) = n
  <2>1. n \in Nat
    BY <1>1
  <2> QED
    BY <1>8, <2>1
<1> QED
    BY <1>12, <1>13, Zenon DEF HasBytes

(* A chunk of a text, its length and what it is decoded to.                *)
IsChunk(text, k, m, w, n) ==
    /\ Len(Chunk(text, m)) = w /\ BytesIn(w) = n
    /\ DecodeChunk(Chunk(text, m)) \in Seq(Bytes)
    /\ Len(DecodeChunk(Chunk(text, m))) = n
    /\ \A j \in 1 .. n : DecodeChunk(Chunk(text, m))[j] = k[5 * (m - 1) + j]

(* The chunks of a text that carries a key have its bytes.                 *)
LEMMA ChunksBack ==
    ASSUME NEW k \in Seq(Bytes), NEW fill, NEW chars, Fills(fill, k, chars),
           NEW text, Carries(text, fill, chars), NEW m \in Nat \ {0},
           NEW w, NEW n, Sizes(Len(k), chars, m, w, n)
    PROVE  IsChunk(text, k, m, w, n)
<1> DEFINE u == IF 8 * m < Len(text) THEN 8 * m ELSE Len(text)
           chunk == SubSeq(text, 8 * (m - 1) + 1, 8 * (m - 1) + w)
           S == 0 .. 127
<1>1. Len(text) = chars /\ text \in Seq(S)
    BY Zenon DEF Carries
<1>2. /\ w \in 1 .. 8 /\ n = BytesIn(w) /\ 8 * (m - 1) + w <= chars
      /\ 8 * (m - 1) + w = u
    BY <1>1, Zenon DEF Sizes
<1>3. Chunk(text, m) = chunk
  <2>1. Chunk(text, m) = SubSeq(text, 8 * m - 7, u)
    BY Zenon DEF Chunk
  <2>2. 8 * m - 7 = 8 * (m - 1) + 1
    OBVIOUS
  <2> HIDE DEF u
  <2> QED
    BY <1>2, <2>1, <2>2, Zenon
<1>4. Len(chunk) = w /\ chunk \in Seq(Bytes)
  <2>1. 8 * (m - 1) \in Nat /\ w \in Nat /\ 8 * (m - 1) + w <= Len(text)
    BY <1>1, <1>2
  <2>2. S \subseteq Bytes
    BY DEF Bytes
  <2>3. text \in Seq(Bytes)
    BY <1>1, <2>2, SeqOfMore, Zenon
  <2>4. Len(chunk) = w
    BY <2>1, <2>3, Part
  <2>5. chunk \in Seq(Bytes)
    BY <2>1, <2>3, Part
  <2> QED
    BY <2>4, <2>5, Zenon
<1> HIDE DEF u
<1>5. /\ Len(DecodeChunk(chunk)) = n
      /\ \A j \in 1 .. n : DecodeChunk(chunk)[j] = k[5 * (m - 1) + j]
  <2>1. PartOf(chunk, text, m, w)
    BY Zenon DEF PartOf
  <2> HIDE DEF chunk
  <2>2. HasBytes(DecodeChunk(chunk), k, m, n)
    BY <2>1, ChunkBack, Zenon
  <2> QED
    BY <2>2, Zenon DEF HasBytes
<1> HIDE DEF chunk
<1>6. DecodeChunk(chunk) \in Seq(Bytes)
    BY <1>4, DecodeChunkType, Zenon
<1> QED
    BY <1>2, <1>3, <1>4, <1>5, <1>6, Zenon DEF IsChunk

(* A text that carries a key is valid, and decoded to it.                  *)
LEMMA TextBack ==
    ASSUME NEW k \in Seq(Bytes), Len(k) >= 1, NEW fill, NEW chars,
           Fills(fill, k, chars), NEW text, Carries(text, fill, chars)
    PROVE  Base32Valid(text) /\ DecodeBase32(text) = k
<1> DEFINE L == Len(k)
           c == (Len(text) + 7) \div 8
           seqs == [m \in DOMAIN Chunks(text) |-> DecodeChunk(Chunk(text, m))]
           flat == FlattenSeq(seqs)
           Q == Seq(Bytes)
<1>1. /\ L \in Nat /\ L >= 1 /\ Len(text) = chars
      /\ chars = (8 * L + 4) \div 5
      /\ \A i \in 1 .. chars : Base32(text[i]) \in 0 .. 31
      /\ text \in Seq(0 .. 127)
  <2>1. L \in Nat /\ L >= 1
    OBVIOUS
  <2> QED
    BY <2>1, Zenon DEF Fills, Carries
<1>2. PICK q \in Nat, r \in 1 .. 5, w \in 1 .. 8 : Cut(L, chars, c, q, r, w)
  <2>1. PICK ch, x : ch = chars /\ x = c
    BY Zenon
  <2>2. ch = (8 * L + 4) \div 5 /\ x = (ch + 7) \div 8
    BY <1>1, <2>1, Zenon
  <2> HIDE DEF L, c
  <2>3. \E q \in Nat, r \in 1 .. 5, w \in 1 .. 8 : Cut(L, ch, x, q, r, w)
    BY <1>1, <2>2, ChunkSizes, Zenon
  <2> QED
    BY <2>1, <2>3, Zenon
<1>3. /\ c = q + 1 /\ L = 5 * q + r
      /\ \A m \in 1 .. q : Sizes(L, chars, m, 8, 5)
      /\ Sizes(L, chars, q + 1, w, r)
    BY <1>2, Zenon DEF Cut
<1>4. DOMAIN Chunks(text) = 1 .. q + 1
    BY <1>3, Zenon DEF Chunks
<1>5. \A m \in 1 .. q : IsChunk(text, k, m, 8, 5)
  <2>1. \A m \in 1 .. q : m \in Nat \ {0}
    OBVIOUS
  <2> QED
    BY <1>3, <2>1, ChunksBack, Zenon
<1>6. IsChunk(text, k, q + 1, w, r)
  <2>1. q + 1 \in Nat \ {0}
    OBVIOUS
  <2> QED
    BY <1>3, <2>1, ChunksBack, Zenon
<1>7. \A m \in 1 .. q + 1 : m \in 1 .. q \/ m = q + 1
    OBVIOUS
<1>8. Base32Valid(text)
  <2>1. \A i \in DOMAIN text : Base32(text[i]) # 255
    <3>1. \A x \in 0 .. 31 : x # 255
      OBVIOUS
    <3>2. DOMAIN text = 1 .. chars
      BY <1>1
    <3>3. ASSUME NEW i \in DOMAIN text PROVE Base32(text[i]) # 255
      <4>1. Base32(text[i]) \in 0 .. 31
        BY <1>1, <3>2, Zenon
      <4> QED
        BY <3>1, <4>1
    <3> QED
      BY <3>3
  <2>2. BytesIn(8) = 5 /\ BytesIn(w) = r
    <3>1. BytesIn(w) = r
      BY <1>6 DEF IsChunk
    <3> QED
      BY <3>1 DEF BytesIn
  <2>4. 5 # 0 /\ r # 0
    OBVIOUS
  <2>5. \A m \in DOMAIN Chunks(text) : BytesIn(Len(Chunk(text, m))) # 0
    BY <1>4, <1>5, <1>6, <1>7, <2>2, <2>4, Zenon DEF IsChunk
  <2> QED
    BY <2>1, <2>5, Zenon DEF Base32Valid
<1>9. \A m \in 1 .. q + 1 : seqs[m] = DecodeChunk(Chunk(text, m))
    BY <1>4, Zenon
<1>10. seqs = [m \in 1 .. q + 1 |-> seqs[m]]
  <2>1. seqs = [m \in 1 .. q + 1 |-> DecodeChunk(Chunk(text, m))]
    BY <1>4, Zenon
  <2> QED
    BY <1>9, <2>1, Zenon
<1>11. DecodeBase32(text) = flat
    BY Zenon DEF DecodeBase32
<1> HIDE DEF seqs, Q, L, c
<1>12. seqs \in Seq(Q) /\ Len(seqs) = q + 1
  <2>1. \A m \in 1 .. q + 1 : seqs[m] \in Q
    BY <1>5, <1>6, <1>7, <1>9, Zenon DEF IsChunk, Q
  <2>2. seqs \in [1 .. q + 1 -> Q]
    BY <1>10, <2>1
  <2>3. q + 1 \in Nat
    OBVIOUS
  <2> QED
    BY <2>2, <2>3
<1> HIDE DEF flat
<1>13. PICK start : Laid(seqs, flat, start)
    BY <1>12, FlattenLaid, Zenon DEF Q, flat
<1>14. \A m \in 1 .. q + 1 : start[m] = 5 * (m - 1)
  <2>1. EvenBut(seqs, 5)
    <3>1. (q + 1) - 1 = q /\ \A m \in 1 .. q : m \in 1 .. q + 1
      OBVIOUS
    <3>2. ASSUME NEW m \in 1 .. Len(seqs) - 1 PROVE Len(seqs[m]) = 5
      <4>1. m \in 1 .. q
        BY <1>12, <3>1, Zenon
      <4>2. seqs[m] = DecodeChunk(Chunk(text, m))
        BY <1>9, <3>1, <4>1, Zenon
      <4>3. Len(DecodeChunk(Chunk(text, m))) = 5
        BY <1>5, <4>1, Zenon DEF IsChunk
      <4> QED
        BY <4>2, <4>3, Zenon
    <3> QED
      BY <3>2, Zenon DEF EvenBut
  <2>2. Len(seqs) \in Nat /\ 5 \in Nat
    BY <1>12
  <2>3. Multiples(start, Len(seqs), 5)
    BY <1>13, <2>1, <2>2, LaidEven, Zenon
  <2> QED
    BY <1>12, <2>3, Zenon DEF Multiples
<1>15. Len(flat) = L
  <2>1. q + 1 \in 1 .. q + 1 /\ 5 * ((q + 1) - 1) = 5 * q
    OBVIOUS
  <2>2. start[(q + 1) + 1] = start[q + 1] + Len(seqs[q + 1])
    BY <1>12, <1>13, <2>1, Zenon DEF Laid
  <2>3. Len(seqs[q + 1]) = r
    BY <1>6, <1>9, <2>1, Zenon DEF IsChunk
  <2>4. start[q + 1] = 5 * q
    BY <1>14, <2>1, Zenon
  <2>5. Len(flat) = start[(q + 1) + 1]
    BY <1>12, <1>13, Zenon DEF Laid
  <2> QED
    BY <1>3, <2>2, <2>3, <2>4, <2>5, Zenon
<1>16. ASSUME NEW x \in 1 .. L PROVE flat[x] = k[x]
  <2>1. \E m \in 1 .. q + 1 : \E j \in 1 .. 5 :
           x = 5 * (m - 1) + j /\ (m = q + 1 => j <= r)
    <3> DEFINE m == (x - 1) \div 5 + 1
               j == x - 5 * (m - 1)
    <3>1. /\ m \in 1 .. q + 1 /\ j \in 1 .. 5 /\ x = 5 * (m - 1) + j
          /\ (m = q + 1 => j <= r)
      <4>1. L = 5 * q + r /\ x \in 1 .. L
        BY <1>3
      <4> QED
        BY <4>1
    <3> HIDE DEF m, j
    <3> QED
      BY <3>1
  <2>2. PICK m \in 1 .. q + 1, j \in 1 .. 5 :
           x = 5 * (m - 1) + j /\ (m = q + 1 => j <= r)
    BY <2>1
  <2>3. j \in 1 .. Len(seqs[m]) /\ seqs[m][j] = k[5 * (m - 1) + j]
    <3>1. CASE m \in 1 .. q
      BY <1>5, <1>9, <3>1, Zenon DEF IsChunk
    <3>2. CASE m = q + 1
      <4>1. j \in 1 .. r
        BY <2>2, <3>2
      <4> QED
        BY <1>6, <1>9, <3>2, <4>1, Zenon DEF IsChunk
    <3> QED
      BY <1>7, <3>1, <3>2, Zenon
  <2>4. flat[start[m] + j] = seqs[m][j]
    BY <1>12, <1>13, <2>3, Zenon DEF Laid
  <2> QED
    BY <1>14, <2>2, <2>3, <2>4, Zenon
<1>17. flat \in Seq(Bytes)
    BY <1>12, FlattenType, Zenon DEF flat, Q
<1>18. flat = k
  <2>1. Len(flat) = Len(k) /\ \A x \in 1 .. Len(flat) : flat[x] = k[x]
    BY <1>15, <1>16, Zenon DEF L
  <2> QED
    BY <1>17, <2>1, SameElements
<1> QED
    BY <1>8, <1>11, <1>18, Zenon

(* An empty key.                                                           *)
LEMMA NothingBack ==
    ASSUME NEW first
    PROVE  /\ Encode32(<<>>, first) = <<>>
           /\ Base32Valid(<<>>) /\ DecodeBase32(<<>>) = <<>>
<1>1. DOMAIN <<>> = {} /\ Len(<<>>) = 0 /\ <<>> \in Seq(Nat)
    OBVIOUS
<1>2. FlattenSeq(<<>>) = <<>>
    BY <1>1 DEF FlattenSeq
<1>3. DOMAIN Chunks(<<>>) = {}
  <2>1. 1 .. (0 + 7) \div 8 = {}
    OBVIOUS
  <2> QED
    BY <1>1, <2>1, Zenon DEF Chunks
<1>4. \A f : DOMAIN f = {} /\ f = [x \in {} |-> f[x]] => f = <<>>
    OBVIOUS
<1>5. Base32Valid(<<>>)
    BY <1>1, <1>3, Zenon DEF Base32Valid
<1>6. DecodeBase32(<<>>) = <<>>
  <2>1. [m \in DOMAIN Chunks(<<>>) |-> DecodeChunk(Chunk(<<>>, m))] = <<>>
    BY <1>3
  <2> QED
    BY <1>2, <2>1, Zenon DEF DecodeBase32
<1>7. Encode32(<<>>, first) = <<>>
  <2> DEFINE bits == FlattenSeq([i \in DOMAIN <<>> |-> BitsOf(<<>>[i], 8)])
             fill == bits \o [i \in 1 .. 5 * ((Len(bits) + 4) \div 5) - Len(bits) |-> 0]
             text == [c \in 1 .. (Len(bits) + 4) \div 5 |->
                         Letter(Number(SubSeq(fill, 5 * c - 4, 5 * c)), first)]
  <2>1. bits = <<>>
    <3>1. [i \in DOMAIN <<>> |-> BitsOf(<<>>[i], 8)] = <<>>
      BY <1>1
    <3> QED
      BY <1>2, <3>1, Zenon
  <2>2. Encode32(<<>>, first) = text
    BY Zenon DEF Encode32
  <2>3. 1 .. (Len(bits) + 4) \div 5 = {}
    <3>1. 1 .. (0 + 4) \div 5 = {}
      OBVIOUS
    <3> QED
      BY <1>1, <2>1, <3>1, Zenon
  <2> HIDE DEF bits, fill
  <2>4. text = <<>>
    BY <2>3
  <2> QED
    BY <2>2, <2>4, Zenon
<1> QED
    BY <1>5, <1>6, <1>7

(* Every key, of whatever length, that is encoded in small letters or in   *)
(* capitals is accepted and comes back.                                    *)
LEMMA KeyBack ==
    ASSUME NEW k \in Seq(Bytes), NEW first \in {65, 97}
    PROVE  Base32Valid(Encode32(k, first)) /\ DecodeBase32(Encode32(k, first)) = k
<1>1. CASE k = <<>>
    BY <1>1, NothingBack, Zenon
<1>2. CASE k # <<>>
  <2>1. Len(k) >= 1
    BY <1>2
  <2>2. PICK fill, chars : /\ Fills(fill, k, chars)
                           /\ Carries(Encode32(k, first), fill, chars)
    BY <2>1, EncodedCarries
  <2> QED
    BY <2>1, <2>2, TextBack, Zenon
<1> QED
    BY <1>1, <1>2

-----------------------------------------------------------------------------
(* Escapes.                                                                *)

(* The digits t and b are an escape of the byte x.                         *)
Escapes(t, b, x) ==
    /\ t \in Bytes /\ b \in Bytes
    /\ HexToNibble(t) # 255 /\ HexToNibble(b) # 255
    /\ Escape(t, b) = x

(* The digits of an escape are read as the byte.                           *)
LEMMA EscapeBack ==
    ASSUME NEW x \in Bytes, NEW ten \in {65, 97}
    PROVE  Escapes(Hex(x \div 16, ten), Hex(x % 16, ten), x)
<1>1. ASSUME NEW n \in 0 .. 15
      PROVE  Hex(n, ten) \in Bytes /\ HexToNibble(Hex(n, ten)) = n
  <2>1. CASE ten = 65
    BY <2>1 DEF Hex, HexToNibble, Bytes
  <2>2. CASE ten = 97
    BY <2>2 DEF Hex, HexToNibble, Bytes
  <2> QED
    BY <2>1, <2>2
<1>2. x \div 16 \in 0 .. 15 /\ x % 16 \in 0 .. 15 /\ 16 * (x \div 16) + (x % 16) = x
    BY DEF Bytes
<1>3. \A n \in 0 .. 15 : n # 255
    OBVIOUS
<1> DEFINE t == Hex(x \div 16, ten)
           b == Hex(x % 16, ten)
<1>4. /\ t \in Bytes /\ b \in Bytes
      /\ HexToNibble(t) = x \div 16 /\ HexToNibble(b) = x % 16
    BY <1>1, <1>2
<1> HIDE DEF t, b
<1>5. HexToNibble(t) # 255 /\ HexToNibble(b) # 255
    BY <1>2, <1>3, <1>4
<1>6. Escape(t, b) = x
    BY <1>2, <1>4 DEF Escape
<1> QED
    BY <1>4, <1>5, <1>6 DEF Escapes, t, b

(* What is left of a text from the place i on.                             *)
Rest(v, text, i) ==
    /\ v \in Seq(Bytes) /\ Len(v) = Len(text) + 1 - i
    /\ \A j \in 1 .. Len(text) + 1 - i : v[j] = text[(i - 1) + j]

(* A byte before a text.                                                   *)
LEMMA Prepended ==
    ASSUME NEW S, NEW x \in S, NEW v \in Seq(S)
    PROVE  /\ << x >> \o v \in Seq(S) /\ Len(<< x >> \o v) = 1 + Len(v)
           /\ (<< x >> \o v)[1] = x
           /\ \A j \in 1 .. Len(v) : (<< x >> \o v)[1 + j] = v[j]
<1>1. << x >> \o v \in Seq(S)
    OBVIOUS
<1>2. Len(<< x >> \o v) = 1 + Len(v)
    OBVIOUS
<1>3. (<< x >> \o v)[1] = x
    OBVIOUS
<1>4. \A j \in 1 .. Len(v) : (<< x >> \o v)[1 + j] = v[j]
    OBVIOUS
<1> QED
    BY <1>1, <1>2, <1>3, <1>4

(* One byte before what is left after it.                                  *)
LEMMA RestNext ==
    ASSUME NEW text \in Seq(Bytes), NEW i \in 1 .. Len(text), NEW v,
           Rest(v, text, i + 1)
    PROVE  Rest(<< text[i] >> \o v, text, i)
<1> DEFINE n == Len(text)
           u == << text[i] >> \o v
<1>1. n \in Nat /\ i \in 1 .. n /\ text[i] \in Bytes
    BY Element
<1> HIDE DEF n
<1>2. /\ v \in Seq(Bytes) /\ Len(v) = n + 1 - (i + 1)
      /\ \A j \in 1 .. n + 1 - (i + 1) : v[j] = text[((i + 1) - 1) + j]
    BY Zenon DEF Rest, n
<1>3. u \in Seq(Bytes) /\ Len(u) = 1 + Len(v) /\ u[1] = text[i]
  <2>1. u \in Seq(Bytes)
    BY <1>1, <1>2, Prepended
  <2>2. Len(u) = 1 + Len(v)
    BY <1>1, <1>2, Prepended
  <2>3. u[1] = text[i]
    BY <1>1, <1>2, Prepended
  <2> QED
    BY <2>1, <2>2, <2>3
<1>4. ASSUME NEW j \in 1 .. Len(v) PROVE u[1 + j] = v[j]
    BY <1>1, <1>2
<1> HIDE DEF u
<1>5. Len(u) = n + 1 - i
    BY <1>1, <1>2, <1>3
<1>6. ASSUME NEW j \in 1 .. n + 1 - i PROVE u[j] = text[(i - 1) + j]
  <2>1. CASE j = 1
    <3>1. (i - 1) + 1 = i
      BY <1>1
    <3> QED
      BY <1>3, <2>1, <3>1, Zenon
  <2>2. CASE j # 1
    <3>1. /\ j - 1 \in 1 .. n + 1 - (i + 1) /\ 1 + (j - 1) = j
          /\ ((i + 1) - 1) + (j - 1) = (i - 1) + j
      BY <1>1, <2>2
    <3>2. u[1 + (j - 1)] = v[j - 1]
      BY <1>2, <1>4, <3>1, Zenon
    <3>3. v[j - 1] = text[((i + 1) - 1) + (j - 1)]
      BY <1>2, <3>1, Zenon
    <3> QED
      BY <3>1, <3>2, <3>3, Zenon
  <2> QED
    BY <2>1, <2>2
<1>7. Rest(u, text, i)
    BY <1>3, <1>5, <1>6, Zenon DEF Rest, n
<1> QED
    BY <1>7, Zenon DEF u

(* A byte as it is, or a plus for a space, or an escape, after the place s *)
(* and up to the place e.                                                  *)
Plain(flat, s, e, x) ==
    e = s + 1 /\ flat[s + 1] = x /\ x # 43 /\ x # 37
Plus(flat, s, e, x) ==
    e = s + 1 /\ flat[s + 1] = 43 /\ x = 32
Percent(flat, s, e, x) ==
    e = s + 3 /\ flat[s + 1] = 37 /\ Escapes(flat[s + 2], flat[s + 3], x)

(* Each is decoded to the byte.                                            *)
LEMMA ByteBack ==
    ASSUME NEW text \in Seq(Bytes), NEW flat \in Seq(Bytes), NEW decode,
           Decodes(flat, decode), NEW i \in 1 .. Len(text), NEW s \in Nat,
           NEW e \in Nat, e <= Len(flat),
           \/ Plain(flat, s, e, text[i]) \/ Plus(flat, s, e, text[i])
           \/ Percent(flat, s, e, text[i]),
           Rest(decode[e + 1], text, i + 1)
    PROVE  s <= Len(flat) /\ Rest(decode[s + 1], text, i)
<1> DEFINE v == decode[e + 1]
           L == Len(flat)
<1>1. \A k \in 1 .. L + 3 :
         decode[k] = Piece(flat, k, decode[k + 1], decode[k + 2], decode[k + 3])
    BY Zenon DEF Decodes
<1>2. Rest(<< text[i] >> \o v, text, i)
    BY RestNext, Zenon
<1>3. L \in Nat
    OBVIOUS
<1> HIDE DEF v, L
<1>4. CASE Plain(flat, s, e, text[i])
  <2>1. e = s + 1 /\ flat[s + 1] = text[i] /\ text[i] # 43 /\ text[i] # 37
    BY <1>4, Zenon DEF Plain
  <2>2. /\ s + 1 \in 1 .. L + 3 /\ ~ (s + 1 > L) /\ s <= L
    BY <1>3, <2>1 DEF L
  <2>3. decode[s + 1] = << flat[s + 1] >> \o decode[(s + 1) + 1]
    <3>1. decode[s + 1] = Piece(flat, s + 1, decode[(s + 1) + 1],
                                decode[(s + 1) + 2], decode[(s + 1) + 3])
      BY <1>1, <2>2, Zenon
    <3>2. flat[s + 1] # 43 /\ flat[s + 1] # 37
      BY <2>1
    <3> QED
      BY <2>2, <3>1, <3>2, Zenon DEF Piece, L
  <2>4. decode[s + 1] = << text[i] >> \o v
    BY <2>1, <2>3, Zenon DEF v
  <2> QED
    BY <1>2, <2>2, <2>4, Zenon DEF L
<1>5. CASE Percent(flat, s, e, text[i])
  <2>1. /\ e = s + 3 /\ flat[s + 1] = 37
        /\ HexToNibble(flat[s + 2]) # 255 /\ HexToNibble(flat[s + 3]) # 255
        /\ Escape(flat[s + 2], flat[s + 3]) = text[i]
    BY <1>5, Zenon DEF Percent, Escapes
  <2>2. /\ s + 1 \in 1 .. L + 3 /\ ~ (s + 1 > L) /\ s <= L
        /\ s + 1 # L /\ (s + 1) + 1 # L
        /\ (s + 1) + 1 = s + 2 /\ (s + 1) + 2 = s + 3 /\ (s + 1) + 3 = e + 1
    BY <1>3, <2>1 DEF L
  <2>3. decode[s + 1] = << Escape(flat[s + 2], flat[s + 3]) >> \o decode[e + 1]
    <3>1. decode[s + 1] = Piece(flat, s + 1, decode[(s + 1) + 1],
                                decode[(s + 1) + 2], decode[(s + 1) + 3])
      BY <1>1, <2>2, Zenon
    <3>2. ~ (flat[s + 1] = 43) /\ ~ (flat[s + 1] # 37)
      BY <2>1
    <3>3. /\ HexToNibble(flat[(s + 1) + 1]) # 255
          /\ HexToNibble(flat[(s + 1) + 2]) # 255
      <4>1. flat[(s + 1) + 1] = flat[s + 2] /\ flat[(s + 1) + 2] = flat[s + 3]
        BY <2>2, Zenon
      <4>2. HexToNibble(flat[s + 2]) # 255 /\ HexToNibble(flat[s + 3]) # 255
        BY <2>1
      <4> QED
        BY <4>1, <4>2, Zenon
    <3>4. decode[s + 1] = << Escape(flat[(s + 1) + 1], flat[(s + 1) + 2]) >>
                             \o decode[(s + 1) + 3]
      BY <2>2, <3>1, <3>2, <3>3, Zenon DEF Piece, L
    <3> QED
      BY <2>2, <3>4, Zenon
  <2>4. decode[s + 1] = << text[i] >> \o v
    BY <2>1, <2>3, Zenon DEF v
  <2> QED
    BY <1>2, <2>2, <2>4, Zenon DEF L
<1>6. CASE Plus(flat, s, e, text[i])
  <2>1. e = s + 1 /\ flat[s + 1] = 43 /\ text[i] = 32
    BY <1>6, Zenon DEF Plus
  <2>2. /\ s + 1 \in 1 .. L + 3 /\ ~ (s + 1 > L) /\ s <= L
    BY <1>3, <2>1 DEF L
  <2>3. decode[s + 1] = << 32 >> \o decode[(s + 1) + 1]
    <3>1. decode[s + 1] = Piece(flat, s + 1, decode[(s + 1) + 1],
                                decode[(s + 1) + 2], decode[(s + 1) + 3])
      BY <1>1, <2>2, Zenon
    <3> QED
      BY <2>1, <2>2, <3>1, Zenon DEF Piece, L
  <2>4. decode[s + 1] = << text[i] >> \o v
    BY <2>1, <2>3, Zenon DEF v
  <2> QED
    BY <1>2, <2>2, <2>4, Zenon DEF L
<1> QED
    BY <1>4, <1>5, <1>6

(* What a byte is escaped to.                                              *)
IsEscaped(seq, x) ==
    /\ seq \in Seq(Bytes)
    /\ \/ Len(seq) = 1 /\ seq[1] = x /\ x # 43 /\ x # 37
       \/ Len(seq) = 1 /\ seq[1] = 43 /\ x = 32
       \/ Len(seq) = 3 /\ seq[1] = 37 /\ Escapes(seq[2], seq[3], x)

(* A byte is sent as it is, as a plus, or escaped.                         *)
LEMMA EscapedByteIs ==
    ASSUME NEW x \in Bytes, NEW plain, 37 \notin plain, 43 \notin plain,
           NEW ten \in {65, 97}
    PROVE  IsEscaped(EscapedByte(x, plain, ten), x)
<1> DEFINE t == Hex(x \div 16, ten)
           b == Hex(x % 16, ten)
<1>1. Escapes(t, b, x)
    BY EscapeBack, Zenon
<1>2. t \in Bytes /\ b \in Bytes /\ 37 \in Bytes /\ 43 \in Bytes
  <2>1. 37 \in Bytes /\ 43 \in Bytes
    BY DEF Bytes
  <2> QED
    BY <1>1, <2>1, Zenon DEF Escapes
<1>3. CASE x \in plain /\ x # 32
  <2>1. EscapedByte(x, plain, ten) = << x >>
    BY <1>3, Zenon DEF EscapedByte
  <2>2. x # 43 /\ x # 37
    BY <1>3
  <2>3. PICK seq : seq = << x >>
    BY Zenon
  <2>4. seq \in Seq(Bytes) /\ Len(seq) = 1 /\ seq[1] = x
    BY <2>3
  <2> QED
    BY <2>1, <2>2, <2>3, <2>4, Zenon DEF IsEscaped
<1>5. CASE x \in plain /\ x = 32
  <2>1. EscapedByte(x, plain, ten) = << 43 >>
    BY <1>5, Zenon DEF EscapedByte
  <2>3. PICK seq : seq = << 43 >>
    BY Zenon
  <2>4. seq \in Seq(Bytes) /\ Len(seq) = 1 /\ seq[1] = 43
    BY <1>2, <2>3
  <2> QED
    BY <1>5, <2>1, <2>3, <2>4, Zenon DEF IsEscaped
<1>4. CASE x \notin plain
  <2> DEFINE seq == << 37, t, b >>
  <2>1. EscapedByte(x, plain, ten) = seq
    BY <1>4, Zenon DEF EscapedByte
  <2> HIDE DEF t, b
  <2>2. seq \in Seq(Bytes) /\ Len(seq) = 3 /\ seq[1] = 37 /\ seq[2] = t /\ seq[3] = b
    BY <1>2
  <2> HIDE DEF seq
  <2>3. IsEscaped(seq, x)
    BY <1>1, <2>2, Zenon DEF IsEscaped
  <2> QED
    BY <2>1, <2>3, Zenon
<1> QED
    BY <1>3, <1>4, <1>5

(* The bytes of a text that are laid out in another.                       *)
LEMMA LaidBack ==
    ASSUME NEW text \in Seq(Bytes), NEW flat \in Seq(Bytes), NEW seqs, NEW start,
           Laid(seqs, flat, start), Len(seqs) = Len(text),
           \A i \in 1 .. Len(text) : IsEscaped(seqs[i], text[i])
    PROVE  Urldecode(flat) = text
<1> DEFINE n == Len(text)
           L == Len(flat)
<1>1. /\ \A i \in 1 .. n + 1 : start[i] \in Nat
      /\ start[1] = 0 /\ start[n + 1] = L
      /\ \A i \in 1 .. n : start[i + 1] = start[i] + Len(seqs[i])
      /\ \A i \in 1 .. n : \A l \in 1 .. Len(seqs[i]) :
             flat[start[i] + l] = seqs[i][l]
    BY Zenon DEF Laid
<1>2. PICK decode : Decodes(flat, decode) /\ Urldecode(flat) = decode[1]
  <2>1. Decodes(flat, CHOOSE d : Decodes(flat, d))
    BY DecodesExists
  <2>2. Urldecode(flat) = (CHOOSE d : Decodes(flat, d))[1]
    BY Zenon DEF Urldecode, Decodes, Piece
  <2> QED
    BY <2>1, <2>2, Zenon
<1>3. n \in Nat /\ L \in Nat
    OBVIOUS
<1> DEFINE Back(i) == start[i] <= L /\ Rest(decode[start[i] + 1], text, i)
           T == { m \in Nat : m <= n => Back(n + 1 - m) }
<1> HIDE DEF n, L
<1>4. Back(n + 1)
  <2>1. L + 1 \in 1 .. L + 3 /\ L + 1 > L /\ L <= L
    BY <1>3
  <2>2. decode[L + 1] = Piece(flat, L + 1, decode[(L + 1) + 1],
                              decode[(L + 1) + 2], decode[(L + 1) + 3])
    BY <1>2, <2>1, Zenon DEF Decodes, L
  <2>3. decode[L + 1] = <<>>
    BY <2>1, <2>2, Zenon DEF Piece, L
  <2>4. Rest(<<>>, text, n + 1)
    <3>1. <<>> \in Seq(Bytes) /\ Len(<<>>) = n + 1 - (n + 1) /\ 1 .. n + 1 - (n + 1) = {}
      BY <1>3
    <3> QED
      BY <3>1, Zenon DEF Rest, n
  <2> QED
    BY <1>1, <2>1, <2>3, <2>4, Zenon
<1>5. ASSUME NEW i \in 1 .. n, Back(i + 1) PROVE Back(i)
  <2>1. i \in 1 .. n + 1 /\ i + 1 \in 1 .. n + 1
    BY <1>3
  <2>2. PICK s \in Nat, e \in Nat : s = start[i] /\ e = start[i + 1]
    BY <1>1, <2>1, Zenon
  <2>3. e = s + Len(seqs[i]) /\ \A l \in 1 .. Len(seqs[i]) : flat[s + l] = seqs[i][l]
    BY <1>1, <2>2, Zenon
  <2>4. e <= Len(flat) /\ Rest(decode[e + 1], text, i + 1)
    BY <1>5, <2>2, Zenon DEF L
  <2>5. \/ Plain(flat, s, e, text[i]) \/ Plus(flat, s, e, text[i])
        \/ Percent(flat, s, e, text[i])
    <3>1. PICK seq : seq = seqs[i]
      BY Zenon
    <3>2. IsEscaped(seq, text[i])
      BY <3>1, Zenon DEF n
    <3>3. CASE Len(seq) = 1 /\ seq[1] = text[i] /\ text[i] # 43 /\ text[i] # 37
      <4>1. 1 \in 1 .. 1
        OBVIOUS
      <4> QED
        BY <2>3, <3>1, <3>3, <4>1, Zenon DEF Plain
    <3>4. CASE Len(seq) = 3 /\ seq[1] = 37 /\ Escapes(seq[2], seq[3], text[i])
      <4>1. 1 \in 1 .. 3 /\ 2 \in 1 .. 3 /\ 3 \in 1 .. 3
        OBVIOUS
      <4>2. flat[s + 1] = 37 /\ flat[s + 2] = seq[2] /\ flat[s + 3] = seq[3]
        BY <2>3, <3>1, <3>4, <4>1, Zenon
      <4> QED
        BY <2>3, <3>1, <3>4, <4>2, Zenon DEF Percent
    <3>5. CASE Len(seq) = 1 /\ seq[1] = 43 /\ text[i] = 32
      <4>1. 1 \in 1 .. 1
        OBVIOUS
      <4> QED
        BY <2>3, <3>1, <3>5, <4>1, Zenon DEF Plus
    <3> QED
      BY <3>2, <3>3, <3>4, <3>5, Zenon DEF IsEscaped
  <2>6. s <= Len(flat) /\ Rest(decode[s + 1], text, i)
    BY <1>2, <2>4, <2>5, ByteBack, Zenon DEF n
  <2> QED
    BY <2>2, <2>6, Zenon DEF L
<1> HIDE DEF Back
<1>6. 0 \in T
  <2>1. n + 1 - 0 = n + 1
    BY <1>3
  <2> QED
    BY <1>4, <2>1
<1>7. ASSUME NEW m \in T PROVE m + 1 \in T
  <2> SUFFICES ASSUME m + 1 <= n PROVE Back(n + 1 - (m + 1))
    OBVIOUS
  <2>1. /\ n + 1 - (m + 1) \in 1 .. n /\ m <= n
        /\ (n + 1 - (m + 1)) + 1 = n + 1 - m
    BY <1>3
  <2>2. Back(n + 1 - m)
    BY <2>1
  <2> QED
    BY <1>5, <2>1, <2>2, Zenon
<1>8. T = Nat
  <2>1. T \subseteq Nat
    OBVIOUS
  <2> HIDE DEF T
  <2> QED
    BY <1>6, <1>7, <2>1, Induct
<1>9. Back(1)
  <2>1. n + 1 - n = 1 /\ n <= n
    BY <1>3
  <2>2. n \in T
    BY <1>3, <1>8
  <2> QED
    BY <2>1, <2>2
<1>10. Rest(decode[1], text, 1)
  <2>1. 0 + 1 = 1
    OBVIOUS
  <2> QED
    BY <1>1, <1>9, <2>1, Zenon DEF Back
<1>11. PICK u : u = decode[1]
    BY Zenon
<1>12. /\ u \in Seq(Bytes) /\ Len(u) = Len(text) + 1 - 1
       /\ \A j \in 1 .. Len(text) + 1 - 1 : u[j] = text[(1 - 1) + j]
    BY <1>10, <1>11, Zenon DEF Rest
<1>13. Len(text) + 1 - 1 = Len(text) /\ \A j \in 1 .. Len(text) : (1 - 1) + j = j
    OBVIOUS
<1>14. u = text
  <2>1. Len(u) = Len(text) /\ \A j \in 1 .. Len(u) : u[j] = text[j]
    BY <1>12, <1>13
  <2> QED
    BY <1>12, <2>1, SameElements
<1> QED
    BY <1>2, <1>11, <1>14, Zenon

(* A text that was escaped, but for some bytes that are no percent and no  *)
(* plus, in small or capital digits, is decoded to itself.                 *)
LEMMA EscapedBack ==
    ASSUME NEW text \in Seq(Bytes), NEW plain, 37 \notin plain, 43 \notin plain,
           NEW ten \in {65, 97}
    PROVE  Urldecode(Escaped(text, plain, ten)) = text
<1> DEFINE n == Len(text)
           Q == Seq(Bytes)
<1>1. PICK seqs : seqs = [i \in DOMAIN text |-> EscapedByte(text[i], plain, ten)]
    BY Zenon
<1>2. n \in Nat /\ DOMAIN text = 1 .. n
    OBVIOUS
<1>3. ASSUME NEW i \in 1 .. n PROVE IsEscaped(seqs[i], text[i])
  <2>1. text[i] \in Bytes
    BY Element
  <2>2. seqs[i] = EscapedByte(text[i], plain, ten)
    <3>1. i \in DOMAIN text
      BY <1>2, Zenon
    <3> QED
      BY <1>1, <3>1
  <2>3. IsEscaped(EscapedByte(text[i], plain, ten), text[i])
    BY <2>1, EscapedByteIs
  <2> QED
    BY <2>2, <2>3, Zenon
<1>4. seqs = [i \in 1 .. n |-> seqs[i]]
    BY <1>1, <1>2
<1> HIDE DEF n, Q
<1>5. seqs \in Seq(Q) /\ Len(seqs) = n
  <2>1. \A i \in 1 .. n : seqs[i] \in Q
    BY <1>3, Zenon DEF IsEscaped, Q
  <2>2. seqs \in [1 .. n -> Q]
    BY <1>4, <2>1
  <2> QED
    BY <1>2, <2>2
<1>6. PICK flat : flat = FlattenSeq(seqs)
    BY Zenon
<1>7. flat \in Seq(Bytes)
    BY <1>5, <1>6, FlattenType, Zenon DEF Q
<1>8. PICK start : Laid(seqs, flat, start)
    BY <1>5, <1>6, FlattenLaid, Zenon DEF Q
<1>9. Urldecode(flat) = text
    BY <1>3, <1>5, <1>7, <1>8, LaidBack, Zenon DEF n
<1> QED
    BY <1>1, <1>6, <1>9, Zenon DEF Escaped

(* An encoded key is a text of seven-bit bytes.                            *)
LEMMA KeyIsText ==
    ASSUME NEW k \in Seq(Bytes), NEW first \in {65, 97}
    PROVE  Encode32(k, first) \in Seq(0 .. 127)
<1>1. CASE k = <<>>
  <2>1. Encode32(k, first) = <<>>
    BY <1>1, NothingBack, Zenon
  <2>2. <<>> \in Seq(0 .. 127)
    OBVIOUS
  <2> QED
    BY <2>1, <2>2, Zenon
<1>2. CASE k # <<>>
  <2>1. Len(k) >= 1
    BY <1>2
  <2>2. PICK fill, chars : Carries(Encode32(k, first), fill, chars)
    BY <2>1, EncodedCarries
  <2> QED
    BY <2>2, Zenon DEF Carries
<1> QED
    BY <1>1, <1>2

(* A text of ASCII is UTF-8.                                               *)
LEMMA AsciiIsUtf8 ==
    ASSUME NEW text \in Seq(0 .. 127)
    PROVE  text \in Seq(Bytes) /\ IsUtf8(text)
<1>1. text \in Seq(Bytes)
  <2>1. 0 .. 127 \subseteq Bytes
    BY DEF Bytes
  <2> QED
    BY <2>1, SeqOfMore, Zenon
<1>2. ASSUME NEW i \in DOMAIN text PROVE CharLength(text[i]) = 1
  <2> DEFINE S == 0 .. 127
  <2>1. text \in Seq(S)
    OBVIOUS
  <2>2. ASSUME NEW x \in S PROVE CharLength(x) = 1
    <3>1. /\ x < 128 /\ x \notin 194 .. 223 /\ x \notin 224 .. 239
          /\ x \notin 240 .. 244
      OBVIOUS
    <3> QED
      BY <3>1 DEF CharLength
  <2> HIDE DEF S
  <2>3. text[i] \in S
    BY <2>1
  <2> QED
    BY <2>2, <2>3
<1>3. ASSUME NEW i \in DOMAIN text
      PROVE  /\ CharLength(text[i]) > 0
             /\ \A j \in 1 .. CharLength(text[i]) - 1 :
                   /\ i + j <= Len(text)
                   /\ text[i + j] \in IF j = 1 THEN SecondBytes(text[i])
                                       ELSE 128 .. 191
  <2>1. CharLength(text[i]) > 0 /\ 1 .. CharLength(text[i]) - 1 = {}
    BY <1>2
  <2> QED
    BY <2>1, Zenon
<1>4. IsUtf8(text)
    BY <1>3, Zenon DEF IsUtf8
<1> QED
    BY <1>1, <1>4

(* A property as those who issue URLs write it: the secret is a key in     *)
(* base 32, in small letters or capitals, or not base 32 at all; the       *)
(* issuer is any text, UTF-8 or not; both are escaped, but for some bytes, *)
(* among which no percent and no plus is; the other values are sent as     *)
(* they are.                                                               *)
PlainSets == SUBSET (Bytes \ {37, 43})

IssuedKey(p) ==
    \E k \in Seq(Bytes), first \in {65, 97}, plain \in PlainSets, ten \in {65, 97} :
        /\ p.value = Escaped(Encode32(k, first), plain, ten)
        /\ p.valid = TRUE /\ p.meant = k

IssuedOther(p) ==
    \E text \in Seq(Bytes), plain \in PlainSets, ten \in {65, 97} :
        /\ p.value = Escaped(text, plain, ten) /\ ~Base32Valid(text)
        /\ p.valid = IsUtf8(text) /\ (p.valid => p.meant = <<>>)

IssuedIssuer(p) ==
    \E text \in Seq(Bytes), plain \in PlainSets, ten \in {65, 97} :
        /\ p.value = Escaped(text, plain, ten)
        /\ p.valid = IsUtf8(text) /\ (p.valid => p.meant = text)

Issued(p) ==
    /\ p.name = "secret" => IssuedKey(p) \/ IssuedOther(p)
    /\ p.name = "issuer" => IssuedIssuer(p)
    /\ p.name \in {"algorithm", "digits", "period"} => p.valid /\ p.meant = p.value

(* A key comes back.                                                       *)
LEMMA KeyDecoded ==
    ASSUME NEW p, p.name = "secret", IssuedKey(p)
    PROVE  Decoded(p)
<1>1. PICK k \in Seq(Bytes), first \in {65, 97}, plain \in PlainSets, ten \in {65, 97} :
          /\ p.value = Escaped(Encode32(k, first), plain, ten)
          /\ p.valid = TRUE /\ p.meant = k
    BY Zenon DEF IssuedKey
<1>2. PICK text : text = Encode32(k, first)
    BY Zenon
<1>3. text \in Seq(Bytes) /\ IsUtf8(text)
  <2>1. text \in Seq(0 .. 127)
    BY <1>2, KeyIsText
  <2> QED
    BY <2>1, AsciiIsUtf8
<1>4. Base32Valid(text) /\ DecodeBase32(text) = k
    BY <1>2, KeyBack
<1>5. 37 \notin plain /\ 43 \notin plain
    BY DEF PlainSets
<1>6. Urldecode(Escaped(text, plain, ten)) = text
    BY <1>3, <1>5, EscapedBack
<1>7. Urldecode(p.value) = text
    BY <1>1, <1>2, <1>6, Zenon
<1>8. p.valid = IsUtf8(text)
    BY <1>1, <1>3
<1>9. "secret" # "issuer" /\ "secret" \notin {"algorithm", "digits", "period"}
    OBVIOUS
<1> QED
    BY <1>1, <1>4, <1>7, <1>8, <1>9, Zenon DEF Decoded

(* A text that is no key does not become one.                              *)
LEMMA OtherDecoded ==
    ASSUME NEW p, p.name = "secret", IssuedOther(p)
    PROVE  Decoded(p)
<1>1. PICK text \in Seq(Bytes), plain \in PlainSets, ten \in {65, 97} :
          /\ p.value = Escaped(text, plain, ten) /\ ~Base32Valid(text)
          /\ p.valid = IsUtf8(text) /\ (p.valid => p.meant = <<>>)
    BY Zenon DEF IssuedOther
<1>2. 37 \notin plain /\ 43 \notin plain
    BY DEF PlainSets
<1>3. Urldecode(Escaped(text, plain, ten)) = text
    BY <1>2, EscapedBack
<1>4. Urldecode(p.value) = text
    BY <1>1, <1>3, Zenon
<1>5. "secret" # "issuer" /\ "secret" \notin {"algorithm", "digits", "period"}
    OBVIOUS
<1> QED
    BY <1>1, <1>4, <1>5, Zenon DEF Decoded

(* The name of the issuer comes back.                                      *)
LEMMA IssuerDecoded ==
    ASSUME NEW p, p.name = "issuer", IssuedIssuer(p)
    PROVE  Decoded(p)
<1>1. PICK text \in Seq(Bytes), plain \in PlainSets, ten \in {65, 97} :
          /\ p.value = Escaped(text, plain, ten)
          /\ p.valid = IsUtf8(text) /\ (p.valid => p.meant = text)
    BY Zenon DEF IssuedIssuer
<1>2. 37 \notin plain /\ 43 \notin plain
    BY DEF PlainSets
<1>3. Urldecode(Escaped(text, plain, ten)) = text
    BY <1>2, EscapedBack
<1>4. Urldecode(p.value) = text
    BY <1>1, <1>3, Zenon
<1>5. "secret" # "issuer" /\ "issuer" \notin {"algorithm", "digits", "period"}
    OBVIOUS
<1> QED
    BY <1>1, <1>4, <1>5, Zenon DEF Decoded

(* Each property comes back.                                               *)
LEMMA PropertyDecoded ==
    ASSUME NEW p, Issued(p)
    PROVE  Decoded(p)
<1>1. CASE p.name = "secret"
    BY <1>1, KeyDecoded, OtherDecoded DEF Issued
<1>2. CASE p.name = "issuer"
    BY <1>2, IssuerDecoded DEF Issued
<1>3. CASE p.name \notin {"secret", "issuer"}
    BY <1>3 DEF Issued, Decoded
<1> QED
    BY <1>1, <1>2, <1>3

(* If the properties are written as issuers write them, each one of every  *)
(* URL is decoded as what was encoded: no key of any length, no byte of a  *)
(* name and no choice of what is escaped is lost in try_from_otpauth_url.  *)
THEOREM IssuedIsDecoded ==
    ASSUME \A p \in Properties : Issued(p)
    PROVE  Spec => []EachPropertyDecoded
<1>1. \A p \in Properties : Decoded(p)
    BY PropertyDecoded
<1>2. UrlInv => EachPropertyDecoded
    BY <1>1 DEF UrlInv, EachPropertyDecoded
<1>3. Init => UrlInv
    BY UrlInitially
<1>4. UrlInv /\ [Next]_vars => UrlInv'
    BY UrlStep
<1> QED
    BY <1>2, <1>3, <1>4, PTL DEF Spec

(* And every URL made of them yields the key and the settings.             *)
THEOREM IssuedIsApplied ==
    ASSUME \A p \in Properties : Issued(p)
    PROVE  Spec => []UrlApplied
<1>1. \A p \in Properties : Decoded(p)
    BY PropertyDecoded
<1> QED
    BY <1>1, UrlAlwaysApplied
=============================================================================
