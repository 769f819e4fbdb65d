----------------------------- MODULE Elementary -----------------------------
(***************************************************************************)
(* Elementary facts that several proofs rest on: quotients and remainders, *)
(* sequences and their parts, and functions defined by recursion over the  *)
(* numbers.  The library states induction with an operator as a parameter; *)
(* here it is stated of a set (Induct), and from that it follows that      *)
(* recursive functions exist (Recursion).                                  *)
(***************************************************************************)
EXTENDS Integers, Sequences, WellFoundedInduction, TLAPS

-----------------------------------------------------------------------------
(* Numbers.                                                                *)

(* Quotient and remainder.                                                 *)
LEMMA DivMod ==
    ASSUME NEW a \in Int, NEW d \in Nat \ {0}
    PROVE  /\ a \div d \in Int /\ a % d \in 0 .. d - 1
           /\ a = d * (a \div d) + (a % d)
<1>1. a \div d \in Int
    OBVIOUS
<1>2. a % d \in 0 .. d - 1
    OBVIOUS
<1>3. a = d * (a \div d) + (a % d)
    OBVIOUS
<1> QED
    BY <1>1, <1>2, <1>3

(* They are the only ones.                                                 *)
LEMMA DivModUnique ==
    ASSUME NEW d \in Nat \ {0}, NEW q \in Int, NEW r \in 0 .. d - 1
    PROVE  (d * q + r) \div d = q /\ (d * q + r) % d = r
    OBVIOUS

(* A quotient of a quotient.                                               *)
LEMMA DivDiv ==
    ASSUME NEW a \in Int, NEW d \in Nat \ {0}, NEW e \in Nat \ {0}
    PROVE  a \div (d * e) = (a \div d) \div e
<1> DEFINE q == a \div d
           r == a % d
           p == q \div e
           s == q % e
<1>1. q \in Int /\ r \in 0 .. d - 1 /\ a = d * q + r
    BY DivMod
<1>2. p \in Int /\ s \in 0 .. e - 1 /\ q = e * p + s
    BY <1>1, DivMod
<1> HIDE DEF q, r, p, s
<1>3. d * e \in Nat \ {0}
    OBVIOUS
<1>4. d * s + r \in 0 .. d * e - 1
  <2>1. d * s <= d * (e - 1) /\ d * s >= 0
    BY <1>2
  <2>2. d * (e - 1) = d * e - d
    OBVIOUS
  <2> QED
    BY <1>1, <1>2, <1>3, <2>1, <2>2
<1>5. a = (d * e) * p + (d * s + r)
  <2>1. d * q = (d * e) * p + d * s
    BY <1>2
  <2> QED
    BY <1>1, <1>2, <2>1
<1>6. a \div (d * e) = p
    BY <1>2, <1>3, <1>4, <1>5, DivModUnique
<1> QED
    BY <1>6 DEF p, q

-----------------------------------------------------------------------------
(* Sequences.                                                              *)

(* One sequence after another.                                             *)
LEMMA Concatenation ==
    ASSUME NEW S, NEW s \in Seq(S), NEW t \in Seq(S)
    PROVE  /\ s \o t \in Seq(S) /\ Len(s \o t) = Len(s) + Len(t)
           /\ \A i \in 1 .. Len(s) : (s \o t)[i] = s[i]
           /\ \A i \in 1 .. Len(t) : (s \o t)[Len(s) + i] = t[i]
<1>1. s \o t \in Seq(S)
    OBVIOUS
<1>2. Len(s \o t) = Len(s) + Len(t)
    OBVIOUS
<1>3. \A i \in 1 .. Len(s) : (s \o t)[i] = s[i]
    OBVIOUS
<1>4. \A i \in 1 .. Len(t) : (s \o t)[Len(s) + i] = t[i]
    OBVIOUS
<1> QED
    BY <1>1, <1>2, <1>3, <1>4

(* A part of a sequence.                                                   *)
LEMMA Part ==
    ASSUME NEW S, NEW s \in Seq(S), NEW m \in Nat, NEW n \in Nat,
           m + n <= Len(s)
    PROVE  /\ SubSeq(s, m + 1, m + n) \in Seq(S)
           /\ Len(SubSeq(s, m + 1, m + n)) = n
           /\ \A i \in 1 .. n : SubSeq(s, m + 1, m + n)[i] = s[m + i]
<1>1. SubSeq(s, m + 1, m + n) \in Seq(S)
    OBVIOUS
<1>2. Len(SubSeq(s, m + 1, m + n)) = n
    OBVIOUS
<1>3. \A i \in 1 .. n : SubSeq(s, m + 1, m + n)[i] = s[m + i]
    OBVIOUS
<1> QED
    BY <1>1, <1>2, <1>3

(* Sequences are equal when their elements are.                            *)
LEMMA SameElements ==
    ASSUME NEW S, NEW s \in Seq(S), NEW R, NEW t \in Seq(R), Len(s) = Len(t),
           \A i \in 1 .. Len(s) : s[i] = t[i]
    PROVE  s = t
    OBVIOUS

(* An element of a sequence.                                               *)
LEMMA Element ==
    ASSUME NEW S, NEW s \in Seq(S), NEW i \in 1 .. Len(s)
    PROVE  s[i] \in S
    OBVIOUS

(* A sequence over a set is one over a larger set.                         *)
LEMMA SeqOfMore ==
    ASSUME NEW S, NEW R, S \subseteq R, NEW s \in Seq(S)
    PROVE  s \in Seq(R)
    OBVIOUS

-----------------------------------------------------------------------------
(* Recursion.                                                              *)

(* What holds of 0 and, with each number, of the next, holds of all.       *)
LEMMA Induct ==
    ASSUME NEW T, T \subseteq Nat, 0 \in T, \A n \in T : n + 1 \in T
    PROVE  T = Nat
<1> SUFFICES ASSUME Nat \ T # {} PROVE FALSE
    OBVIOUS
<1>1. PICK n \in Nat \ T : \A m \in Nat \ T : ~ (<<m, n>> \in OpToRel(<, Nat))
    BY NatLessThanWellFounded, WFMin
<1>2. n # 0 /\ n - 1 \in Nat /\ n - 1 < n
    OBVIOUS
<1>3. n - 1 \in T
    BY <1>1, <1>2 DEF OpToRel
<1>4. (n - 1) + 1 = n
    OBVIOUS
<1> QED
    BY <1>3, <1>4

(* Values in S: an initial one, and F from each number and value the next. *)
Sequel(S, s, F, n, f) ==
    /\ f \in [0 .. n -> S] /\ f[0] = s
    /\ \A i \in 0 .. n - 1 : f[i + 1] = F[i][f[i]]

(* There are such values up to each number.                                *)
LEMMA SequelExists ==
    ASSUME NEW S, NEW s \in S, NEW F \in [Nat -> [S -> S]], NEW n \in Nat
    PROVE  \E f : Sequel(S, s, F, n, f)
<1> DEFINE T == { m \in Nat : \E f : Sequel(S, s, F, m, f) }
<1>1. 0 \in T
  <2>1. Sequel(S, s, F, 0, [i \in 0 .. 0 |-> s])
    BY DEF Sequel
  <2> QED
    BY <2>1
<1>2. ASSUME NEW m \in T PROVE m + 1 \in T
  <2>1. PICK f : Sequel(S, s, F, m, f)
    OBVIOUS
  <2> DEFINE g == [i \in 0 .. m + 1 |-> IF i = m + 1 THEN F[m][f[m]] ELSE f[i]]
  <2>2. f[m] \in S /\ F[m] \in [S -> S]
    BY <2>1 DEF Sequel
  <2>3. g \in [0 .. m + 1 -> S] /\ g[0] = s
    BY <2>1, <2>2 DEF Sequel
  <2>4. ASSUME NEW i \in 0 .. (m + 1) - 1 PROVE g[i + 1] = F[i][g[i]]
    <3>1. CASE i = m
      BY <3>1
    <3>2. CASE i \in 0 .. m - 1
      BY <2>1, <3>2 DEF Sequel
    <3> QED
      BY <3>1, <3>2
  <2>5. Sequel(S, s, F, m + 1, g)
    BY <2>3, <2>4 DEF Sequel
  <2> QED
    BY <2>5
<1>3. T = Nat
  <2> HIDE DEF T
  <2>1. T \subseteq Nat
    BY DEF T
  <2> QED
    BY <1>1, <1>2, <2>1, Induct
<1> QED
    BY <1>3

(* And no others.                                                          *)
LEMMA SequelUnique ==
    ASSUME NEW S, NEW s \in S, NEW F \in [Nat -> [S -> S]],
           NEW m \in Nat, NEW f, Sequel(S, s, F, m, f),
           NEW n \in Nat, NEW g, Sequel(S, s, F, n, g),
           NEW k \in Nat, k <= m, k <= n
    PROVE  f[k] = g[k]
<1> DEFINE T == { i \in Nat : i <= m /\ i <= n => f[i] = g[i] }
<1>1. 0 \in T
    BY DEF Sequel
<1>2. ASSUME NEW i \in T PROVE i + 1 \in T
    BY DEF Sequel
<1>3. T = Nat
  <2> HIDE DEF T
  <2>1. T \subseteq Nat
    BY DEF T
  <2> QED
    BY <1>1, <1>2, <2>1, Induct
<1> QED
    BY <1>3

(* A function on all numbers that goes on in this way.                     *)
StepsOn(S) == [Nat -> [S -> S]]

Follows(f, S, s, F) ==
    /\ f \in [Nat -> S] /\ f[0] = s
    /\ \A i \in Nat : f[i + 1] = F[i][f[i]]

(* A function on all numbers is defined by recursion.                      *)
LEMMA Recursion ==
    ASSUME NEW S, NEW s \in S, NEW F \in StepsOn(S)
    PROVE  \E f : Follows(f, S, s, F)
<1> USE DEF StepsOn
<1> DEFINE At(n) == CHOOSE f : Sequel(S, s, F, n, f)
           f == [n \in Nat |-> At(n)[n]]
<1>1. ASSUME NEW n \in Nat PROVE Sequel(S, s, F, n, At(n))
    BY SequelExists
<1> HIDE DEF At
<1>2. f \in [Nat -> S] /\ f[0] = s
    BY <1>1 DEF Sequel
<1>3. ASSUME NEW i \in Nat PROVE f[i + 1] = F[i][f[i]]
  <2>1. Sequel(S, s, F, i + 1, At(i + 1)) /\ Sequel(S, s, F, i, At(i))
    BY <1>1
  <2>2. At(i + 1)[i] = At(i)[i]
    BY <2>1, SequelUnique
  <2>3. At(i + 1)[i + 1] = F[i][At(i + 1)[i]]
    BY <2>1 DEF Sequel
  <2> QED
    BY <2>2, <2>3
<1>4. Follows(f, S, s, F)
  <2> HIDE DEF f
  <2> QED
    BY <1>2, <1>3 DEF Follows
<1> QED
    BY <1>4

=============================================================================
