--------------------------- MODULE ProtocolProofs ---------------------------
(***************************************************************************)
(* Proofs about the Wayland protocol in Clipboard, for every id space and  *)
(* every bound: each request is legal when the compositor reads it, each   *)
(* event reaches the branch of its own object, the client's idea of who    *)
(* owns the selection agrees with the compositor's up to what is in        *)
(* flight, a chosen code is published and no descriptor is leaked.         *)
(*                                                                         *)
(* First come lemmas about the two directions of the socket: a queue q of  *)
(* requests that a compositor with the objects o and the used sources u    *)
(* has yet to read, n being the next id of the client, and a queue c of    *)
(* events that the client has yet to take.  QueueSound and EventsSound say *)
(* what such queues are like, whichever end runs first; the lemmas say     *)
(* that each request that is sent or read, and each event, keeps them so.  *)
(* The invariant is built on them.                                         *)
(***************************************************************************)
EXTENDS ClipboardProofs, FiniteSetTheorems

-----------------------------------------------------------------------------
(* Sequences.                                                              *)

(* The elements of a sequence and of its tail.                             *)
LEMMA TailIndex ==
    ASSUME NEW S, NEW q \in Seq(S), q # <<>>
    PROVE  /\ Len(q) \in Nat /\ DOMAIN q = 1 .. Len(q) /\ 1 \in DOMAIN q
           /\ Head(q) = q[1] /\ Tail(q) \in Seq(S)
           /\ Len(Tail(q)) = Len(q) - 1 /\ DOMAIN Tail(q) = 1 .. Len(q) - 1
           /\ \A i \in DOMAIN Tail(q) :
                  i \in Nat /\ i + 1 \in DOMAIN q /\ Tail(q)[i] = q[i + 1]
           /\ \A i \in DOMAIN q : i = 1 \/ /\ i - 1 \in DOMAIN Tail(q)
                                           /\ Tail(q)[i - 1] = q[i]
<1>1. Len(q) \in Nat /\ DOMAIN q = 1 .. Len(q) /\ Len(q) # 0
    BY LenProperties, EmptySeq
<1>2. /\ Tail(q) \in Seq(S) /\ Len(Tail(q)) = Len(q) - 1
      /\ \A i \in 1 .. Len(Tail(q)) : Tail(q)[i] = q[i + 1]
    BY HeadTailProperties
<1>3. DOMAIN Tail(q) = 1 .. Len(q) - 1
    BY <1>2, LenProperties
<1>4. Head(q) = q[1]
    OBVIOUS
<1>5. \A i \in DOMAIN Tail(q) :
          i \in Nat /\ i + 1 \in DOMAIN q /\ Tail(q)[i] = q[i + 1]
    BY <1>1, <1>2, <1>3
<1>6. \A i \in DOMAIN q : i = 1 \/ /\ i - 1 \in DOMAIN Tail(q)
                                   /\ Tail(q)[i - 1] = q[i]
    BY <1>1, <1>2, <1>3
<1> QED
    BY <1>1, <1>2, <1>3, <1>4, <1>5, <1>6

(* The elements of a sequence to which one was appended.                   *)
LEMMA AppendIndex ==
    ASSUME NEW S, NEW q \in Seq(S), NEW r \in S
    PROVE  /\ Len(q) \in Nat /\ DOMAIN q = 1 .. Len(q)
           /\ Append(q, r) \in Seq(S) /\ Len(Append(q, r)) = Len(q) + 1
           /\ DOMAIN Append(q, r) = 1 .. Len(q) + 1
           /\ \A i \in DOMAIN q : /\ i \in DOMAIN Append(q, r) /\ i \in Nat
                                  /\ i < Len(q) + 1 /\ Append(q, r)[i] = q[i]
           /\ Append(q, r)[Len(q) + 1] = r
           /\ \A i \in DOMAIN Append(q, r) : i \in DOMAIN q \/ i = Len(q) + 1
<1>1. Len(q) \in Nat /\ DOMAIN q = 1 .. Len(q)
    BY LenProperties
<1>2. /\ Append(q, r) \in Seq(S) /\ Len(Append(q, r)) = Len(q) + 1
      /\ \A i \in 1 .. Len(q) : Append(q, r)[i] = q[i]
      /\ Append(q, r)[Len(q) + 1] = r
    BY AppendProperties
<1>3. DOMAIN Append(q, r) = 1 .. Len(q) + 1
    BY <1>2, LenProperties
<1> QED
    BY <1>1, <1>2, <1>3

(* An element that is appended is concatenated.                            *)
LEMMA AppendOne ==
    ASSUME NEW S, NEW q \in Seq(S), NEW r \in S
    PROVE  q \o << r >> = Append(q, r)
    OBVIOUS

(* A sequence that ends in what was appended.                              *)
LEMMA ConcatAppend ==
    ASSUME NEW S, NEW q \in Seq(S), NEW t \in Seq(S), NEW r \in S
    PROVE  q \o Append(t, r) = Append(q \o t, r)
<1>1. << r >> \in Seq(S)
    OBVIOUS
<1>2. q \o t \in Seq(S)
    BY ConcatProperties
<1>3. (q \o t) \o << r >> = q \o (t \o << r >>)
    BY <1>1, ConcatAssociative
<1> QED
    BY <1>2, <1>3, AppendOne

(* What a tuple is when one element is appended.                           *)
LEMMA TupleOfTwo ==
    ASSUME NEW S, NEW a \in S, NEW b \in S
    PROVE  Append(<< a >>, b) = << a, b >>
<1>1. << a >> \in Seq(S) /\ << a, b >> \in Seq(S)
    OBVIOUS
<1>2. Len(<< a >>) = 1 /\ Len(<< a, b >>) = 2
    OBVIOUS
<1>3. Append(<< a >>, b) \in Seq(S) /\ Len(Append(<< a >>, b)) = 2
    BY <1>1, <1>2, AppendProperties
<1>4. \A i \in 1 .. 2 : Append(<< a >>, b)[i] = << a, b >>[i]
    OBVIOUS
<1> QED
    BY <1>1, <1>2, <1>3, <1>4, SeqEqual

(* ... of three elements.                                                  *)
LEMMA TupleOfThree ==
    ASSUME NEW S, NEW a \in S, NEW b \in S, NEW c \in S
    PROVE  Append(<< a, b >>, c) = << a, b, c >>
<1>1. << a, b >> \in Seq(S) /\ << a, b, c >> \in Seq(S)
    OBVIOUS
<1>2. Len(<< a, b >>) = 2 /\ Len(<< a, b, c >>) = 3
    OBVIOUS
<1>3. Append(<< a, b >>, c) \in Seq(S) /\ Len(Append(<< a, b >>, c)) = 3
    BY <1>1, <1>2, AppendProperties
<1>4. \A i \in 1 .. 3 : Append(<< a, b >>, c)[i] = << a, b, c >>[i]
    OBVIOUS
<1> QED
    BY <1>1, <1>2, <1>3, <1>4, SeqEqual

(* ... of four elements.                                                   *)
LEMMA TupleOfFour ==
    ASSUME NEW S, NEW a \in S, NEW b \in S, NEW c \in S,
           NEW d \in S
    PROVE  Append(<< a, b, c >>, d) = << a, b, c, d >>
<1>1. << a, b, c >> \in Seq(S) /\ << a, b, c, d >> \in Seq(S)
    OBVIOUS
<1>2. Len(<< a, b, c >>) = 3 /\ Len(<< a, b, c, d >>) = 4
    OBVIOUS
<1>3. Append(<< a, b, c >>, d) \in Seq(S) /\ Len(Append(<< a, b, c >>, d)) = 4
    BY <1>1, <1>2, AppendProperties
<1>4. \A i \in 1 .. 4 : Append(<< a, b, c >>, d)[i] = << a, b, c, d >>[i]
    OBVIOUS
<1> QED
    BY <1>1, <1>2, <1>3, <1>4, SeqEqual

(* ... of five elements.                                                   *)
LEMMA TupleOfFive ==
    ASSUME NEW S, NEW a \in S, NEW b \in S, NEW c \in S,
           NEW d \in S, NEW e \in S
    PROVE  Append(<< a, b, c, d >>, e) = << a, b, c, d, e >>
<1>1. << a, b, c, d >> \in Seq(S) /\ << a, b, c, d, e >> \in Seq(S)
    OBVIOUS
<1>2. Len(<< a, b, c, d >>) = 4 /\ Len(<< a, b, c, d, e >>) = 5
    OBVIOUS
<1>3. Append(<< a, b, c, d >>, e) \in Seq(S) /\ Len(Append(<< a, b, c, d >>, e)) = 5
    BY <1>1, <1>2, AppendProperties
<1>4. \A i \in 1 .. 5 : Append(<< a, b, c, d >>, e)[i] = << a, b, c, d, e >>[i]
    OBVIOUS
<1> QED
    BY <1>1, <1>2, <1>3, <1>4, SeqEqual

(* A few elements are appended one at a time.                              *)
LEMMA AppendTwo ==
    ASSUME NEW S, NEW q \in Seq(S), NEW a \in S, NEW b \in S
    PROVE  q \o << a, b >> = Append(Append(q, a), b)
<1>1. Append(<< a >>, b) = << a, b >>
    BY TupleOfTwo, TupleOfThree, TupleOfFour, TupleOfFive
<1>2. << a >> \in Seq(S)
    OBVIOUS
<1>3. q \o Append(<< a >>, b) = Append(q \o << a >>, b)
    BY <1>2, ConcatAppend
<1> QED
    BY <1>1, <1>3, AppendOne

(* ... three elements.                                                     *)
LEMMA AppendThree ==
    ASSUME NEW S, NEW q \in Seq(S), NEW a \in S, NEW b \in S, NEW c \in S
    PROVE  q \o << a, b, c >> = Append(Append(Append(q, a), b), c)
<1>1. Append(<< a, b >>, c) = << a, b, c >>
    BY TupleOfTwo, TupleOfThree, TupleOfFour, TupleOfFive
<1>2. << a, b >> \in Seq(S)
    OBVIOUS
<1>3. q \o Append(<< a, b >>, c) = Append(q \o << a, b >>, c)
    BY <1>2, ConcatAppend
<1> QED
    BY <1>1, <1>3, AppendTwo

(* Five elements of a set are a sequence over it.                          *)
LEMMA FiveElements ==
    ASSUME NEW S, NEW a \in S, NEW b \in S, NEW c \in S, NEW d \in S,
           NEW e \in S
    PROVE  << a, b, c, d, e >> \in Seq(S)
    OBVIOUS

(* ... five elements.                                                      *)
LEMMA AppendFive ==
    ASSUME NEW S, NEW q \in Seq(S), NEW a \in S, NEW b \in S, NEW c \in S,
           NEW d \in S, NEW e \in S
    PROVE  q \o << a, b, c, d, e >> =
           Append(Append(Append(Append(Append(q, a), b), c), d), e)
<1>1. Append(<< a, b, c >>, d) = << a, b, c, d >>
    BY TupleOfTwo, TupleOfThree, TupleOfFour, TupleOfFive
<1>2. Append(<< a, b, c, d >>, e) = << a, b, c, d, e >>
    BY TupleOfTwo, TupleOfThree, TupleOfFour, TupleOfFive
<1>3. << a, b, c >> \in Seq(S)
    OBVIOUS
<1>4. << a, b, c, d >> \in Seq(S)
    OBVIOUS
<1>5. q \o Append(<< a, b, c >>, d) = Append(q \o << a, b, c >>, d)
    BY <1>3, ConcatAppend
<1>6. q \o Append(<< a, b, c, d >>, e) = Append(q \o << a, b, c, d >>, e)
    BY <1>4, ConcatAppend
<1> QED
    BY <1>1, <1>2, <1>5, <1>6, AppendThree

-----------------------------------------------------------------------------
(* A queue of requests.                                                    *)

Creating(r) == r.op \in {"bind"} \cup DOMAIN Creates
KindMade(r) == IF r.op = "bind" THEN r.iface ELSE Creates[r.op]

(* When the k-th request is read, id is an object of this kind.            *)
Made(o, q, id, kind, k) ==
    \/ id \in DOMAIN o /\ o[id] = kind
    \/ \E i \in DOMAIN q : /\ i < k /\ Creating(q[i])
                           /\ q[i].id = id /\ KindMade(q[i]) = kind

(* The requests of the queue make the objects up to n, without gaps.       *)
Gapless(o, q, n) ==
    /\ Len(o) < n
    /\ \A i \in DOMAIN q : Creating(q[i]) => Len(o) < q[i].id /\ q[i].id < n
    /\ \A i, j \in DOMAIN q :
          i < j /\ Creating(q[i]) /\ Creating(q[j]) => q[i].id < q[j].id
    /\ \A id \in Nat : Len(o) < id /\ id < n =>
          \E i \in DOMAIN q : Creating(q[i]) /\ q[i].id = id

(* The objects that a request names are there when it is read, and a       *)
(* source is selected after all that were used before.                     *)
RequestSound(o, u, q, r, k) ==
    /\ Made(o, q, r.obj, InterfaceOf(r.op), k)
    /\ r.op = "get_data_device" => Made(o, q, r.seat, "wl_seat", k)
    /\ r.op = "offer" => r.obj \notin u
    /\ r.op = "set_selection" =>
          /\ Made(o, q, r.source, "ext_data_control_source_v1", k)
          /\ \A s \in u : s < r.source

(* Nothing is offered after it was selected, or named after it was         *)
(* destroyed, and sources are selected in the order of their ids.          *)
PairSound(r, t) ==
    /\ r.op = "set_selection" =>
          /\ t.op = "offer" => t.obj # r.source
          /\ t.op = "set_selection" => r.source < t.source
    /\ r.op = "destroy" =>
          /\ t.op \in {"offer", "destroy"} => t.obj # r.obj
          /\ t.op = "set_selection" => t.source # r.obj

(* What reading a request makes of the objects: it appends the one that it *)
(* creates and leaves all others alone except for those that are gone.     *)
ReadMakes(o, after, r, gone) ==
    /\ Len(after) = IF Creating(r) THEN Len(o) + 1 ELSE Len(o)
    /\ \A i \in DOMAIN o : i \notin gone => i \in DOMAIN after /\ after[i] = o[i]
    /\ Creating(r) => r.id \in DOMAIN after /\ after[r.id] = KindMade(r)

(* A request does not name what is gone or offer or select what is used.   *)
Spares(r, gone, now) ==
    /\ r.obj \notin gone
    /\ r.op = "get_data_device" => r.seat \notin gone
    /\ r.op = "offer" => r.obj \notin now
    /\ r.op = "set_selection" => 
          r.source \notin gone /\ \A s \in now : s < r.source

QueueSound(o, u, q, n) ==
    /\ Gapless(o, q, n)
    /\ \A i \in DOMAIN q : RequestSound(o, u, q, q[i], i)
    /\ \A i, j \in DOMAIN q : i < j => PairSound(q[i], q[j])
    /\ u \subseteq DOMAIN o

(* The fields that the operation of a request gives it.                    *)
LEMMA RequestFields ==
    ASSUME NEW r \in Requests
    PROVE  /\ r.op \in {"bind", "get_registry", "get_data_device",
                        "create_data_source", "offer", "set_selection",
                        "destroy"}
           /\ r.obj \in ObjectId
           /\ Creating(r) => r.id \in Nat /\ KindMade(r) \in ObjectKinds
           /\ r.op = "set_selection" => r.source \in ObjectId
           /\ r.op = "get_data_device" => r.seat \in ObjectId
<1>1. DOMAIN Creates = {"get_registry", "get_data_device", "create_data_source"}
    BY DEF Creates
<1>2. r.op = "bind" => r.iface \in Interfaces
    BY DEF Requests
<1>3. r.op \in DOMAIN Creates => Creates[r.op] \in ObjectKinds
    BY <1>1 DEF Creates, ObjectKinds
<1> QED
    BY <1>1, <1>2, <1>3 DEF Requests, Creating, KindMade, ObjectId, ObjectKinds

(* An object has one kind.                                                 *)
LEMMA KindUnique ==
    ASSUME NEW o, NEW q \in Seq(Requests), NEW n, Len(o) \in Nat,
           DOMAIN o = 1 .. Len(o), Gapless(o, q, n),
           NEW id, NEW kind, NEW k, NEW other, NEW m,
           Made(o, q, id, kind, k), Made(o, q, id, other, m)
    PROVE  kind = other
<1>1. \A i \in DOMAIN q : Creating(q[i]) =>
          q[i].id \in Nat /\ q[i].id \notin DOMAIN o
  <2>1. \A i \in DOMAIN q : q[i] \in Requests
    BY LenProperties, ElementOfSeq
  <2> QED
    BY <2>1, RequestFields DEF Gapless
<1>2. \A i, j \in DOMAIN q :
          Creating(q[i]) /\ Creating(q[j]) /\ q[i].id = q[j].id => i = j
  <2>1. \A i \in DOMAIN q : i \in Nat
    BY LenProperties
  <2> QED
    BY <1>1, <2>1 DEF Gapless
<1> QED
    BY <1>1, <1>2 DEF Made

(* What was made stays made when the first request is read, except for an  *)
(* object that is thereby destroyed.                                       *)
LEMMA MadeAfterRead ==
    ASSUME NEW q \in Seq(Requests), q # <<>>, NEW o, NEW after, NEW gone,
           ReadMakes(o, after, q[1], gone),
           NEW id, id \notin gone, NEW kind, NEW k \in Nat,
           Made(o, q, id, kind, k)
    PROVE  Made(after, Tail(q), id, kind, k - 1)
<1>1. CASE id \in DOMAIN o /\ o[id] = kind
    BY <1>1 DEF Made, ReadMakes
<1>2. ASSUME NEW i \in DOMAIN q, i < k, Creating(q[i]), q[i].id = id,
             KindMade(q[i]) = kind
      PROVE  Made(after, Tail(q), id, kind, k - 1)
  <2>1. CASE i = 1
    BY <1>2, <2>1 DEF Made, ReadMakes
  <2>2. CASE i # 1
    <3>1. /\ i - 1 \in DOMAIN Tail(q) /\ Tail(q)[i - 1] = q[i]
          /\ i - 1 < k - 1
      BY <1>2, <2>2, TailIndex
    <3> QED
      BY <1>2, <3>1 DEF Made
  <2> QED
    BY <2>1, <2>2
<1> QED
    BY <1>1, <1>2 DEF Made

(* What is made stays made when a request is sent, which makes what it     *)
(* creates.                                                                *)
LEMMA MadeAfterSend ==
    ASSUME NEW q \in Seq(Requests), NEW r \in Requests, NEW o
    PROVE  /\ \A id, kind : \A k, m \in Nat : k <= m /\ Made(o, q, id, kind, k)
                  => Made(o, Append(q, r), id, kind, m)
           /\ Creating(r) => \A m \in Nat : Len(q) + 1 < m =>
                  Made(o, Append(q, r), r.id, KindMade(r), m)
<1>1. ASSUME NEW id, NEW kind, NEW k \in Nat, NEW m \in Nat, k <= m,
             Made(o, q, id, kind, k)
      PROVE  Made(o, Append(q, r), id, kind, m)
  <2>1. \A i \in DOMAIN q : i < k =>
            /\ i \in DOMAIN Append(q, r) /\ i < m /\ Append(q, r)[i] = q[i]
    BY <1>1, AppendIndex
  <2> QED
    BY <1>1, <2>1 DEF Made
<1>2. ASSUME Creating(r), NEW m \in Nat, Len(q) + 1 < m
      PROVE  Made(o, Append(q, r), r.id, KindMade(r), m)
  <2>1. Len(q) + 1 \in DOMAIN Append(q, r) /\ Append(q, r)[Len(q) + 1] = r
    BY AppendIndex
  <2> QED
    BY <1>2, <2>1 DEF Made
<1> QED
    BY <1>1, <1>2

(* The first request of the queue makes the next object, if any.           *)
LEMMA NextMade ==
    ASSUME NEW q \in Seq(Requests), q # <<>>, NEW o, Len(o) \in Nat,
           NEW n \in Nat, Gapless(o, q, n), Creating(q[1])
    PROVE  q[1].id = Len(o) + 1
<1>1. 1 \in DOMAIN q /\ \A i \in DOMAIN q : i \in Nat /\ q[i] \in Requests
                                            /\ (i = 1 \/ 1 < i)
    BY TailIndex, ElementOfSeq
<1>2. \A i \in DOMAIN q : Creating(q[i]) => q[i].id \in Nat
    BY <1>1, RequestFields
<1>3. Len(o) < q[1].id /\ q[1].id < n
    BY <1>1 DEF Gapless
<1>4. PICK i \in DOMAIN q : Creating(q[i]) /\ q[i].id = Len(o) + 1
  <2>1. /\ Len(o) + 1 \in Nat /\ Len(o) < Len(o) + 1
        /\ Len(o) + 1 < n \/ Len(o) + 1 = q[1].id
    BY <1>1, <1>2, <1>3
  <2> QED
    BY <1>1, <2>1 DEF Gapless
<1>5. i = 1 \/ q[1].id < q[i].id
    BY <1>1, <1>4 DEF Gapless
<1> QED
    BY <1>1, <1>2, <1>3, <1>4, <1>5

(* Reading the first request leaves no gap.                                *)
LEMMA GaplessAfterRead ==
    ASSUME NEW q \in Seq(Requests), q # <<>>, NEW o, Len(o) \in Nat,
           NEW n \in Nat, Gapless(o, q, n), NEW after,
           Len(after) = IF Creating(q[1]) THEN Len(o) + 1 ELSE Len(o)
    PROVE  Gapless(after, Tail(q), n)
<1> DEFINE t == Tail(q)
<1>1. /\ 1 \in DOMAIN q /\ \A i \in DOMAIN q : i \in Nat /\ q[i] \in Requests
      /\ \A i \in DOMAIN t : i \in Nat /\ i # 0 /\ i + 1 \in DOMAIN q
                             /\ t[i] = q[i + 1]
      /\ \A i \in DOMAIN q : i = 1 \/ /\ i - 1 \in DOMAIN t
                                      /\ t[i - 1] = q[i]
    BY TailIndex, ElementOfSeq
<1>2. \A i \in DOMAIN q : Creating(q[i]) => q[i].id \in Nat
    BY <1>1, RequestFields
<1>3. Creating(q[1]) => q[1].id = Len(o) + 1
    BY NextMade
<1> HIDE DEF t
<1>4. Len(after) < n
    BY <1>1, <1>3 DEF Gapless
<1>5. ASSUME NEW i \in DOMAIN t, Creating(t[i])
      PROVE  Len(after) < t[i].id /\ t[i].id < n
  <2>1. i + 1 \in DOMAIN q /\ t[i] = q[i + 1] /\ 1 < i + 1
    BY <1>1
  <2>2. Len(o) < t[i].id /\ t[i].id < n /\ t[i].id \in Nat
    BY <1>2, <1>5, <2>1 DEF Gapless
  <2>3. Creating(q[1]) => q[1].id < t[i].id
    BY <1>1, <1>5, <2>1 DEF Gapless
  <2> QED
    BY <1>3, <2>2, <2>3
<1>6. ASSUME NEW i \in DOMAIN t, NEW j \in DOMAIN t, i < j,
             Creating(t[i]), Creating(t[j])
      PROVE  t[i].id < t[j].id
  <2>1. i + 1 \in DOMAIN q /\ j + 1 \in DOMAIN q /\ i + 1 < j + 1
        /\ t[i] = q[i + 1] /\ t[j] = q[j + 1]
    BY <1>1, <1>6
  <2> QED
    BY <1>6, <2>1 DEF Gapless
<1>7. ASSUME NEW id \in Nat, Len(after) < id, id < n
      PROVE  \E i \in DOMAIN t : Creating(t[i]) /\ t[i].id = id
  <2>1. PICK i \in DOMAIN q : Creating(q[i]) /\ q[i].id = id
    BY <1>7 DEF Gapless
  <2>2. i # 1
    BY <1>3, <1>7, <2>1
  <2>3. i - 1 \in DOMAIN t /\ t[i - 1] = q[i]
    BY <1>1, <2>2
  <2> QED
    BY <2>1, <2>3
<1> QED
    BY <1>4, <1>5, <1>6, <1>7 DEF Gapless, t

(* The pairs of the tail of a queue are pairs of the queue.                *)
LEMMA PairsAfterRead ==
    ASSUME NEW q \in Seq(Requests), q # <<>>,
           \A i, j \in DOMAIN q : i < j => PairSound(q[i], q[j])
    PROVE  \A i, j \in DOMAIN Tail(q) : i < j => PairSound(Tail(q)[i], Tail(q)[j])
<1> DEFINE t == Tail(q)
<1>1. \A i \in DOMAIN t : i \in Nat /\ i + 1 \in DOMAIN q /\ t[i] = q[i + 1]
    BY TailIndex
<1> HIDE DEF t
<1>2. \A i, j \in DOMAIN t : i < j => PairSound(t[i], t[j])
  <2> TAKE i, j \in DOMAIN t
  <2>1. i < j => i + 1 < j + 1
    BY <1>1
  <2> QED
    BY <1>1, <2>1
<1> QED
    BY <1>2 DEF t

(* The requests of a sound queue name no null object, offer only for       *)
(* sources that were not used and select only newer ones.                  *)
LEMMA UnusedNamed ==
    ASSUME NEW q \in Seq(Requests), NEW o, NEW u, NEW n, QueueSound(o, u, q, n),
           NEW i \in DOMAIN q
    PROVE  i \in Nat /\ q[i] \in Requests /\ Spares(q[i], {}, u)
<1>1. i \in Nat /\ q[i] \in Requests
    BY LenProperties, ElementOfSeq
<1>2. RequestSound(o, u, q, q[i], i)
    BY DEF QueueSound
<1> QED
    BY <1>1, <1>2, RequestFields DEF RequestSound, Spares, ObjectId

(* After the first request was read the rest of a sound queue is sound, if *)
(* it does not name the object that this destroyed and if what it offers   *)
(* and selects was not used.                                               *)
LEMMA QueueAfterRead ==
    ASSUME NEW q \in Seq(Requests), q # <<>>, NEW o, Len(o) \in Nat,
           NEW u, NEW n \in Nat, QueueSound(o, u, q, n),
           NEW after, NEW now, NEW gone,
           ReadMakes(o, after, q[1], gone), now \subseteq DOMAIN after,
           \A i \in DOMAIN q : i = 1 \/ Spares(q[i], gone, now)
    PROVE  QueueSound(after, now, Tail(q), n)
<1>1. Gapless(after, Tail(q), n)
    BY GaplessAfterRead DEF QueueSound, ReadMakes
<1>2. ASSUME NEW id, NEW kind, NEW k \in Nat, id \notin gone,
             Made(o, q, id, kind, k)
      PROVE  Made(after, Tail(q), id, kind, k - 1)
    BY <1>2, MadeAfterRead
<1>3. ASSUME NEW i \in DOMAIN Tail(q)
      PROVE  RequestSound(after, now, Tail(q), Tail(q)[i], i)
  <2> DEFINE r == q[i + 1]
  <2>1. /\ i + 1 \in DOMAIN q /\ Tail(q)[i] = r /\ i + 1 \in Nat
        /\ (i + 1) - 1 = i /\ i + 1 # 1
    BY TailIndex
  <2>2. RequestSound(o, u, q, r, i + 1)
    BY <2>1 DEF QueueSound
  <2>3. Spares(r, gone, now)
    BY <2>1
  <2>4. \A id, kind : id \notin gone /\ Made(o, q, id, kind, i + 1) =>
            Made(after, Tail(q), id, kind, i)
    BY <1>2, <2>1
  <2> HIDE DEF r
  <2>5. RequestSound(after, now, Tail(q), r, i)
    BY <2>2, <2>3, <2>4 DEF RequestSound, Spares
  <2> QED
    BY <2>1, <2>5
<1> QED
    BY <1>1, <1>3, PairsAfterRead DEF QueueSound

(* ... when the first request creates an object.                           *)
LEMMA QueueAfterCreate ==
    ASSUME NEW q \in Seq(Requests), q # <<>>, NEW o \in Seq(ObjectKinds),
           NEW u, NEW n \in Nat, QueueSound(o, u, q, n), Creating(q[1])
    PROVE  QueueSound(Append(o, KindMade(q[1])), u, Tail(q), n)
<1> DEFINE after == Append(o, KindMade(q[1]))
<1>1. q[1] \in Requests /\ KindMade(q[1]) \in ObjectKinds
    BY TailIndex, ElementOfSeq, RequestFields
<1>2. /\ Len(o) \in Nat /\ DOMAIN o = 1 .. Len(o)
      /\ Len(after) = Len(o) + 1 /\ DOMAIN after = 1 .. Len(o) + 1
      /\ \A i \in DOMAIN o : i \in DOMAIN after /\ after[i] = o[i]
      /\ after[Len(o) + 1] = KindMade(q[1])
    BY <1>1, AppendIndex
<1> HIDE DEF after
<1>3. q[1].id = Len(o) + 1
    BY <1>2, NextMade DEF QueueSound
<1>4. ReadMakes(o, after, q[1], {})
    BY <1>2, <1>3 DEF ReadMakes
<1>5. u \subseteq DOMAIN after
    BY <1>2 DEF QueueSound
<1> QED
    BY <1>2, <1>4, <1>5, UnusedNamed, QueueAfterRead DEF after

(* ... when it offers a type.                                              *)
LEMMA QueueAfterOffer ==
    ASSUME NEW q \in Seq(Requests), q # <<>>, NEW o \in Seq(ObjectKinds),
           NEW u, NEW n \in Nat, QueueSound(o, u, q, n), q[1].op = "offer"
    PROVE  QueueSound(o, u, Tail(q), n)
<1>1. ~Creating(q[1])
    BY DEF Creating, Creates
<1>2. Len(o) \in Nat /\ DOMAIN o = 1 .. Len(o)
    BY LenProperties
<1>3. ReadMakes(o, o, q[1], {}) /\ u \subseteq DOMAIN o
    BY <1>1 DEF QueueSound, ReadMakes
<1> QED
    BY <1>2, <1>3, UnusedNamed, QueueAfterRead

(* ... when it selects a source.                                           *)
LEMMA QueueAfterSelect ==
    ASSUME NEW q \in Seq(Requests), q # <<>>, NEW o \in Seq(ObjectKinds),
           NEW u, NEW n \in Nat, QueueSound(o, u, q, n),
           q[1].op = "set_selection", q[1].source \in DOMAIN o
    PROVE  QueueSound(o, u \cup {q[1].source}, Tail(q), n)
<1> DEFINE now == u \cup {q[1].source}
<1>1. ~Creating(q[1])
    BY DEF Creating, Creates
<1>2. Len(o) \in Nat /\ DOMAIN o = 1 .. Len(o)
    BY LenProperties
<1>3. ReadMakes(o, o, q[1], {}) /\ now \subseteq DOMAIN o
    BY <1>1 DEF QueueSound, ReadMakes
<1>4. ASSUME NEW i \in DOMAIN q, i # 1 PROVE Spares(q[i], {}, now)
  <2>1. 1 \in DOMAIN q /\ 1 < i
    BY <1>4, TailIndex
  <2>2. PairSound(q[1], q[i])
    BY <2>1 DEF QueueSound
  <2>3. Spares(q[i], {}, u)
    BY UnusedNamed
  <2> QED
    BY <1>4, <2>2, <2>3 DEF PairSound, Spares
<1> HIDE DEF now
<1>5. QueueSound(o, now, Tail(q), n)
    BY <1>2, <1>3, <1>4, QueueAfterRead
<1> QED
    BY <1>5 DEF now

(* ... when it destroys a source: no later request names it.               *)
LEMMA QueueAfterDestroy ==
    ASSUME NEW q \in Seq(Requests), q # <<>>, NEW o \in Seq(ObjectKinds),
           NEW u, NEW n \in Nat, QueueSound(o, u, q, n),
           q[1].op = "destroy", q[1].obj \in DOMAIN o,
           o[q[1].obj] = "ext_data_control_source_v1"
    PROVE  QueueSound([o EXCEPT ![q[1].obj] = "destroyed"], u, Tail(q), n)
<1> DEFINE gone == q[1].obj
           after == [o EXCEPT ![gone] = "destroyed"]
<1>1. ~Creating(q[1])
    BY DEF Creating, Creates
<1>2. /\ Len(o) \in Nat /\ DOMAIN o = 1 .. Len(o)
      /\ Len(after) = Len(o) /\ DOMAIN after = DOMAIN o
      /\ \A i \in DOMAIN o : i # gone => after[i] = o[i]
  <2>1. Len(o) \in Nat /\ DOMAIN o = 1 .. Len(o)
    BY LenProperties
  <2>2. gone \in 1 .. Len(o) /\ "destroyed" \in ObjectKinds
    BY <2>1 DEF ObjectKinds
  <2>3. after \in Seq(ObjectKinds) /\ Len(after) = Len(o)
    BY <2>2, ExceptSeq
  <2> QED
    BY <2>1, <2>3
<1>3. u \subseteq DOMAIN after
    BY <1>2 DEF QueueSound
<1>4. ASSUME NEW id, NEW kind, NEW k, Made(o, q, id, kind, k),
             kind # "ext_data_control_source_v1"
      PROVE  id # gone
  <2>1. Made(o, q, gone, "ext_data_control_source_v1", 1)
    BY DEF Made
  <2> QED
    BY <1>2, <1>4, <2>1, KindUnique DEF QueueSound
<1> HIDE DEF after
<1>5. ASSUME NEW i \in DOMAIN q, i # 1 PROVE Spares(q[i], {gone}, u)
  <2>1. 1 \in DOMAIN q /\ 1 < i /\ q[i] \in Requests
    BY <1>5, TailIndex, ElementOfSeq
  <2>2. PairSound(q[1], q[i]) /\ RequestSound(o, u, q, q[i], i)
    BY <2>1 DEF QueueSound
  <2> DEFINE r == q[i]
  <2>3. r.op \in {"bind", "get_registry", "get_data_device",
                  "create_data_source", "offer", "set_selection", "destroy"}
    BY <2>1, RequestFields
  <2> HIDE DEF r, gone
  <2>4. r.op \notin {"offer", "destroy"} => r.obj # gone
    <3>1. r.op \notin {"offer", "destroy"} =>
              InterfaceOf(r.op) # "ext_data_control_source_v1"
      BY <2>3 DEF InterfaceOf
    <3> QED
      BY <1>4, <2>2, <3>1 DEF RequestSound, r
  <2>5. r.op = "get_data_device" => r.seat # gone
    BY <1>4, <2>2 DEF RequestSound, r
  <2>6. /\ r.op \in {"offer", "destroy"} => r.obj # gone
        /\ r.op = "set_selection" => r.source # gone
    BY <2>2 DEF PairSound, r, gone
  <2> QED
    BY <2>3, <2>4, <2>5, <2>6, UnusedNamed DEF Spares, r
<1>6. ReadMakes(o, after, q[1], {gone})
    BY <1>1, <1>2 DEF ReadMakes
<1> HIDE DEF gone
<1>7. QueueSound(after, u, Tail(q), n)
    BY <1>2, <1>3, <1>5, <1>6, QueueAfterRead
<1> QED
    BY <1>7 DEF after, gone

(* An object that was or will be made has an id below the next.            *)
LEMMA MadeBelow ==
    ASSUME NEW q \in Seq(Requests), NEW o \in Seq(ObjectKinds), NEW n \in Nat,
           Gapless(o, q, n), NEW id, NEW kind, NEW k, Made(o, q, id, kind, k)
    PROVE  id \in Nat /\ id < n
<1>1. Len(o) \in Nat /\ DOMAIN o = 1 .. Len(o) /\ Len(o) < n
    BY LenProperties DEF Gapless
<1>2. \A i \in DOMAIN q : Creating(q[i]) => q[i].id \in Nat /\ q[i].id < n
  <2>1. \A i \in DOMAIN q : q[i] \in Requests
    BY LenProperties, ElementOfSeq
  <2> QED
    BY <2>1, RequestFields DEF Gapless
<1> QED
    BY <1>1, <1>2 DEF Made

(* A sound request may follow those of a sound queue that it agrees with.  *)
LEMMA QueueAfterSend ==
    ASSUME NEW q \in Seq(Requests), NEW r \in Requests, NEW o, NEW u,
           NEW n \in Nat, NEW m \in Nat, Len(o) \in Nat, QueueSound(o, u, q, n),
           IF Creating(r) THEN r.id = n /\ m = n + 1 ELSE m = n,
           RequestSound(o, u, q, r, Len(q) + 1),
           \A i \in DOMAIN q : PairSound(q[i], r)
    PROVE  QueueSound(o, u, Append(q, r), m)
<1> DEFINE t == Append(q, r)
<1>1. /\ Len(q) \in Nat /\ DOMAIN q = 1 .. Len(q)
      /\ DOMAIN t = 1 .. Len(q) + 1 /\ t[Len(q) + 1] = r
      /\ \A i \in DOMAIN q : /\ i \in DOMAIN t /\ i \in Nat
                             /\ i < Len(q) + 1 /\ t[i] = q[i]
      /\ \A i \in DOMAIN t : i \in DOMAIN q \/ i = Len(q) + 1
      /\ \A i \in DOMAIN q : q[i] \in Requests
    BY AppendIndex, ElementOfSeq
<1>2. \A id, kind : \A k \in Nat : Made(o, q, id, kind, k) =>
          Made(o, t, id, kind, k)
    BY MadeAfterSend
<1> HIDE DEF t
<1>3. Gapless(o, t, m)
  <2>1. \A i \in DOMAIN q : Creating(q[i]) => q[i].id \in Nat
    BY <1>1, RequestFields
  <2>2. Gapless(o, q, n)
    BY DEF QueueSound
  <2>3. Len(o) < m /\ n <= m
    BY <2>2 DEF Gapless
  <2>4. \A i \in DOMAIN t : Creating(t[i]) => Len(o) < t[i].id /\ t[i].id < m
    BY <1>1, <2>1, <2>2, <2>3 DEF Gapless
  <2>5. ASSUME NEW i \in DOMAIN t, NEW j \in DOMAIN t, i < j,
               Creating(t[i]), Creating(t[j])
        PROVE  t[i].id < t[j].id
    <3>1. i \in DOMAIN q /\ t[i] = q[i]
      BY <1>1, <2>5
    <3>2. CASE j \in DOMAIN q
      BY <1>1, <2>2, <2>5, <3>1, <3>2 DEF Gapless
    <3>3. CASE j = Len(q) + 1
      BY <1>1, <2>2, <2>5, <3>1, <3>3 DEF Gapless
    <3> QED
      BY <1>1, <3>2, <3>3
  <2>6. ASSUME NEW id \in Nat, Len(o) < id, id < m
        PROVE  \E i \in DOMAIN t : Creating(t[i]) /\ t[i].id = id
    <3>1. CASE id < n
      <4>1. PICK i \in DOMAIN q : Creating(q[i]) /\ q[i].id = id
        BY <2>2, <2>6, <3>1 DEF Gapless
      <4> QED
        BY <1>1, <4>1
    <3>2. CASE ~(id < n)
      <4>1. Creating(r) /\ r.id = id
        BY <2>6, <3>2
      <4>2. Len(q) + 1 \in DOMAIN t
        BY <1>1
      <4> QED
        BY <1>1, <4>1, <4>2
    <3> QED
      BY <3>1, <3>2
  <2> QED
    BY <2>3, <2>4, <2>5, <2>6 DEF Gapless
<1>4. ASSUME NEW i \in DOMAIN t PROVE RequestSound(o, u, t, t[i], i)
  <2>1. i \in Nat /\ RequestSound(o, u, q, t[i], i)
    BY <1>1 DEF QueueSound
  <2>2. \A id, kind : Made(o, q, id, kind, i) => Made(o, t, id, kind, i)
    BY <1>2, <2>1
  <2> QED
    BY <2>1, <2>2 DEF RequestSound
<1>5. ASSUME NEW i \in DOMAIN t, NEW j \in DOMAIN t, i < j
      PROVE  PairSound(t[i], t[j])
  <2>1. i \in DOMAIN q /\ t[i] = q[i]
    BY <1>1, <1>5
  <2> QED
    BY <1>1, <1>5, <2>1 DEF QueueSound
<1>6. u \subseteq DOMAIN o
    BY DEF QueueSound
<1> QED
    BY <1>3, <1>4, <1>5, <1>6 DEF QueueSound, t

-----------------------------------------------------------------------------
(* What is on the way to the compositor.                                   *)

(* The sources that are about to be selected, and to be destroyed.         *)
Selecting(q) ==
    { q[i].source : i \in { j \in DOMAIN q : q[j].op = "set_selection" } }
Destroying(q) ==
    { q[i].obj : i \in { j \in DOMAIN q : q[j].op = "destroy" } }

(* What a sound queue selects was made and is newer than all that was used,*)
(* and what it destroys was made.                                          *)
LEMMA PendingSound ==
    ASSUME NEW q \in Seq(Requests), NEW o \in Seq(ObjectKinds), NEW u,
           NEW n \in Nat, QueueSound(o, u, q, n)
    PROVE  /\ \A x \in Selecting(q) : /\ x \in ObjectId /\ x < n
                                      /\ x \notin u /\ \A s \in u : s < x
           /\ \A d \in Destroying(q) : d \in ObjectId /\ d < n
<1>1. \A i \in DOMAIN q : q[i] \in Requests /\ i \in Nat
    BY LenProperties, ElementOfSeq
<1>2. Gapless(o, q, n)
    BY DEF QueueSound
<1>3. ASSUME NEW i \in DOMAIN q, q[i].op = "set_selection"
      PROVE  /\ q[i].source \in ObjectId /\ q[i].source < n
             /\ q[i].source \notin u /\ \A s \in u : s < q[i].source
  <2>1. RequestSound(o, u, q, q[i], i)
    BY DEF QueueSound
  <2>2. Made(o, q, q[i].source, "ext_data_control_source_v1", i)
        /\ \A s \in u : s < q[i].source
    BY <1>3, <2>1 DEF RequestSound
  <2>3. q[i].source \in ObjectId
    BY <1>1, <1>3, RequestFields
  <2>4. q[i].source \in Nat /\ q[i].source < n
    BY <1>2, <2>2, MadeBelow
  <2> QED
    BY <2>2, <2>3, <2>4
<1>4. ASSUME NEW i \in DOMAIN q, q[i].op = "destroy"
      PROVE  q[i].obj \in ObjectId /\ q[i].obj < n
  <2>1. Made(o, q, q[i].obj, InterfaceOf(q[i].op), i)
    BY DEF QueueSound, RequestSound
  <2> QED
    BY <1>1, <1>2, <2>1, MadeBelow, RequestFields
<1> QED
    BY <1>3, <1>4 DEF Selecting, Destroying

(* Reading the first request settles what it asked for, and nothing else.  *)
LEMMA PendingAfterRead ==
    ASSUME NEW q \in Seq(Requests), q # <<>>, NEW o, NEW u, NEW n,
           QueueSound(o, u, q, n)
    PROVE  /\ q[1].op # "set_selection" => Selecting(Tail(q)) = Selecting(q)
           /\ q[1].op = "set_selection" =>
                  /\ q[1].source \in Selecting(q)
                  /\ Selecting(Tail(q)) = Selecting(q) \ {q[1].source}
           /\ q[1].op # "destroy" => Destroying(Tail(q)) = Destroying(q)
           /\ q[1].op = "destroy" =>
                  /\ q[1].obj \in Destroying(q) /\ q[1].obj \notin Selecting(q)
                  /\ Destroying(Tail(q)) = Destroying(q) \ {q[1].obj}
<1> DEFINE t == Tail(q)
<1>1. /\ 1 \in DOMAIN q
      /\ \A i \in DOMAIN t : i + 1 \in DOMAIN q /\ 1 < i + 1
                             /\ t[i] = q[i + 1]
      /\ \A i \in DOMAIN q : i = 1 \/ /\ i - 1 \in DOMAIN t
                                      /\ t[i - 1] = q[i]
      /\ \A i \in DOMAIN q : i = 1 \/ 1 < i
      /\ \A i \in DOMAIN q : q[i] \in Requests
    BY TailIndex, ElementOfSeq
<1>2. \A i \in DOMAIN t : PairSound(q[1], t[i]) /\ t[i] \in Requests
    BY <1>1 DEF QueueSound
<1> HIDE DEF t
<1>3. \A i \in DOMAIN q : q[i] = q[1] \/ \E j \in DOMAIN t : t[j] = q[i]
    BY <1>1
<1>4. \A i \in DOMAIN t : \E j \in DOMAIN q : q[j] = t[i]
    BY <1>1
<1>5. \A i \in DOMAIN t : t[i].op = "set_selection" => t[i].source \in Nat
    BY <1>2, RequestFields DEF ObjectId
<1>6. q[1].op # "set_selection" => Selecting(t) = Selecting(q)
    BY <1>3, <1>4 DEF Selecting
<1>7. ASSUME q[1].op = "set_selection"
      PROVE  q[1].source \in Selecting(q)
             /\ Selecting(t) = Selecting(q) \ {q[1].source}
  <2>1. q[1].source \in Selecting(q)
    BY <1>1, <1>7 DEF Selecting
  <2>2. \A i \in DOMAIN t : t[i].op = "set_selection" => t[i].source # q[1].source
    BY <1>2, <1>5, <1>7 DEF PairSound
  <2> QED
    BY <1>3, <1>4, <2>1, <2>2 DEF Selecting
<1>8. q[1].op # "destroy" => Destroying(t) = Destroying(q)
    BY <1>3, <1>4 DEF Destroying
<1>9. ASSUME q[1].op = "destroy"
      PROVE  /\ q[1].obj \in Destroying(q) /\ q[1].obj \notin Selecting(q)
             /\ Destroying(t) = Destroying(q) \ {q[1].obj}
  <2>1. q[1].obj \in Destroying(q)
    BY <1>1, <1>9 DEF Destroying
  <2>2. \A i \in DOMAIN t :
            /\ t[i].op = "destroy" => t[i].obj # q[1].obj
            /\ t[i].op = "set_selection" => t[i].source # q[1].obj
    BY <1>2, <1>9 DEF PairSound
  <2>3. q[1].obj \notin Selecting(q)
    BY <1>3, <1>9, <2>2 DEF Selecting
  <2>4. Destroying(t) = Destroying(q) \ {q[1].obj}
    BY <1>3, <1>4, <2>1, <2>2 DEF Destroying
  <2> QED
    BY <2>1, <2>3, <2>4
<1> QED
    BY <1>6, <1>7, <1>8, <1>9 DEF t

(* Sending a request asks for what it asks for.                            *)
LEMMA PendingAfterSend ==
    ASSUME NEW q \in Seq(Requests), NEW r \in Requests
    PROVE  /\ Selecting(Append(q, r)) =
                  Selecting(q) \cup
                  (IF r.op = "set_selection" THEN {r.source} ELSE {})
           /\ Destroying(Append(q, r)) =
                  Destroying(q) \cup (IF r.op = "destroy" THEN {r.obj} ELSE {})
<1> DEFINE t == Append(q, r)
<1>1. /\ \A i \in DOMAIN q : i \in DOMAIN t /\ t[i] = q[i]
      /\ \A i \in DOMAIN t : i \in DOMAIN q \/ t[i] = r
      /\ Len(q) + 1 \in DOMAIN t /\ t[Len(q) + 1] = r
    BY AppendIndex
<1> HIDE DEF t
<1>2. \E i \in DOMAIN t : t[i] = r
    BY <1>1
<1> QED
    BY <1>1, <1>2 DEF Selecting, Destroying, t

-----------------------------------------------------------------------------
(* Sending the requests of the program.                                    *)

(* When all that was sent is read, id is an object of this kind.           *)
KnownIn(o, q, id, kind) == Made(o, q, id, kind, Len(q) + 1)

(* What is known stays known, and what is created is known.                *)
LEMMA KnownAfterSend ==
    ASSUME NEW q \in Seq(Requests), NEW r \in Requests, NEW o
    PROVE  /\ \A id, kind : KnownIn(o, q, id, kind) =>
                  KnownIn(o, Append(q, r), id, kind)
           /\ Creating(r) => KnownIn(o, Append(q, r), r.id, KindMade(r))
<1>1. /\ Len(q) + 1 \in Nat /\ Len(Append(q, r)) + 1 \in Nat
      /\ Len(q) + 1 < Len(Append(q, r)) + 1
    BY AppendIndex
<1> QED
    BY <1>1, MadeAfterSend DEF KnownIn

(* ... and stays known when it is read, unless it is destroyed.            *)
LEMMA KnownAfterRead ==
    ASSUME NEW q \in Seq(Requests), q # <<>>, NEW o, NEW after, NEW gone,
           ReadMakes(o, after, q[1], gone), NEW id, id \notin gone, NEW kind,
           KnownIn(o, q, id, kind)
    PROVE  KnownIn(after, Tail(q), id, kind)
<1>1. Len(q) + 1 \in Nat /\ (Len(q) + 1) - 1 = Len(Tail(q)) + 1
    BY TailIndex
<1>2. Made(after, Tail(q), id, kind, (Len(q) + 1) - 1)
    BY <1>1, MadeAfterRead DEF KnownIn
<1> QED
    BY <1>1, <1>2 DEF KnownIn

(* A request that creates the next object of known ones.                   *)
LEMMA SendCreating ==
    ASSUME NEW q \in Seq(Requests), NEW r \in Requests, NEW o, NEW u,
           NEW n \in Nat, Len(o) \in Nat, QueueSound(o, u, q, n),
           Creating(r), r.id = n, KnownIn(o, q, r.obj, InterfaceOf(r.op)),
           r.op = "get_data_device" => KnownIn(o, q, r.seat, "wl_seat")
    PROVE  /\ QueueSound(o, u, Append(q, r), n + 1)
           /\ Selecting(Append(q, r)) = Selecting(q)
           /\ Destroying(Append(q, r)) = Destroying(q)
<1>1. r.op \notin {"offer", "set_selection", "destroy"}
    BY DEF Creating, Creates
<1>2. RequestSound(o, u, q, r, Len(q) + 1)
    BY <1>1 DEF RequestSound, KnownIn
<1>3. \A i \in DOMAIN q : PairSound(q[i], r)
    BY <1>1 DEF PairSound
<1>4. QueueSound(o, u, Append(q, r), n + 1)
    BY <1>2, <1>3, QueueAfterSend
<1> QED
    BY <1>1, <1>4, PendingAfterSend

(* A source that may still be offered and selected.                        *)
Newest(o, u, q, source) ==
    /\ source \in ObjectId
    /\ KnownIn(o, q, source, "ext_data_control_source_v1")
    /\ \A s \in u : s < source
    /\ \A s \in Selecting(q) : s < source
    /\ source \notin Destroying(q)

(* An object that is created is newer than all that were used.             *)
LEMMA SendSource ==
    ASSUME NEW q \in Seq(Requests), NEW o \in Seq(ObjectKinds), NEW u,
           NEW n \in ObjectId, QueueSound(o, u, q, n), NEW manager \in ObjectId,
           KnownIn(o, q, manager, "ext_data_control_manager_v1")
    PROVE  LET t == Append(q, CreateDataSource(manager, n)) IN
           /\ t \in Seq(Requests) /\ QueueSound(o, u, t, n + 1)
           /\ Newest(o, u, t, n)
           /\ Selecting(t) = Selecting(q) /\ Destroying(t) = Destroying(q)
           /\ \A id, kind : KnownIn(o, q, id, kind) => KnownIn(o, t, id, kind)
<1> DEFINE r == CreateDataSource(manager, n)
           t == Append(q, r)
<1>1. r \in Requests /\ r.op = "create_data_source" /\ r.id = n /\ r.obj = manager
    BY DEF CreateDataSource, Requests
<1>2. Creating(r) /\ KindMade(r) = "ext_data_control_source_v1"
      /\ InterfaceOf(r.op) = "ext_data_control_manager_v1"
    BY <1>1 DEF Creating, KindMade, Creates, InterfaceOf
<1>3. n \in Nat /\ Len(o) \in Nat /\ DOMAIN o = 1 .. Len(o)
    BY LenProperties DEF ObjectId
<1> HIDE DEF r
<1>4. t \in Seq(Requests)
    BY <1>1, AppendIndex
<1>5. /\ QueueSound(o, u, t, n + 1)
      /\ Selecting(t) = Selecting(q) /\ Destroying(t) = Destroying(q)
    BY <1>1, <1>2, <1>3, SendCreating
<1>6. /\ KnownIn(o, t, n, "ext_data_control_source_v1")
      /\ \A id, kind : KnownIn(o, q, id, kind) => KnownIn(o, t, id, kind)
    BY <1>1, <1>2, KnownAfterSend
<1> HIDE DEF t
<1>7. Newest(o, u, t, n)
  <2>1. \A s \in u : s \in Nat /\ s < n
    BY <1>3 DEF QueueSound, Gapless
  <2>2. /\ \A s \in Selecting(q) : s < n
        /\ n \notin Destroying(q)
    BY <1>3, PendingSound
  <2> QED
    BY <1>5, <1>6, <2>1, <2>2 DEF Newest
<1> QED
    BY <1>4, <1>5, <1>6, <1>7 DEF t, r

(* A type is offered for a source that may still be offered.               *)
LEMMA SendOffer ==
    ASSUME NEW q \in Seq(Requests), NEW o \in Seq(ObjectKinds), NEW u,
           NEW n \in Nat, QueueSound(o, u, q, n), NEW source,
           Newest(o, u, q, source), NEW mime \in PlainTextTypes
    PROVE  LET t == Append(q, Offer(source, mime)) IN
           /\ t \in Seq(Requests) /\ QueueSound(o, u, t, n)
           /\ Newest(o, u, t, source)
           /\ Selecting(t) = Selecting(q) /\ Destroying(t) = Destroying(q)
           /\ \A id, kind : KnownIn(o, q, id, kind) => KnownIn(o, t, id, kind)
<1> DEFINE r == Offer(source, mime)
           t == Append(q, r)
<1>1. r \in Requests /\ r.op = "offer" /\ r.obj = source
    BY DEF Offer, Requests, Newest
<1>2. ~Creating(r) /\ InterfaceOf(r.op) = "ext_data_control_source_v1"
    BY <1>1 DEF Creating, Creates, InterfaceOf
<1>3. Len(o) \in Nat /\ \A i \in DOMAIN q : q[i] \in Requests
    BY LenProperties, ElementOfSeq
<1> HIDE DEF r
<1>4. t \in Seq(Requests)
    BY <1>1, AppendIndex
<1>5. Selecting(t) = Selecting(q) /\ Destroying(t) = Destroying(q)
    BY <1>1, PendingAfterSend
<1>6. \A id, kind : KnownIn(o, q, id, kind) => KnownIn(o, t, id, kind)
    BY <1>1, KnownAfterSend
<1>7. RequestSound(o, u, q, r, Len(q) + 1)
  <2>1. source \notin u
    BY DEF Newest, ObjectId
  <2> QED
    BY <1>1, <1>2, <2>1 DEF RequestSound, Newest, KnownIn
<1>8. ASSUME NEW i \in DOMAIN q PROVE PairSound(q[i], r)
  <2>1. q[i].op = "set_selection" => q[i].source # source
    <3>1. q[i].op = "set_selection" => q[i].source \in Selecting(q)
      BY DEF Selecting
    <3>2. source \in Nat /\ \A s \in Selecting(q) : s < source
      BY DEF Newest, ObjectId
    <3> QED
      BY <3>1, <3>2
  <2>2. q[i].op = "destroy" => q[i].obj # source
    BY DEF Newest, Destroying
  <2> QED
    BY <1>1, <2>1, <2>2 DEF PairSound
<1>9. QueueSound(o, u, t, n)
    BY <1>1, <1>2, <1>3, <1>7, <1>8, QueueAfterSend
<1>10. Newest(o, u, t, source)
    BY <1>5, <1>6 DEF Newest
<1> QED
    BY <1>4, <1>5, <1>6, <1>9, <1>10 DEF t, r

(* The source is selected.                                                 *)
LEMMA SendSelect ==
    ASSUME NEW q \in Seq(Requests), NEW o \in Seq(ObjectKinds), NEW u,
           NEW n \in Nat, QueueSound(o, u, q, n), NEW source,
           Newest(o, u, q, source), NEW device \in ObjectId,
           KnownIn(o, q, device, "ext_data_control_device_v1")
    PROVE  LET t == Append(q, SetSelection(device, source)) IN
           /\ t \in Seq(Requests) /\ QueueSound(o, u, t, n)
           /\ Selecting(t) = Selecting(q) \cup {source}
           /\ Destroying(t) = Destroying(q)
           /\ \A id, kind : KnownIn(o, q, id, kind) => KnownIn(o, t, id, kind)
<1> DEFINE r == SetSelection(device, source)
           t == Append(q, r)
<1>1. r \in Requests /\ r.op = "set_selection" /\ r.obj = device /\ r.source = source
    BY DEF SetSelection, Requests, Newest
<1>2. ~Creating(r) /\ InterfaceOf(r.op) = "ext_data_control_device_v1"
    BY <1>1 DEF Creating, Creates, InterfaceOf
<1>3. Len(o) \in Nat /\ \A i \in DOMAIN q : q[i] \in Requests
    BY LenProperties, ElementOfSeq
<1> HIDE DEF r
<1>4. t \in Seq(Requests)
    BY <1>1, AppendIndex
<1>5. Selecting(t) = Selecting(q) \cup {source} /\ Destroying(t) = Destroying(q)
    BY <1>1, PendingAfterSend
<1>6. \A id, kind : KnownIn(o, q, id, kind) => KnownIn(o, t, id, kind)
    BY <1>1, KnownAfterSend
<1>7. RequestSound(o, u, q, r, Len(q) + 1)
    BY <1>1, <1>2 DEF RequestSound, Newest, KnownIn
<1>8. ASSUME NEW i \in DOMAIN q PROVE PairSound(q[i], r)
  <2>1. q[i].op = "set_selection" => q[i].source < source
    BY DEF Newest, Selecting
  <2>2. q[i].op = "destroy" => q[i].obj # source
    BY DEF Newest, Destroying
  <2> QED
    BY <1>1, <2>1, <2>2 DEF PairSound
<1>9. QueueSound(o, u, t, n)
    BY <1>1, <1>2, <1>3, <1>7, <1>8, QueueAfterSend
<1> QED
    BY <1>4, <1>5, <1>6, <1>9 DEF t, r

(* A source that is known is destroyed, once.                              *)
LEMMA SendDestroy ==
    ASSUME NEW q \in Seq(Requests), NEW o \in Seq(ObjectKinds), NEW u,
           NEW n \in Nat, QueueSound(o, u, q, n), NEW source \in ObjectId,
           KnownIn(o, q, source, "ext_data_control_source_v1"),
           source \notin Destroying(q)
    PROVE  LET t == Append(q, Destroy(source)) IN
           /\ t \in Seq(Requests) /\ QueueSound(o, u, t, n)
           /\ Selecting(t) = Selecting(q)
           /\ Destroying(t) = Destroying(q) \cup {source}
           /\ \A id, kind : KnownIn(o, q, id, kind) => KnownIn(o, t, id, kind)
<1> DEFINE r == Destroy(source)
           t == Append(q, r)
<1>1. r \in Requests /\ r.op = "destroy" /\ r.obj = source
    BY DEF Destroy, Requests
<1>2. ~Creating(r) /\ InterfaceOf(r.op) = "ext_data_control_source_v1"
    BY <1>1 DEF Creating, Creates, InterfaceOf
<1>3. Len(o) \in Nat /\ \A i \in DOMAIN q : q[i] \in Requests
    BY LenProperties, ElementOfSeq
<1> HIDE DEF r
<1>4. t \in Seq(Requests)
    BY <1>1, AppendIndex
<1>5. Selecting(t) = Selecting(q) /\ Destroying(t) = Destroying(q) \cup {source}
    BY <1>1, PendingAfterSend
<1>6. \A id, kind : KnownIn(o, q, id, kind) => KnownIn(o, t, id, kind)
    BY <1>1, KnownAfterSend
<1>7. RequestSound(o, u, q, r, Len(q) + 1)
    BY <1>1, <1>2 DEF RequestSound, KnownIn
<1>8. ASSUME NEW i \in DOMAIN q PROVE PairSound(q[i], r)
  <2>1. q[i].op = "destroy" => q[i].obj # source
    BY DEF Destroying
  <2> QED
    BY <1>1, <2>1 DEF PairSound
<1>9. QueueSound(o, u, t, n)
    BY <1>1, <1>2, <1>3, <1>7, <1>8, QueueAfterSend
<1> QED
    BY <1>4, <1>5, <1>6, <1>9 DEF t, r

(* The types under which a code is offered, in their order.                *)
LEMMA TypesOffered ==
    /\ DOMAIN PLAIN_TEXT_MIME_TYPES_SORTED = 1 .. 5
    /\ PlainTextTypes = {"STRING", "TEXT", "UTF8_STRING", "text/plain",
                         "text/plain;charset=utf-8"}
<1>1. DOMAIN PLAIN_TEXT_MIME_TYPES_SORTED = 1 .. 5
    BY DEF PLAIN_TEXT_MIME_TYPES_SORTED
<1>2. 1 .. 5 = {1, 2, 3, 4, 5}
    OBVIOUS
<1>3. /\ PLAIN_TEXT_MIME_TYPES_SORTED[1] = "STRING"
      /\ PLAIN_TEXT_MIME_TYPES_SORTED[2] = "TEXT"
      /\ PLAIN_TEXT_MIME_TYPES_SORTED[3] = "UTF8_STRING"
      /\ PLAIN_TEXT_MIME_TYPES_SORTED[4] = "text/plain"
      /\ PLAIN_TEXT_MIME_TYPES_SORTED[5] = "text/plain;charset=utf-8"
    BY DEF PLAIN_TEXT_MIME_TYPES_SORTED
<1> QED
    BY <1>1, <1>2, <1>3 DEF PlainTextTypes

(* The offers are sent in the order of their types.                        *)
LEMMA OffersInOrder ==
    ASSUME NEW source \in ObjectId
    PROVE  /\ OfferAll(source) \in Seq(Requests)
           /\ OfferAll(source) =
              << Offer(source, "STRING"), Offer(source, "TEXT"),
                 Offer(source, "UTF8_STRING"), Offer(source, "text/plain"),
                 Offer(source, "text/plain;charset=utf-8") >>
<1> DEFINE T == << Offer(source, "STRING"), Offer(source, "TEXT"),
                   Offer(source, "UTF8_STRING"), Offer(source, "text/plain"),
                   Offer(source, "text/plain;charset=utf-8") >>
<1>1. \A mime \in PlainTextTypes : Offer(source, mime) \in Requests
    BY DEF Offer, Requests
<1>2. /\ Offer(source, "STRING") \in Requests
      /\ Offer(source, "TEXT") \in Requests
      /\ Offer(source, "UTF8_STRING") \in Requests
      /\ Offer(source, "text/plain") \in Requests
      /\ Offer(source, "text/plain;charset=utf-8") \in Requests
    BY <1>1, TypesOffered
<1>3. T \in Seq(Requests)
    BY <1>2, FiveElements
<1>4. Len(T) = 5
    OBVIOUS
<1>5. \A i \in 1 .. 5 : PLAIN_TEXT_MIME_TYPES_SORTED[i] \in PlainTextTypes
    BY TypesOffered DEF PlainTextTypes
<1>6. OfferAll(source) \in [1 .. 5 -> Requests]
    BY <1>1, <1>5, TypesOffered DEF OfferAll
<1>7. OfferAll(source) \in Seq(Requests)
    BY <1>6, SeqDef
<1>8. Len(OfferAll(source)) = 5
    BY <1>6, <1>7, LenProperties
<1>9. ASSUME NEW i \in 1 .. 5 PROVE OfferAll(source)[i] = T[i]
  <2>1. OfferAll(source)[i] = Offer(source, PLAIN_TEXT_MIME_TYPES_SORTED[i])
    BY TypesOffered DEF OfferAll
  <2>2. CASE i = 1
    BY <2>1, <2>2 DEF PLAIN_TEXT_MIME_TYPES_SORTED
  <2>3. CASE i = 2
    BY <2>1, <2>3 DEF PLAIN_TEXT_MIME_TYPES_SORTED
  <2>4. CASE i = 3
    BY <2>1, <2>4 DEF PLAIN_TEXT_MIME_TYPES_SORTED
  <2>5. CASE i = 4
    BY <2>1, <2>5 DEF PLAIN_TEXT_MIME_TYPES_SORTED
  <2>6. CASE i = 5
    BY <2>1, <2>6 DEF PLAIN_TEXT_MIME_TYPES_SORTED
  <2>7. i = 1 \/ i = 2 \/ i = 3 \/ i = 4 \/ i = 5
    OBVIOUS
  <2> QED
    BY <2>2, <2>3, <2>4, <2>5, <2>6, <2>7
<1> HIDE DEF T
<1>10. OfferAll(source) = T
    BY <1>3, <1>4, <1>7, <1>8, <1>9, SeqEqual
<1> QED
    BY <1>7, <1>10 DEF T

(* The offers are appended one at a time.                                  *)
LEMMA OffersAppended ==
    ASSUME NEW q \in Seq(Requests), NEW source \in ObjectId
    PROVE  q \o OfferAll(source) =
           Append(Append(Append(Append(Append(q,
               Offer(source, "STRING")), Offer(source, "TEXT")),
               Offer(source, "UTF8_STRING")), Offer(source, "text/plain")),
               Offer(source, "text/plain;charset=utf-8"))
<1> DEFINE a == Offer(source, "STRING")
           b == Offer(source, "TEXT")
           c == Offer(source, "UTF8_STRING")
           d == Offer(source, "text/plain")
           e == Offer(source, "text/plain;charset=utf-8")
<1>1. /\ a \in Requests /\ b \in Requests /\ c \in Requests /\ d \in Requests
      /\ e \in Requests
  <2>1. \A mime \in PlainTextTypes : Offer(source, mime) \in Requests
    BY DEF Offer, Requests
  <2> QED
    BY <2>1, TypesOffered
<1>2. OfferAll(source) = << a, b, c, d, e >>
    BY OffersInOrder
<1> HIDE DEF a, b, c, d, e
<1>3. q \o << a, b, c, d, e >> =
          Append(Append(Append(Append(Append(q, a), b), c), d), e)
    BY <1>1, AppendFive
<1> QED
    BY <1>2, <1>3 DEF a, b, c, d, e

(* Publishing a source keeps a queue sound: the source is the next object, *)
(* it is offered under every type and then selected.                       *)
LEMMA SendPublish ==
    ASSUME NEW q \in Seq(Requests), NEW o \in Seq(ObjectKinds), NEW u,
           NEW n \in ObjectId, QueueSound(o, u, q, n),
           clipboard_manager_id \in ObjectId, clipboard_device_id \in ObjectId,
           KnownIn(o, q, clipboard_manager_id, "ext_data_control_manager_v1"),
           KnownIn(o, q, clipboard_device_id, "ext_data_control_device_v1")
    PROVE  LET t == q \o PublishSource(n) IN
           /\ QueueSound(o, u, t, n + 1)
           /\ Selecting(t) = Selecting(q) \cup {n}
           /\ Destroying(t) = Destroying(q)
           /\ \A id, kind : KnownIn(o, q, id, kind) => KnownIn(o, t, id, kind)
           /\ KnownIn(o, t, n, "ext_data_control_source_v1")
<1> DEFINE created == Append(q, CreateDataSource(clipboard_manager_id, n))
           one   == Append(created, Offer(n, "STRING"))
           two   == Append(one, Offer(n, "TEXT"))
           three == Append(two, Offer(n, "UTF8_STRING"))
           four  == Append(three, Offer(n, "text/plain"))
           five  == Append(four, Offer(n, "text/plain;charset=utf-8"))
           t     == Append(five, SetSelection(clipboard_device_id, n))
           Same(a, b) ==
              /\ Selecting(b) = Selecting(a) /\ Destroying(b) = Destroying(a)
              /\ \A id, kind : KnownIn(o, a, id, kind) => KnownIn(o, b, id, kind)
           Good(b) == /\ b \in Seq(Requests) /\ QueueSound(o, u, b, n + 1)
                      /\ Newest(o, u, b, n)
<1>1. {"STRING", "TEXT", "UTF8_STRING", "text/plain",
       "text/plain;charset=utf-8"} \subseteq PlainTextTypes
    BY TypesOffered
<1>2. n + 1 \in Nat
    BY DEF ObjectId
<1>3. q \o PublishSource(n) = t
  <2> DEFINE C == CreateDataSource(clipboard_manager_id, n)
             D == SetSelection(clipboard_device_id, n)
  <2>1. C \in Requests /\ D \in Requests
        /\ \A mime \in PlainTextTypes : Offer(n, mime) \in Requests
    BY DEF CreateDataSource, SetSelection, Offer, Requests
  <2>2. << C >> \in Seq(Requests) /\ << D >> \in Seq(Requests)
    BY <2>1
  <2>3. OfferAll(n) \in Seq(Requests)
    BY OffersInOrder
  <2>4. created \in Seq(Requests) /\ q \o << C >> = created
    BY <2>1, AppendOne, AppendProperties
  <2>5. created \o OfferAll(n) = five
    <3> HIDE DEF created
    <3> QED
      BY <2>4, OffersAppended
  <2>6. created \o OfferAll(n) \in Seq(Requests)
    BY <2>3, <2>4, ConcatProperties
  <2> HIDE DEF C, D, created, five
  <2>7. PublishSource(n) = (<< C >> \o OfferAll(n)) \o << D >>
    BY DEF PublishSource, C, D
  <2>8. q \o PublishSource(n) = ((q \o << C >>) \o OfferAll(n)) \o << D >>
    BY <2>2, <2>3, <2>7, ConcatAssociative, ConcatProperties
  <2>9. five \o << D >> = Append(five, D)
    BY <2>1, <2>5, <2>6, AppendOne
  <2> QED
    BY <2>4, <2>5, <2>8, <2>9 DEF D
<1>4. Good(created) /\ Same(q, created)
    BY SendSource
<1>5. ASSUME NEW b, Good(b), NEW mime \in PlainTextTypes
      PROVE  Good(Append(b, Offer(n, mime))) /\ Same(b, Append(b, Offer(n, mime)))
    BY <1>2, <1>5, SendOffer
<1> HIDE DEF Good, Same, created
<1>6. Good(one) /\ Same(created, one)
    BY <1>1, <1>4, <1>5
<1> HIDE DEF one
<1>7. Good(two) /\ Same(one, two)
    BY <1>1, <1>6, <1>5
<1> HIDE DEF two
<1>8. Good(three) /\ Same(two, three)
    BY <1>1, <1>7, <1>5
<1> HIDE DEF three
<1>9. Good(four) /\ Same(three, four)
    BY <1>1, <1>8, <1>5
<1> HIDE DEF four
<1>10. Good(five) /\ Same(four, five)
    BY <1>1, <1>9, <1>5
<1> HIDE DEF five
<1>11. Same(q, five)
    BY <1>4, <1>6, <1>7, <1>8, <1>9, <1>10 DEF Same
<1>12. /\ QueueSound(o, u, t, n + 1)
       /\ Selecting(t) = Selecting(five) \cup {n}
       /\ Destroying(t) = Destroying(five)
       /\ \A id, kind : KnownIn(o, five, id, kind) => KnownIn(o, t, id, kind)
    BY <1>2, <1>10, <1>11, SendSelect DEF Good, Same
<1>13. KnownIn(o, t, n, "ext_data_control_source_v1")
    BY <1>10, <1>12 DEF Good, Newest
<1> QED
    BY <1>3, <1>11, <1>12, <1>13 DEF Same

-----------------------------------------------------------------------------
(* What is on the way to the client, the compositor having the objects o,  *)
(* the used sources u and the selection sel.                               *)

(* The sources that are being cancelled, and asked for their contents.     *)
Cancelling(c) ==
    { c[i].obj : i \in { j \in DOMAIN c : c[j].ev = "cancelled" } }
Sending(c) == { c[i].obj : i \in { j \in DOMAIN c : c[j].ev = "send" } }

(* An event is for an object of either side, an offer has an id of the     *)
(* compositor's range and only a source that was selected is cancelled.    *)
EventSound(o, u, sel, e) ==
    /\ e.obj \in DOMAIN o \/ e.obj >= ServerIdBase
    /\ e.ev = "data_offer" => e.arg >= ServerIdBase
    /\ e.ev = "cancelled" => e.obj \in u /\ e.obj # sel

(* A source is cancelled once and not asked for its contents afterwards.   *)
EventsSound(o, u, sel, c) ==
    /\ \A i \in DOMAIN c : EventSound(o, u, sel, c[i])
    /\ \A i, j \in DOMAIN c :
          i < j /\ c[i].ev = "cancelled" /\ c[j].ev \in {"cancelled", "send"}
              => c[j].obj # c[i].obj

(* What is cancelled was used and is not selected.                         *)
LEMMA CancelledUsed ==
    ASSUME NEW o, NEW u, NEW sel, NEW c, EventsSound(o, u, sel, c)
    PROVE  Cancelling(c) \subseteq u /\ sel \notin Cancelling(c)
    BY DEF EventsSound, EventSound, Cancelling

(* Taking the first event settles it, and nothing else.                    *)
LEMMA EventsAfterRead ==
    ASSUME NEW c \in Seq(Events), c # <<>>, NEW o, NEW u, NEW sel,
           EventsSound(o, u, sel, c)
    PROVE  /\ EventsSound(o, u, sel, Tail(c))
           /\ c[1].ev # "cancelled" => Cancelling(Tail(c)) = Cancelling(c)
           /\ c[1].ev = "cancelled" =>
                  /\ c[1].obj \in Cancelling(c)
                  /\ Cancelling(Tail(c)) = Cancelling(c) \ {c[1].obj}
                  /\ c[1].obj \notin Sending(Tail(c))
           /\ Sending(Tail(c)) \subseteq Sending(c)
           /\ c[1].ev = "send" => c[1].obj \in Sending(c)
<1> DEFINE t == Tail(c)
<1>1. /\ 1 \in DOMAIN c
      /\ \A i \in DOMAIN t : /\ i \in Nat /\ i + 1 \in DOMAIN c /\ 1 < i + 1
                             /\ t[i] = c[i + 1]
      /\ \A i \in DOMAIN c : i = 1 \/ /\ i - 1 \in DOMAIN t
                                      /\ t[i - 1] = c[i]
    BY TailIndex
<1> HIDE DEF t
<1>2. \A i \in DOMAIN c : c[i] = c[1] \/ \E j \in DOMAIN t : t[j] = c[i]
    BY <1>1
<1>3. \A i \in DOMAIN t : \E j \in DOMAIN c : c[j] = t[i]
    BY <1>1
<1>4. \A i \in DOMAIN t :
          c[1].ev = "cancelled" /\ t[i].ev \in {"cancelled", "send"}
              => t[i].obj # c[1].obj
    BY <1>1 DEF EventsSound
<1>5. EventsSound(o, u, sel, t)
  <2>1. \A i \in DOMAIN t : EventSound(o, u, sel, t[i])
    BY <1>1 DEF EventsSound
  <2>2. ASSUME NEW i \in DOMAIN t, NEW j \in DOMAIN t, i < j,
               t[i].ev = "cancelled", t[j].ev \in {"cancelled", "send"}
        PROVE  t[j].obj # t[i].obj
    <3>1. i + 1 < j + 1
      BY <1>1, <2>2
    <3> QED
      BY <1>1, <2>2, <3>1 DEF EventsSound
  <2> QED
    BY <2>1, <2>2 DEF EventsSound
<1>6. c[1].ev # "cancelled" => Cancelling(t) = Cancelling(c)
    BY <1>2, <1>3 DEF Cancelling
<1>7. ASSUME c[1].ev = "cancelled"
      PROVE  /\ c[1].obj \in Cancelling(c)
             /\ Cancelling(t) = Cancelling(c) \ {c[1].obj}
             /\ c[1].obj \notin Sending(t)
  <2>1. c[1].obj \in Cancelling(c)
    BY <1>1, <1>7 DEF Cancelling
  <2>2. Cancelling(t) = Cancelling(c) \ {c[1].obj}
    BY <1>2, <1>3, <1>4, <1>7 DEF Cancelling
  <2>3. c[1].obj \notin Sending(t)
    BY <1>4, <1>7 DEF Sending
  <2> QED
    BY <2>1, <2>2, <2>3
<1>8. Sending(t) \subseteq Sending(c)
    BY <1>3 DEF Sending
<1>9. c[1].ev = "send" => c[1].obj \in Sending(c)
    BY <1>1 DEF Sending
<1> QED
    BY <1>5, <1>6, <1>7, <1>8, <1>9 DEF t

(* Sending an event adds it, and nothing else.                             *)
LEMMA EventsAfterSend ==
    ASSUME NEW c \in Seq(Events), NEW e \in Events, NEW o, NEW u, NEW sel,
           EventsSound(o, u, sel, c), EventSound(o, u, sel, e),
           e.ev \in {"cancelled", "send"} => e.obj \notin Cancelling(c)
    PROVE  /\ Append(c, e) \in Seq(Events)
           /\ EventsSound(o, u, sel, Append(c, e))
           /\ Cancelling(Append(c, e)) =
                  Cancelling(c) \cup (IF e.ev = "cancelled" THEN {e.obj} ELSE {})
           /\ Sending(Append(c, e)) =
                  Sending(c) \cup (IF e.ev = "send" THEN {e.obj} ELSE {})
<1> DEFINE t == Append(c, e)
<1>1. /\ t \in Seq(Events)
      /\ \A i \in DOMAIN c : /\ i \in DOMAIN t /\ t[i] = c[i] /\ i \in Nat
                             /\ i < Len(c) + 1
      /\ Len(c) + 1 \in DOMAIN t /\ t[Len(c) + 1] = e /\ Len(c) + 1 \in Nat
      /\ \A i \in DOMAIN t : i \in DOMAIN c \/ i = Len(c) + 1
    BY AppendIndex
<1> HIDE DEF t
<1>2. EventsSound(o, u, sel, t)
  <2>1. \A i \in DOMAIN t : EventSound(o, u, sel, t[i])
    BY <1>1 DEF EventsSound
  <2>2. ASSUME NEW i \in DOMAIN t, NEW j \in DOMAIN t, i < j,
               t[i].ev = "cancelled", t[j].ev \in {"cancelled", "send"}
        PROVE  t[j].obj # t[i].obj
    <3>1. i \in DOMAIN c /\ t[i] = c[i]
      BY <1>1, <2>2
    <3>2. CASE j \in DOMAIN c
      BY <1>1, <2>2, <3>1, <3>2 DEF EventsSound
    <3>3. CASE t[j] = e
      BY <2>2, <3>1, <3>3 DEF Cancelling
    <3> QED
      BY <1>1, <3>2, <3>3
  <2>3. \A i, j \in DOMAIN t :
            i < j /\ t[i].ev = "cancelled" /\ t[j].ev \in {"cancelled", "send"}
                => t[j].obj # t[i].obj
    BY <2>2
  <2> QED
    BY <2>1, <2>3 DEF EventsSound
<1>3. /\ \A i \in DOMAIN t : t[i] = e \/ \E j \in DOMAIN c : c[j] = t[i]
      /\ \A i \in DOMAIN c : \E j \in DOMAIN t : t[j] = c[i]
      /\ \E i \in DOMAIN t : t[i] = e
    BY <1>1
<1>4. Cancelling(t) =
          Cancelling(c) \cup (IF e.ev = "cancelled" THEN {e.obj} ELSE {})
    BY <1>3 DEF Cancelling
<1>5. Sending(t) = Sending(c) \cup (IF e.ev = "send" THEN {e.obj} ELSE {})
    BY <1>3 DEF Sending
<1> QED
    BY <1>1, <1>2, <1>4, <1>5 DEF t

(* What is on the way stays sound when the compositor has more objects and *)
(* used more sources, unless it selects one that is being cancelled.       *)
LEMMA EventsKept ==
    ASSUME NEW c, NEW o, NEW u, NEW sel, EventsSound(o, u, sel, c),
           NEW after, DOMAIN o \subseteq DOMAIN after, NEW now, u \subseteq now,
           NEW new, new \notin Cancelling(c)
    PROVE  EventsSound(after, now, new, c)
    BY DEF EventsSound, EventSound, Cancelling

-----------------------------------------------------------------------------
(* The inductive invariant.                                                *)

(* What the client sent may be read in its order.                          *)
RequestsInv == QueueSound(objects, used, toServer, nextObjectId)

Known(id, kind) == KnownIn(objects, toServer, id, kind)

(* What WaylandData names is there once the compositor has read all.       *)
ObjectsKnown ==
    /\ Known(DISPLAY, "wl_display") /\ Known(RegistryId, "wl_registry")
    /\ seat_id # None => Known(seat_id, "wl_seat")
    /\ clipboard_manager_id # None =>
            Known(clipboard_manager_id, "ext_data_control_manager_v1")
    /\ clipboard_device_id # None =>
            Known(clipboard_device_id, "ext_data_control_device_v1")
    /\ clipboard_source_id # None =>
            Known(clipboard_source_id, "ext_data_control_source_v1")

Flag(id) == IF id = None THEN 0 ELSE 1

(* The ids that the client took: two at first, one for each field that is  *)
(* set for good and at most one for each code.                             *)
IdsCounted ==
    /\ clipboard_device_id # None
            <=> (seat_id # None /\ clipboard_manager_id # None)
    /\ RegistryId < nextObjectId
    /\ nextObjectId <= RegistryId + 1 + Flag(seat_id)
                        + Flag(clipboard_manager_id)
                        + Flag(clipboard_device_id) + copied
    /\ clicks <= MaxCopies
    /\ incoming_offer_id = None \/ incoming_offer_id >= ServerIdBase

(* The client holds the newest source that it asks to select, has asked to *)
(* destroy the others, and knows of its own until that is cancelled.       *)
SelectionInv ==
    /\ clipboard_source_id \notin Destroying(toServer)
    /\ \A x \in Selecting(toServer) :
          /\ clipboard_source_id # None => x <= clipboard_source_id
          /\ x = clipboard_source_id \/ x \in Destroying(toServer)
    /\ selection # None => selection \in used
    /\ selection \notin {None, clipboard_source_id} =>
          selection \in Destroying(toServer)
    /\ clipboard_source_id # None /\ ~seatLost =>
          \/ selection = clipboard_source_id
          \/ clipboard_source_id \in Selecting(toServer)
          \/ clipboard_source_id \in Cancelling(toClient)

EventsInv == EventsSound(objects, used, selection, toClient)

(* After an undisputed claim the client holds a source for that code.      *)
ClaimInv ==
    claim = "ours" /\ ~seatLost =>
        /\ clipboard_source_id # None /\ clipboard_data = copied
        /\ clipboard_source_id \notin Cancelling(toClient)

WireInv == /\ RequestsInv /\ ObjectsKnown /\ IdsCounted
           /\ SelectionInv /\ EventsInv /\ ClaimInv

-----------------------------------------------------------------------------
(* What the invariant says.                                                *)

(* The ids never wrap and never reach the compositor's range.              *)
LEMMA IdsFit ==
    ASSUME TypeOK, FreshInv, IdsCounted
    PROVE  /\ nextObjectId \in ObjectId /\ nextObjectId < ServerIdBase
           /\ NewObjectId(nextObjectId) = nextObjectId
           /\ NextObjectId(nextObjectId) = nextObjectId + 1
           /\ seat_id = None \/ clipboard_manager_id = None =>
                  /\ NewObjectId(nextObjectId + 1) = nextObjectId + 1
                  /\ NextObjectId(nextObjectId + 1) = nextObjectId + 2
<1>1. copied <= clicks /\ clicks <= MaxCopies /\ copied \in Nat /\ clicks \in Nat
    BY DEF TypeOK, FreshInv, ChannelInOrder, IdsCounted
<1>2. /\ IdSpace \in Nat /\ ServerIdBase \in Nat /\ ServerIdBase < IdSpace
      /\ MaxCopies \in Nat /\ MaxCopies + 6 < ServerIdBase
    BY IdsAssumption
<1>3. nextObjectId \in Nat /\ 2 < nextObjectId
      /\ nextObjectId <= 3 + Flag(seat_id) + Flag(clipboard_manager_id)
                            + Flag(clipboard_device_id) + copied
    BY DEF TypeOK, IdsCounted, RegistryId
<1>4. /\ Flag(seat_id) \in 0 .. 1 /\ Flag(clipboard_manager_id) \in 0 .. 1
      /\ Flag(clipboard_device_id) \in 0 .. 1
    BY DEF Flag
<1>5. nextObjectId <= MaxCopies + 6
    BY <1>1, <1>2, <1>3, <1>4
<1>6. ASSUME seat_id = None \/ clipboard_manager_id = None
      PROVE  nextObjectId <= MaxCopies + 4
  <2>1. clipboard_device_id = None
    BY <1>6 DEF IdsCounted
  <2>2. Flag(clipboard_device_id) = 0
        /\ (Flag(seat_id) = 0 \/ Flag(clipboard_manager_id) = 0)
    BY <1>6, <2>1 DEF Flag
  <2> QED
    BY <1>1, <1>2, <1>3, <1>4, <2>2
<1>7. ASSUME NEW n \in Nat, 0 < n, n <= MaxCopies + 6
      PROVE  NewObjectId(n) = n /\ NextObjectId(n) = n + 1
  <2>1. NewObjectId(n) = n
    BY <1>7 DEF NewObjectId
  <2>2. n + 1 \in Nat /\ n + 1 < IdSpace
    BY <1>2, <1>7
  <2>3. (n + 1) % IdSpace = n + 1
    BY <1>2, <2>2
  <2> QED
    BY <2>1, <2>3 DEF NextObjectId
<1> QED
    BY <1>2, <1>3, <1>5, <1>6, <1>7 DEF ObjectId, None

(* The objects of WaylandData are different, and below the compositor's    *)
(* ids.                                                                    *)
LEMMA KnownApart ==
    ASSUME TypeOK, RequestsInv, NEW id, NEW kind, Known(id, kind)
    PROVE  /\ id \in Nat /\ id < nextObjectId
           /\ \A other : Known(id, other) => other = kind
           /\ id \in DOMAIN objects => objects[id] = kind
<1>1. /\ objects \in Seq(ObjectKinds) /\ toServer \in Seq(Requests)
      /\ nextObjectId \in Nat
      /\ Gapless(objects, toServer, nextObjectId)
    BY DEF TypeOK, RequestsInv, QueueSound
<1>2. Len(objects) \in Nat /\ DOMAIN objects = 1 .. Len(objects)
    BY <1>1, LenProperties
<1>3. Made(objects, toServer, id, kind, Len(toServer) + 1)
    BY DEF Known, KnownIn
<1>4. id \in DOMAIN objects => Made(objects, toServer, id, objects[id], 1)
    BY DEF Made
<1>5. id \in Nat /\ id < nextObjectId
    BY <1>1, <1>3, MadeBelow
<1>6. ASSUME NEW other, Known(id, other) PROVE other = kind
  <2>1. Made(objects, toServer, id, other, Len(toServer) + 1)
    BY <1>6 DEF Known, KnownIn
  <2> QED
    BY <1>1, <1>2, <1>3, <2>1, KindUnique
<1>7. id \in DOMAIN objects => objects[id] = kind
    BY <1>1, <1>2, <1>3, <1>4, KindUnique
<1> QED
    BY <1>5, <1>6, <1>7

(* The next packet that the compositor reads is legal.                     *)
LEMMA HeadLegal ==
    ASSUME TypeOK, RequestsInv, toServer # <<>>
    PROVE  /\ Legal(Head(toServer)) /\ Head(toServer) = toServer[1]
           /\ toServer[1] \in Requests
           /\ Creating(toServer[1]) => toServer[1].id = Len(objects) + 1
<1> DEFINE r == toServer[1]
<1>1. /\ objects \in Seq(ObjectKinds) /\ toServer \in Seq(Requests)
      /\ nextObjectId \in Nat
      /\ Gapless(objects, toServer, nextObjectId)
      /\ used \subseteq DOMAIN objects
    BY DEF TypeOK, RequestsInv, QueueSound
<1>2. Len(objects) \in Nat /\ DOMAIN objects = 1 .. Len(objects)
    BY <1>1, LenProperties
<1>3. /\ Head(toServer) = r /\ 1 \in DOMAIN toServer /\ r \in Requests
      /\ \A i \in DOMAIN toServer : ~(i < 1)
    BY <1>1, TailIndex, ElementOfSeq
<1>4. RequestSound(objects, used, toServer, r, 1)
    BY <1>3 DEF RequestsInv, QueueSound
<1> HIDE DEF r
<1>5. \A id, kind : Made(objects, toServer, id, kind, 1) =>
          id \in DOMAIN objects /\ objects[id] = kind
    BY <1>3 DEF Made
<1>6. r.obj \in DOMAIN objects /\ objects[r.obj] = InterfaceOf(r.op)
    BY <1>4, <1>5 DEF RequestSound
<1>7. Creating(r) => r.id = Len(objects) + 1
    BY <1>1, <1>2, NextMade DEF r
<1>8. r.op = "get_data_device" =>
          r.seat \in DOMAIN objects /\ objects[r.seat] = "wl_seat"
    BY <1>4, <1>5 DEF RequestSound
<1>9. r.op = "offer" => r.obj \notin used
    BY <1>4 DEF RequestSound
<1>10. r.op = "set_selection" =>
          /\ r.source \in DOMAIN objects \ used
          /\ objects[r.source] = "ext_data_control_source_v1"
  <2>1. r.op = "set_selection" => \A s \in used : s < r.source
    BY <1>4 DEF RequestSound
  <2>2. \A s \in used : s \in Nat
    BY <1>1, <1>2
  <2> QED
    BY <1>4, <1>5, <2>1, <2>2 DEF RequestSound
<1>11. Legal(r)
    BY <1>6, <1>7, <1>8, <1>9, <1>10 DEF Legal, Creating
<1> QED
    BY <1>3, <1>7, <1>11 DEF r

(* No packet in flight breaks the protocol.                                *)
LEMMA WireLegal == TypeOK /\ WireInv => RequestsLegal
    BY HeadLegal DEF WireInv, RequestsLegal

(* Events find their own object.                                           *)
LEMMA WireDispatch == TypeOK /\ FreshInv /\ WireInv => DispatchSound
<1> SUFFICES ASSUME TypeOK, FreshInv, WireInv, NEW i \in DOMAIN toClient,
                    NEW id, id = toClient[i].obj
             PROVE  Recipient(id) \in
                        {"unknown", IF id >= ServerIdBase
                                    THEN "ext_data_control_offer_v1"
                                    ELSE objects[id]}
    BY DEF DispatchSound
<1>1. id \in Nat /\ id # None
  <2>1. toClient[i] \in Events
    BY LenProperties, ElementOfSeq DEF TypeOK
  <2> QED
    BY <2>1 DEF Events, ObjectId
<1>2. id \in DOMAIN objects \/ id >= ServerIdBase
    BY DEF WireInv, EventsInv, EventsSound, EventSound
<1>3. RequestsInv /\ ObjectsKnown /\ IdsCounted
    BY DEF WireInv
<1>4. nextObjectId < ServerIdBase /\ nextObjectId \in Nat /\ ServerIdBase \in Nat
    BY <1>3, IdsFit, IdsAssumption DEF TypeOK
<1>5. ASSUME NEW kind, Known(id, kind)
      PROVE  ~(id >= ServerIdBase) /\ objects[id] = kind
  <2>1. id < nextObjectId /\ (id \in DOMAIN objects => objects[id] = kind)
    BY <1>3, <1>5, KnownApart
  <2>2. ~(id >= ServerIdBase)
    BY <1>1, <1>4, <2>1
  <2> QED
    BY <1>2, <2>1, <2>2
<1>6. id = incoming_offer_id => id >= ServerIdBase
    BY <1>1, <1>3 DEF IdsCounted
<1>7. /\ id = DISPLAY => Known(id, "wl_display")
      /\ id = RegistryId => Known(id, "wl_registry")
      /\ id = clipboard_source_id => Known(id, "ext_data_control_source_v1")
      /\ id = seat_id => Known(id, "wl_seat")
      /\ id = clipboard_device_id => Known(id, "ext_data_control_device_v1")
      /\ id = clipboard_manager_id => Known(id, "ext_data_control_manager_v1")
    BY <1>1, <1>3 DEF ObjectsKnown
<1>8. Recipient(id) \in {"unknown", "ext_data_control_offer_v1"}
      \/ Known(id, Recipient(id))
    BY <1>7 DEF Recipient
<1>9. Recipient(id) = "ext_data_control_offer_v1" => id = incoming_offer_id
    BY DEF Recipient
<1> QED
    BY <1>5, <1>6, <1>8, <1>9

(* A set whose members are equal has at most one.                          *)
LEMMA AtMostOne ==
    ASSUME NEW S, \A i, j \in S : i = j
    PROVE  Cardinality(S) = IF S = {} THEN 0 ELSE 1
<1>1. CASE S = {}
    BY <1>1, FS_EmptySet
<1>2. CASE S # {}
  <2>1. PICK i : S = {i}
    BY <1>2
  <2> QED
    BY <2>1, FS_Singleton
<1> QED
    BY <1>1, <1>2

(* Exactly one thing is true of the source that the client holds.          *)
LEMMA WireOwnership == TypeOK /\ WireInv => OwnershipTracked
<1> SUFFICES ASSUME TypeOK, WireInv PROVE OwnershipTracked
    OBVIOUS
<1> DEFINE s == clipboard_source_id
           asked     == { i \in DOMAIN toServer :
                            /\ toServer[i].op = "set_selection"
                            /\ toServer[i].source = s }
           cancelled == { i \in DOMAIN toClient :
                            /\ toClient[i].ev = "cancelled"
                            /\ toClient[i].obj = s }
<1>1. /\ objects \in Seq(ObjectKinds) /\ toServer \in Seq(Requests)
      /\ nextObjectId \in Nat /\ s \in Nat
      /\ QueueSound(objects, used, toServer, nextObjectId)
      /\ EventsSound(objects, used, selection, toClient)
      /\ \A i \in DOMAIN toServer : i \in Nat /\ toServer[i] \in Requests
      /\ \A i \in DOMAIN toClient : i \in Nat
    BY LenProperties, ElementOfSeq
       DEF TypeOK, WireInv, RequestsInv, EventsInv
<1>2. \A i, j \in asked : i = j
    BY <1>1 DEF QueueSound, PairSound
<1>3. \A i, j \in cancelled : i = j
    BY <1>1 DEF EventsSound
<1>4. asked = {} <=> s \notin Selecting(toServer)
    BY DEF Selecting
<1>5. cancelled = {} <=> s \notin Cancelling(toClient)
    BY DEF Cancelling
<1>6. ASSUME s # None, ~seatLost
      PROVE  Cardinality(asked) + Cardinality(cancelled)
                + (IF selection = s THEN 1 ELSE 0) = 1
  <2> HIDE DEF asked, cancelled
  <2>1. /\ Cardinality(asked) = IF asked = {} THEN 0 ELSE 1
        /\ Cardinality(cancelled) = IF cancelled = {} THEN 0 ELSE 1
    BY <1>2, <1>3, AtMostOne
  <2>2. \/ selection = s \/ s \in Selecting(toServer)
        \/ s \in Cancelling(toClient)
    BY <1>6 DEF WireInv, SelectionInv
  <2>3. s \in Selecting(toServer) => s \notin used
    BY <1>1, PendingSound
  <2>4. Cancelling(toClient) \subseteq used /\ selection \notin Cancelling(toClient)
    BY <1>1, CancelledUsed
  <2>5. selection = s => s \in used
    BY <1>6 DEF WireInv, SelectionInv
  <2> QED
    BY <1>4, <1>5, <2>1, <2>2, <2>3, <2>4, <2>5
<1>7. ASSUME selection \notin {None, s}
      PROVE  \E i \in DOMAIN toServer : toServer[i] = Destroy(selection)
  <2>1. PICK i \in DOMAIN toServer :
            toServer[i].op = "destroy" /\ toServer[i].obj = selection
    BY <1>7 DEF WireInv, SelectionInv, Destroying
  <2>2. toServer[i] = Destroy(selection)
    BY <1>1, <2>1 DEF Requests, Destroy
  <2> QED
    BY <2>2
<1> QED
    BY <1>6, <1>7 DEF OwnershipTracked

(* A claim that nobody disputed is honoured once all is read.              *)
LEMMA WirePublished == WireInv => CopyPublished
<1> SUFFICES ASSUME WireInv, Quiet, claim = "ours", ~seatLost
             PROVE  Published
    BY DEF CopyPublished
<1>1. toServer = <<>> /\ toClient = <<>>
    BY DEF Quiet
<1>2. Selecting(toServer) = {} /\ Cancelling(toClient) = {}
    BY <1>1 DEF Selecting, Cancelling
<1> QED
    BY <1>2 DEF WireInv, ClaimInv, SelectionInv, Published

-----------------------------------------------------------------------------
(* Initially only get_registry is on its way.                              *)
LEMMA WireInitially == Init => WireInv
<1> SUFFICES ASSUME Init PROVE WireInv
    OBVIOUS
<1>1. /\ DOMAIN objects = {1} /\ Len(objects) = 1 /\ objects[1] = "wl_display"
      /\ DOMAIN toServer = {1} /\ Len(toServer) = 1
      /\ toServer[1].op = "get_registry" /\ toServer[1].obj = DISPLAY
      /\ toServer[1].id = RegistryId
      /\ nextObjectId = 3 /\ used = {} /\ toClient = <<>>
    BY DEF Init, RegistryId
<1>2. /\ Creating(toServer[1]) /\ KindMade(toServer[1]) = "wl_registry"
      /\ InterfaceOf(toServer[1].op) = "wl_display"
    BY <1>1 DEF Creating, KindMade, Creates, InterfaceOf
<1>3. Gapless(objects, toServer, nextObjectId)
    BY <1>1, <1>2 DEF Gapless, RegistryId
<1>4. RequestSound(objects, used, toServer, toServer[1], 1)
    BY <1>1, <1>2 DEF RequestSound, Made, DISPLAY
<1>5. RequestsInv
    BY <1>1, <1>3, <1>4 DEF RequestsInv, QueueSound
<1>6. ObjectsKnown
    BY <1>1, <1>2 DEF Init, ObjectsKnown, Known, KnownIn, Made, DISPLAY
<1>7. IdsCounted
    BY IdsAssumption DEF Init, IdsCounted, Flag, RegistryId, None
<1>8. /\ Selecting(toServer) = {} /\ Destroying(toServer) = {}
      /\ Cancelling(toClient) = {}
    BY <1>1 DEF Selecting, Destroying, Cancelling
<1>9. SelectionInv
    BY <1>8 DEF Init, SelectionInv
<1>10. EventsInv
    BY <1>1 DEF EventsInv, EventsSound
<1> QED
    BY <1>5, <1>6, <1>7, <1>9, <1>10 DEF Init, ClaimInv, WireInv

-----------------------------------------------------------------------------
(* The compositor reads.                                                   *)

(* What is known stays known when a request is read that destroys nothing. *)
LEMMA NoneGone ==
    ASSUME NEW q \in Seq(Requests), q # <<>>, NEW o, NEW after,
           ReadMakes(o, after, q[1], {})
    PROVE  \A id, kind : KnownIn(o, q, id, kind) =>
                         KnownIn(after, Tail(q), id, kind)
<1> SUFFICES ASSUME NEW id, NEW kind, KnownIn(o, q, id, kind)
             PROVE  KnownIn(after, Tail(q), id, kind)
    OBVIOUS
<1>1. id \notin {}
    OBVIOUS
<1> QED
    BY <1>1, KnownAfterRead

(* What is unchanged in most steps.                                        *)
LEMMA KnownKept ==
    ASSUME ObjectsKnown,
           UNCHANGED << seat_id, clipboard_manager_id, clipboard_device_id,
                        clipboard_source_id >>,
           \A id, kind : Known(id, kind) => Known(id, kind)'
    PROVE  ObjectsKnown'
    BY DEF ObjectsKnown

(* A step that sends no request, gives the client no object and cancels    *)
(* nothing keeps the invariant.                                            *)
LEMMA NothingAsked ==
    ASSUME WireInv, EventsInv',
           UNCHANGED << toServer, nextObjectId, objects, used, selection,
                        seatLost, seat_id, clipboard_manager_id,
                        clipboard_device_id, clipboard_source_id,
                        clipboard_data, copied, claim >>,
           Cancelling(toClient') = Cancelling(toClient),
           clicks' <= MaxCopies,
           incoming_offer_id' = incoming_offer_id
               \/ incoming_offer_id' >= ServerIdBase
    PROVE  WireInv'
<1>1. RequestsInv'
    BY DEF WireInv, RequestsInv
<1>2. ObjectsKnown'
    BY DEF WireInv, ObjectsKnown, Known
<1>3. IdsCounted'
    BY DEF WireInv, IdsCounted, Flag
<1>4. SelectionInv'
    BY DEF WireInv, SelectionInv
<1>5. ClaimInv'
    BY DEF WireInv, ClaimInv
<1> QED
    BY <1>1, <1>2, <1>3, <1>4, <1>5 DEF WireInv

(* What a read leaves alone.                                               *)
LEMMA ReadFacts ==
    ASSUME TypeOK, WireInv, NEW ops, ServerRead(ops)
    PROVE  /\ toServer # <<>> /\ toServer' = Tail(toServer)
           /\ Head(toServer) = toServer[1] /\ toServer[1] \in Requests
           /\ toServer[1].op \in ops /\ Legal(toServer[1])
           /\ Creating(toServer[1]) => toServer[1].id = Len(objects) + 1
           /\ IdsCounted' /\ UNCHANGED << nextObjectId, seatLost, claim, copied,
                   clipboard_data, clipboard_source_id, seat_id,
                   clipboard_manager_id, clipboard_device_id >>
           /\ objects \in Seq(ObjectKinds) /\ toServer \in Seq(Requests)
           /\ toClient \in Seq(Events) /\ nextObjectId \in Nat
           /\ Len(objects) \in Nat /\ DOMAIN objects = 1 .. Len(objects)
           /\ QueueSound(objects, used, toServer, nextObjectId)
           /\ EventsSound(objects, used, selection, toClient)
           /\ used \subseteq DOMAIN objects
<1>1. /\ toServer # <<>> /\ toServer' = Tail(toServer)
      /\ Head(toServer).op \in ops
      /\ UNCHANGED << nextObjectId, seatLost, clicks, copied, claim, seat_id,
             clipboard_manager_id, clipboard_device_id, clipboard_data,
             clipboard_source_id, incoming_offer_id >>
    BY DEF ServerRead, wayland_data, user
<1>2. RequestsInv /\ EventsInv /\ IdsCounted
    BY DEF WireInv
<1>3. IdsCounted'
    BY <1>1, <1>2 DEF IdsCounted, Flag
<1>4. QueueSound(objects, used, toServer, nextObjectId)
      /\ used \subseteq DOMAIN objects
    BY <1>2 DEF RequestsInv, QueueSound
<1>5. /\ objects \in Seq(ObjectKinds) /\ toServer \in Seq(Requests)
      /\ toClient \in Seq(Events) /\ nextObjectId \in Nat
      /\ Len(objects) \in Nat /\ DOMAIN objects = 1 .. Len(objects)
    BY LenProperties DEF TypeOK
<1>6. EventsSound(objects, used, selection, toClient)
    BY <1>2 DEF EventsInv
<1> QED
    BY <1>1, <1>2, <1>3, <1>4, <1>5, <1>6, HeadLegal

(* A request that creates an object is read.                               *)
LEMMA CreateKeepsWire ==
    ASSUME TypeOK, WireInv, ServerCreate \/ ServerBind
    PROVE  WireInv'
<1> DEFINE r == toServer[1]
<1>1. PICK ops \in {DOMAIN Creates, {"bind"}} : ServerRead(ops)
    BY DEF ServerCreate, ServerBind
<1>2. /\ toServer # <<>> /\ toServer' = Tail(toServer) /\ Head(toServer) = r
      /\ r \in Requests /\ r.op \in ops
      /\ objects \in Seq(ObjectKinds) /\ toServer \in Seq(Requests)
      /\ toClient \in Seq(Events) /\ nextObjectId \in Nat
      /\ Len(objects) \in Nat /\ DOMAIN objects = 1 .. Len(objects)
      /\ QueueSound(objects, used, toServer, nextObjectId)
      /\ EventsSound(objects, used, selection, toClient)
      /\ used \subseteq DOMAIN objects
    BY <1>1, ReadFacts
<1>3. Creating(r) /\ r.id = Len(objects) + 1
      /\ r.op \notin {"set_selection", "destroy", "offer"}
    BY <1>1, <1>2, ReadFacts DEF Creating, Creates
<1>4. /\ objects' = Append(objects, KindMade(r))
      /\ UNCHANGED << used, selection >>
    BY <1>1, <1>2 DEF ServerCreate, ServerBind, ServerRead, KindMade, Creates
<1>5. \/ UNCHANGED toClient
      \/ \E ev \in EventNames \ {"cancelled", "send", "data_offer"} :
            toClient' = Append(toClient, Event(r.id, ev, None))
    BY <1>2 DEF ServerCreate, ServerBind, EventNames
<1> HIDE DEF r
<1>6. r.id \in ObjectId /\ KindMade(r) \in ObjectKinds
    BY <1>2, <1>3, RequestFields DEF ObjectId, None
<1>7. /\ Len(objects') = Len(objects) + 1
      /\ DOMAIN objects' = 1 .. Len(objects) + 1
      /\ \A i \in DOMAIN objects : objects'[i] = objects[i]
      /\ objects'[r.id] = KindMade(r)
    BY <1>2, <1>3, <1>4, <1>6, AppendIndex
<1>8. RequestsInv'
    BY <1>2, <1>3, <1>4, <1>1, ReadFacts, QueueAfterCreate DEF RequestsInv, r
<1>9. ReadMakes(objects, objects', r, {})
    BY <1>2, <1>3, <1>7 DEF ReadMakes
<1>10. \A id, kind : Known(id, kind) => Known(id, kind)'
    BY <1>2, <1>9, NoneGone DEF Known, r
<1>11. ObjectsKnown'
    BY <1>1, <1>10, ReadFacts, KnownKept DEF WireInv
<1>12. Selecting(toServer') = Selecting(toServer)
       /\ Destroying(toServer') = Destroying(toServer)
    BY <1>2, <1>3, PendingAfterRead DEF r
<1>13. EventsInv' /\ Cancelling(toClient') = Cancelling(toClient)
  <2>1. EventsSound(objects', used, selection, toClient)
    <3>1. DOMAIN objects \subseteq DOMAIN objects'
      BY <1>2, <1>7
    <3>2. selection \notin Cancelling(toClient)
      BY <1>2, CancelledUsed
    <3> QED
      BY <1>2, <3>1, <3>2, EventsKept
  <2>2. ASSUME NEW ev \in EventNames \ {"cancelled", "send", "data_offer"},
               toClient' = Append(toClient, Event(r.id, ev, None))
        PROVE  EventsInv' /\ Cancelling(toClient') = Cancelling(toClient)
    <3> DEFINE e == Event(r.id, ev, None)
    <3>1. e \in Events /\ e.ev = ev /\ e.obj = r.id
      BY <1>6 DEF Event, Events, None
    <3>2. r.id \in DOMAIN objects'
      BY <1>2, <1>3, <1>7
    <3> HIDE DEF e
    <3>3. EventSound(objects', used, selection, e)
      BY <2>2, <3>1, <3>2 DEF EventSound
    <3>4. /\ EventsSound(objects', used, selection, Append(toClient, e))
          /\ Cancelling(Append(toClient, e)) = Cancelling(toClient)
      BY <1>2, <2>1, <2>2, <3>1, <3>3, EventsAfterSend
    <3> QED
      BY <1>4, <2>2, <3>4 DEF EventsInv, e
  <2> QED
    BY <1>4, <1>5, <2>1, <2>2 DEF EventsInv
<1>14. SelectionInv'
    BY <1>1, <1>4, <1>12, <1>13, ReadFacts DEF WireInv, SelectionInv
<1>15. ClaimInv'
    BY <1>1, <1>13, ReadFacts DEF WireInv, ClaimInv
<1> QED
    BY <1>1, <1>8, <1>11, <1>13, <1>14, <1>15, ReadFacts DEF WireInv

(* An offer is read.                                                       *)
LEMMA OfferKeepsWire ==
    ASSUME TypeOK, WireInv, ServerOffer
    PROVE  WireInv'
<1> DEFINE r == toServer[1]
<1>1. ServerRead({"offer"})
      /\ UNCHANGED << objects, used, selection, toClient >>
    BY DEF ServerOffer
<1>2. /\ toServer # <<>> /\ toServer' = Tail(toServer) /\ Head(toServer) = r
      /\ r \in Requests /\ r.op = "offer"
      /\ objects \in Seq(ObjectKinds) /\ toServer \in Seq(Requests)
      /\ nextObjectId \in Nat
      /\ QueueSound(objects, used, toServer, nextObjectId)
    BY <1>1, ReadFacts
<1>3. RequestsInv'
    BY <1>1, <1>2, ReadFacts, QueueAfterOffer DEF RequestsInv
<1>4. ReadMakes(objects, objects', r, {})
    BY <1>1, <1>2 DEF ReadMakes, Creating, Creates
<1>5. \A id, kind : Known(id, kind) => Known(id, kind)'
    BY <1>2, <1>4, NoneGone DEF Known
<1>6. ObjectsKnown'
    BY <1>1, <1>5, ReadFacts, KnownKept DEF WireInv
<1>7. Selecting(toServer') = Selecting(toServer)
      /\ Destroying(toServer') = Destroying(toServer)
    BY <1>2, PendingAfterRead
<1>8. SelectionInv'
    BY <1>1, <1>7, ReadFacts DEF WireInv, SelectionInv
<1>9. ClaimInv' /\ EventsInv'
    BY <1>1, ReadFacts DEF WireInv, ClaimInv, EventsInv
<1> QED
    BY <1>1, <1>3, <1>6, <1>8, <1>9, ReadFacts DEF WireInv

(* A destruction is read.  The source is not the one that the client       *)
(* holds, and no event on the way is the worse for it.                     *)
LEMMA DestroyKeepsWire ==
    ASSUME TypeOK, WireInv, ServerDestroy
    PROVE  WireInv'
<1> DEFINE r == toServer[1]
           s == clipboard_source_id
           d == r.obj
<1>1. ServerRead({"destroy"})
    BY DEF ServerDestroy
<1>2. /\ toServer # <<>> /\ toServer' = Tail(toServer) /\ Head(toServer) = r
      /\ r \in Requests /\ r.op = "destroy" /\ Legal(r)
      /\ objects \in Seq(ObjectKinds) /\ toServer \in Seq(Requests)
      /\ toClient \in Seq(Events) /\ nextObjectId \in Nat
      /\ Len(objects) \in Nat /\ DOMAIN objects = 1 .. Len(objects)
      /\ QueueSound(objects, used, toServer, nextObjectId)
      /\ EventsSound(objects, used, selection, toClient)
      /\ used \subseteq DOMAIN objects
    BY <1>1, ReadFacts
<1>3. /\ d \in DOMAIN objects
      /\ objects[d] = "ext_data_control_source_v1" /\ d \in ObjectId
    BY <1>2, RequestFields DEF Legal, InterfaceOf
<1>4. /\ objects' = [objects EXCEPT ![d] = "destroyed"]
      /\ selection' = IF selection = d THEN None ELSE selection
      /\ toClient' = Append(toClient, Event(DISPLAY, "delete_id", d))
      /\ UNCHANGED used
    BY <1>2 DEF ServerDestroy
<1> HIDE DEF r
<1>5. RequestsInv'
    BY <1>1, <1>2, <1>3, <1>4, ReadFacts, QueueAfterDestroy DEF RequestsInv, r
<1>6. ReadMakes(objects, objects', r, {d})
  <2>1. DOMAIN objects' = DOMAIN objects
        /\ \A i \in DOMAIN objects : i # d => objects'[i] = objects[i]
    BY <1>4
  <2>2. objects' \in Seq(ObjectKinds)
    BY ClipboardTypeStep DEF TypeOK, Next, Server
  <2>3. Len(objects') = Len(objects)
    BY <1>2, <2>1, <2>2, LenProperties
  <2> QED
    BY <1>2, <2>1, <2>3 DEF ReadMakes, Creating, Creates
<1>7. /\ Selecting(toServer') = Selecting(toServer)
      /\ Destroying(toServer') = Destroying(toServer) \ {d}
      /\ d \in Destroying(toServer) /\ d \notin Selecting(toServer)
    BY <1>2, PendingAfterRead DEF r
<1>8. s # d
    BY <1>7 DEF WireInv, SelectionInv
<1>9. ASSUME NEW id, NEW kind, Known(id, kind),
             kind # "ext_data_control_source_v1" \/ id = s
      PROVE  Known(id, kind)'
  <2>1. id # d
    BY <1>3, <1>8, <1>9, KnownApart DEF WireInv
  <2>2. id \notin {d}
    BY <2>1
  <2> HIDE DEF d
  <2>3. KnownIn(objects', Tail(toServer), id, kind)
    BY <1>2, <1>6, <1>9, <2>2, KnownAfterRead DEF Known, r
  <2> QED
    BY <1>2, <2>3 DEF Known
<1>10. ObjectsKnown'
    BY <1>1, <1>9, ReadFacts DEF WireInv, ObjectsKnown
<1>11. /\ EventsInv' /\ Cancelling(toClient') = Cancelling(toClient)
  <2> DEFINE e == Event(DISPLAY, "delete_id", d)
  <2>1. e \in Events /\ e.ev = "delete_id" /\ e.obj = DISPLAY
    BY <1>3 DEF Event, Events, EventNames, ObjectId, None, DISPLAY
  <2>2. DISPLAY \in DOMAIN objects
    BY <1>2, <1>3 DEF DISPLAY, ObjectId, None
  <2>3. DOMAIN objects' = DOMAIN objects
    BY <1>4
  <2>4. selection' \notin Cancelling(toClient)
    <3>1. Cancelling(toClient) \subseteq ObjectId
      BY <1>2, CancelledUsed DEF ObjectId, None
    <3> QED
      BY <1>2, <1>4, <3>1, CancelledUsed DEF ObjectId
  <2>5. EventsSound(objects', used, selection', toClient)
    BY <1>2, <2>3, <2>4, EventsKept
  <2> HIDE DEF e, d
  <2>6. EventSound(objects', used, selection', e)
    BY <2>1, <2>2, <2>3 DEF EventSound
  <2>7. /\ EventsSound(objects', used, selection', Append(toClient, e))
        /\ Cancelling(Append(toClient, e)) = Cancelling(toClient)
    BY <1>2, <2>1, <2>5, <2>6, EventsAfterSend
  <2> QED
    BY <1>4, <2>7 DEF EventsInv, e
<1>12. SelectionInv'
    BY <1>1, <1>4, <1>7, <1>8, <1>11, ReadFacts DEF WireInv, SelectionInv
<1>13. ClaimInv'
    BY <1>1, <1>11, ReadFacts DEF WireInv, ClaimInv
<1> QED
    BY <1>1, <1>5, <1>10, <1>11, <1>12, <1>13, ReadFacts DEF WireInv

-----------------------------------------------------------------------------
(* The selection changes hands.                                            *)

(* The selected source is told that it is not selected any more.           *)
LEMMA CancelSent ==
    ASSUME NEW c \in Seq(Events), NEW o, NEW u, NEW new, selection \in Nat,
           EventsSound(o, u, new, c), u \subseteq DOMAIN o,
           selection # None =>
               selection \in u /\ selection # new
               /\ selection \notin Cancelling(c)
    PROVE  LET t == c \o CancelSelected IN
           /\ t \in Seq(Events) /\ EventsSound(o, u, new, t)
           /\ Cancelling(t) = Cancelling(c) \cup ({selection} \ {None})
           /\ Sending(t) = Sending(c)
<1>1. CASE selection = None
  <2>1. CancelSelected = <<>>
    BY <1>1 DEF CancelSelected
  <2> QED
    BY <1>1, <2>1, ConcatEmptySeq
<1>2. CASE selection # None
  <2> DEFINE e == Event(selection, "cancelled", None)
  <2>1. e \in Events /\ e.ev = "cancelled" /\ e.obj = selection
    BY <1>2 DEF Event, Events, EventNames, ObjectId, None
  <2>2. CancelSelected = << e >>
    BY <1>2 DEF CancelSelected
  <2> HIDE DEF e
  <2>3. EventSound(o, u, new, e)
    BY <1>2, <2>1 DEF EventSound
  <2>4. c \o CancelSelected = Append(c, e)
    BY <2>1, <2>2, AppendOne
  <2>5. /\ Append(c, e) \in Seq(Events)
        /\ EventsSound(o, u, new, Append(c, e))
        /\ Cancelling(Append(c, e)) = Cancelling(c) \cup {selection}
        /\ Sending(Append(c, e)) = Sending(c)
    BY <1>2, <2>1, <2>3, EventsAfterSend
  <2>6. {selection} \ {None} = {selection}
    BY <1>2
  <2> QED
    BY <2>4, <2>5, <2>6
<1> QED
    BY <1>1, <1>2

(* An event that is neither a cancellation nor a send keeps all sound.     *)
LEMMA PlainEventSent ==
    ASSUME NEW c \in Seq(Events), NEW o, NEW u, NEW sel, EventsSound(o, u, sel, c),
           NEW e \in Events, EventSound(o, u, sel, e),
           e.ev \notin {"cancelled", "send"}
    PROVE  /\ Append(c, e) \in Seq(Events)
           /\ EventsSound(o, u, sel, Append(c, e))
           /\ Cancelling(Append(c, e)) = Cancelling(c)
           /\ Sending(Append(c, e)) = Sending(c)
    BY EventsAfterSend

(* The device is told of the new selection.                                *)
LEMMA AnnouncementSent ==
    ASSUME TypeOK, NEW c \in Seq(Events), NEW u, NEW new,
           EventsSound(objects, u, new, c)
    PROVE  LET t == c \o Announcement IN
           /\ t \in Seq(Events) /\ EventsSound(objects, u, new, t)
           /\ Cancelling(t) = Cancelling(c) /\ Sending(t) = Sending(c)
<1>1. CASE Device = {} \/ seatLost
  <2>1. Announcement = <<>>
    BY <1>1 DEF Announcement
  <2> QED
    BY <2>1, ConcatEmptySeq
<1>2. CASE ~(Device = {} \/ seatLost)
  <2>1. PICK dev \in DOMAIN objects, id \in Nat :
            /\ id = ServerIdBase + offers
            /\ Announcement = << Event(dev, "data_offer", id),
                   Event(id, "offer", None), Event(dev, "selection", id) >>
    <3>1. ServerIdBase + offers \in Nat
      BY IdsAssumption DEF TypeOK
    <3>2. (CHOOSE i \in Device : TRUE) \in DOMAIN objects
      BY <1>2 DEF Device
    <3> QED
      BY <1>2, <3>1, <3>2 DEF Announcement
  <2>3. id \in ObjectId /\ id >= ServerIdBase
    BY <2>1, IdsAssumption DEF TypeOK, ObjectId, None
  <2>4. dev \in ObjectId
    <3>1. DOMAIN objects = 1 .. Len(objects) /\ Len(objects) \in Nat
      BY LenProperties DEF TypeOK
    <3> QED
      BY <3>1 DEF ObjectId, None
  <2> DEFINE a == Event(dev, "data_offer", id)
             b == Event(id, "offer", None)
             e == Event(dev, "selection", id)
             t == Append(c, a)
             v == Append(t, b)
  <2>5. /\ {a, b, e} \subseteq Events
        /\ {a.ev, b.ev, e.ev} \cap {"cancelled", "send"} = {}
    BY <2>3, <2>4 DEF Event, Events, EventNames, None
  <2>6. /\ EventSound(objects, u, new, a) /\ EventSound(objects, u, new, b)
        /\ EventSound(objects, u, new, e)
    BY <2>3 DEF Event, EventSound
  <2> HIDE DEF a, b, e
  <2>7. LET w == Append(v, e) IN
        /\ w \in Seq(Events) /\ EventsSound(objects, u, new, w)
        /\ Cancelling(w) = Cancelling(c) /\ Sending(w) = Sending(c)
    <3>1. /\ t \in Seq(Events) /\ EventsSound(objects, u, new, t)
          /\ Cancelling(t) = Cancelling(c) /\ Sending(t) = Sending(c)
      BY <2>5, <2>6, PlainEventSent
    <3> HIDE DEF t
    <3>2. /\ v \in Seq(Events) /\ EventsSound(objects, u, new, v)
          /\ Cancelling(v) = Cancelling(c) /\ Sending(v) = Sending(c)
      BY <2>5, <2>6, <3>1, PlainEventSent
    <3> HIDE DEF v
    <3> QED
      BY <2>5, <2>6, <3>2, PlainEventSent
  <2>8. c \o << a, b, e >> = Append(Append(Append(c, a), b), e)
    BY <2>5, AppendThree
  <2>9. c \o Announcement = Append(Append(Append(c, a), b), e)
    BY <2>1, <2>8 DEF a, b, e
  <2> QED
    BY <2>7, <2>9
<1> QED
    BY <1>1, <1>2

(* A selection is read: the source becomes used and, unless the seat is    *)
(* gone, the former selection is cancelled, which the client does not hold.*)
LEMMA SelectKeepsWire ==
    ASSUME TypeOK, WireInv, ServerSetSelection
    PROVE  WireInv'
<1> DEFINE r == toServer[1]
           s == clipboard_source_id
           x == r.source
           now == used \cup {x}
<1>1. ServerRead({"set_selection"})
    BY DEF ServerSetSelection
<1>2. /\ toServer # <<>> /\ toServer' = Tail(toServer) /\ Head(toServer) = r
      /\ r \in Requests /\ r.op = "set_selection" /\ Legal(r)
      /\ objects \in Seq(ObjectKinds) /\ toServer \in Seq(Requests)
      /\ toClient \in Seq(Events) /\ nextObjectId \in Nat /\ selection \in Nat
      /\ Len(objects) \in Nat /\ DOMAIN objects = 1 .. Len(objects)
      /\ QueueSound(objects, used, toServer, nextObjectId)
      /\ EventsSound(objects, used, selection, toClient)
      /\ used \subseteq DOMAIN objects
  <2>1. selection \in Nat
    BY DEF TypeOK
  <2>2. toServer[1].op \in {"set_selection"}
    BY <1>1, ReadFacts
  <2> QED
    BY <1>1, <2>1, <2>2, ReadFacts
<1>3. /\ x \in DOMAIN objects /\ x \notin used /\ x \in ObjectId
    BY <1>2, RequestFields DEF Legal
<1>4. /\ used' = now /\ UNCHANGED objects
      /\ IF seatLost THEN UNCHANGED << selection, toClient >>
         ELSE /\ selection' = x
              /\ toClient' = toClient \o CancelSelected \o Announcement
    BY <1>2 DEF ServerSetSelection
<1> HIDE DEF r
<1>5. RequestsInv'
    BY <1>1, <1>2, <1>3, <1>4, ReadFacts, QueueAfterSelect DEF RequestsInv, r
<1>6. ReadMakes(objects, objects', r, {})
    BY <1>2, <1>4 DEF ReadMakes, Creating, Creates
<1>7. \A id, kind : Known(id, kind) => Known(id, kind)'
    BY <1>2, <1>6, NoneGone DEF Known, r
<1>8. ObjectsKnown'
    BY <1>1, <1>7, ReadFacts, KnownKept DEF WireInv
<1>9. /\ Selecting(toServer') = Selecting(toServer) \ {x}
      /\ Destroying(toServer') = Destroying(toServer)
      /\ x \in Selecting(toServer)
    BY <1>2, PendingAfterRead DEF r
<1>10. \A p \in used : p < x
    BY <1>2, <1>9, PendingSound
<1>11. s # None => x <= s /\ (x = s \/ s \notin used)
  <2>1. s # None => x <= s
    BY <1>9 DEF WireInv, SelectionInv
  <2>2. s \in Nat /\ x \in Nat
    BY <1>3 DEF TypeOK, ObjectId
  <2>3. s \in used => s < x
    BY <1>10
  <2> QED
    BY <2>1, <2>2, <2>3
<1> HIDE DEF x
<1>12. /\ EventsInv'
       /\ Cancelling(toClient') =
             IF seatLost THEN Cancelling(toClient)
             ELSE Cancelling(toClient) \cup ({selection} \ {None})
  <2>1. Cancelling(toClient) \subseteq used /\ selection \notin Cancelling(toClient)
    BY <1>2, CancelledUsed
  <2>2. CASE seatLost
    <3>1. EventsSound(objects, now, selection, toClient)
      BY <1>2, <2>1, EventsKept
    <3> QED
      BY <1>4, <2>2, <3>1 DEF EventsInv
  <2>3. CASE ~seatLost
    <3> DEFINE t == toClient \o CancelSelected
    <3>1. EventsSound(objects, now, x, toClient)
      BY <1>2, <1>3, <2>1, EventsKept
    <3>2. selection # None =>
              selection \in now /\ selection # x
              /\ selection \notin Cancelling(toClient)
      BY <1>3, <2>1 DEF WireInv, SelectionInv
    <3>3. now \subseteq DOMAIN objects
      BY <1>2, <1>3
    <3> HIDE DEF now
    <3>4. /\ t \in Seq(Events) /\ EventsSound(objects, now, x, t)
          /\ Cancelling(t) = Cancelling(toClient) \cup ({selection} \ {None})
      BY <1>2, <3>1, <3>2, <3>3, CancelSent
    <3> HIDE DEF t
    <3>5. /\ EventsSound(objects, now, x, t \o Announcement)
          /\ Cancelling(t \o Announcement) = Cancelling(t)
      BY <3>4, AnnouncementSent
    <3>6. toClient' = t \o Announcement
      BY <1>4, <2>3 DEF t
    <3> QED
      BY <1>4, <2>3, <3>4, <3>5, <3>6 DEF EventsInv
  <2> QED
    BY <2>2, <2>3
<1>13. SelectionInv'
  <2>1. UNCHANGED << s, seatLost >> /\ SelectionInv
    BY <1>1, ReadFacts DEF WireInv
  <2>2. x = s \/ x \in Destroying(toServer)
    BY <1>9, <2>1 DEF SelectionInv
  <2>3. selection # None => selection \in used
    BY <2>1 DEF SelectionInv
  <2>4. \A y \in Selecting(toServer') : y \in Selecting(toServer)
    BY <1>9
  <2>5. s # None /\ ~seatLost =>
            \/ selection' = s
            \/ s \in Selecting(toServer')
            \/ s \in Cancelling(toClient')
    BY <1>4, <1>9, <1>12, <2>1 DEF SelectionInv
  <2> QED
    BY <1>3, <1>4, <1>9, <2>1, <2>2, <2>3, <2>4, <2>5 DEF SelectionInv
<1>14. ClaimInv'
  <2>1. UNCHANGED << s, seatLost, claim, clipboard_data, copied >> /\ ClaimInv
    BY <1>1, ReadFacts DEF WireInv
  <2>2. ~seatLost /\ selection # None => selection # s
    BY <1>3, <1>11 DEF WireInv, SelectionInv
  <2> QED
    BY <1>12, <2>1, <2>2 DEF ClaimInv
<1> QED
    BY <1>1, <1>5, <1>8, <1>12, <1>13, <1>14, ReadFacts DEF WireInv

(* Another client copies: our source is told that it is not selected.      *)
LEMMA CopiesKeepWire ==
    ASSUME TypeOK, WireInv, OtherClientCopies
    PROVE  WireInv'
<1> DEFINE t == toClient \o CancelSelected
<1>1. /\ selection' = None /\ claim' = "other"
      /\ toClient' = t \o Announcement
      /\ UNCHANGED << nextObjectId, seat_id, clipboard_manager_id,
             clipboard_device_id, clipboard_data, clipboard_source_id,
             incoming_offer_id, toServer, objects, used, seatLost, clicks,
             copied >>
    BY DEF OtherClientCopies, wayland_data
<1>2. /\ objects \in Seq(ObjectKinds) /\ toClient \in Seq(Events)
      /\ selection \in Nat /\ used \subseteq ObjectId
      /\ EventsSound(objects, used, selection, toClient)
      /\ used \subseteq DOMAIN objects
    BY DEF TypeOK, WireInv, EventsInv, RequestsInv, QueueSound
<1>3. Cancelling(toClient) \subseteq used /\ selection \notin Cancelling(toClient)
    BY <1>2, CancelledUsed
<1>4. EventsSound(objects, used, None, toClient)
    BY <1>2, <1>3, EventsKept DEF ObjectId
<1>5. selection # None =>
          selection \in used /\ selection # None
          /\ selection \notin Cancelling(toClient)
    BY <1>3 DEF WireInv, SelectionInv
<1>6. /\ t \in Seq(Events) /\ EventsSound(objects, used, None, t)
      /\ Cancelling(t) = Cancelling(toClient) \cup ({selection} \ {None})
    BY <1>2, <1>4, <1>5, CancelSent
<1> HIDE DEF t
<1>7. /\ EventsSound(objects, used, None, t \o Announcement)
      /\ Cancelling(t \o Announcement) = Cancelling(t)
    BY <1>6, AnnouncementSent
<1>8. EventsInv'
    BY <1>1, <1>7 DEF EventsInv
<1>9. SelectionInv'
    BY <1>1, <1>6, <1>7 DEF WireInv, SelectionInv
<1>10. RequestsInv' /\ ObjectsKnown' /\ IdsCounted' /\ ClaimInv'
    BY <1>1 DEF WireInv, RequestsInv, ObjectsKnown, Known, IdsCounted, Flag,
                ClaimInv
<1> QED
    BY <1>8, <1>9, <1>10 DEF WireInv

(* The registry is there once it can announce globals.                     *)
LEMMA RegistryThere ==
    ASSUME TypeOK, WireInv,
           \/ Len(objects) >= RegistryId
           \/ \E i \in DOMAIN objects : objects[i] = "wl_seat"
    PROVE  RegistryId \in DOMAIN objects /\ RegistryId \in ObjectId
<1>1. DOMAIN objects = 1 .. Len(objects) /\ Len(objects) \in Nat
    BY LenProperties DEF TypeOK
<1>2. DISPLAY \in DOMAIN objects => objects[DISPLAY] = "wl_display"
    BY KnownApart DEF WireInv, ObjectsKnown
<1> QED
    BY <1>1, <1>2 DEF RegistryId, DISPLAY, ObjectId, None

(* The seat is unplugged.                                                  *)
LEMMA SeatLossKeepsWire ==
    ASSUME TypeOK, WireInv, ServerSeatLost
    PROVE  WireInv'
<1> DEFINE e == Event(RegistryId, "global_remove", None)
           t == Append(toClient, e)
           v == t \o CancelSelected
           rest == IF Device = {} THEN <<>>
                   ELSE << Event(CHOOSE i \in Device : TRUE, "finished", None) >>
<1>1. /\ seatLost' /\ selection' = None /\ claim' = "other"
      /\ toClient' = toClient \o << e >> \o CancelSelected \o rest
      /\ \E i \in DOMAIN objects : objects[i] = "wl_seat"
      /\ UNCHANGED << nextObjectId, seat_id, clipboard_manager_id,
             clipboard_device_id, clipboard_data, clipboard_source_id,
             incoming_offer_id, toServer, objects, used, clicks, copied >>
    BY DEF ServerSeatLost, wayland_data
<1>2. /\ objects \in Seq(ObjectKinds) /\ toClient \in Seq(Events)
      /\ selection \in Nat /\ used \subseteq ObjectId
      /\ EventsSound(objects, used, selection, toClient)
      /\ used \subseteq DOMAIN objects
      /\ DOMAIN objects = 1 .. Len(objects) /\ Len(objects) \in Nat
    BY LenProperties DEF TypeOK, WireInv, EventsInv, RequestsInv, QueueSound
<1>3. Cancelling(toClient) \subseteq used /\ selection \notin Cancelling(toClient)
    BY <1>2, CancelledUsed
<1>4. EventsSound(objects, used, None, toClient)
    BY <1>2, <1>3, EventsKept DEF ObjectId
<1>5. RegistryId \in DOMAIN objects /\ RegistryId \in ObjectId
    BY <1>1, RegistryThere
<1>6. e \in Events /\ e.ev = "global_remove" /\ EventSound(objects, used, None, e)
    BY <1>5 DEF Event, Events, EventNames, EventSound, None
<1> HIDE DEF e
<1>7. /\ t \in Seq(Events) /\ EventsSound(objects, used, None, t)
      /\ Cancelling(t) = Cancelling(toClient)
    BY <1>2, <1>4, <1>6, PlainEventSent
<1>8. t = toClient \o << e >>
    BY <1>2, <1>6, AppendOne
<1> HIDE DEF t
<1>9. selection # None =>
          selection \in used /\ selection # None /\ selection \notin Cancelling(t)
    BY <1>3, <1>7 DEF WireInv, SelectionInv
<1>10. v \in Seq(Events) /\ EventsSound(objects, used, None, v)
    BY <1>2, <1>7, <1>9, CancelSent
<1> HIDE DEF v
<1>11. EventsSound(objects, used, None, v \o rest)
  <2>1. CASE Device = {}
    BY <1>10, <2>1, ConcatEmptySeq
  <2>2. CASE Device # {}
    <3>1. PICK dev \in DOMAIN objects :
              rest = << Event(dev, "finished", None) >>
      BY <2>2 DEF Device
    <3> DEFINE f == Event(dev, "finished", None)
    <3>2. dev \in ObjectId
      BY <1>2 DEF ObjectId, None
    <3>3. f \in Events /\ f.ev = "finished" /\ EventSound(objects, used, None, f)
      BY <3>2 DEF Event, Events, EventNames, EventSound, None
    <3>4. rest = << f >>
      BY <3>1
    <3> HIDE DEF f, rest
    <3>5. v \o rest = Append(v, f)
      BY <1>10, <3>3, <3>4, AppendOne
    <3> QED
      BY <1>10, <3>3, <3>5, PlainEventSent
  <2> QED
    BY <2>1, <2>2
<1>12. toClient' = v \o rest
    BY <1>1, <1>8 DEF v
<1>13. EventsInv'
    BY <1>1, <1>11, <1>12 DEF EventsInv
<1>14. SelectionInv'
    BY <1>1 DEF WireInv, SelectionInv
<1>15. RequestsInv' /\ ObjectsKnown' /\ IdsCounted' /\ ClaimInv'
    BY <1>1 DEF WireInv, RequestsInv, ObjectsKnown, Known, IdsCounted, Flag,
                ClaimInv
<1> QED
    BY <1>13, <1>14, <1>15 DEF WireInv

(* What happens without a request keeps the invariant.                     *)
LEMMA OthersKeepWire ==
    ASSUME TypeOK, WireInv,
           \/ \E iface \in Interfaces : ServerAnnounce(iface)
           \/ \E mime \in PasteTypes : OtherClientPastes(mime)
           \/ \E i \in DOMAIN pastes : ReaderVanishes(i)
           \/ SendCopy \/ SendExit \/ SendClear \/ UNCHANGED vars
    PROVE  WireInv'
<1>1. /\ UNCHANGED << toServer, nextObjectId, objects, used, selection,
             seatLost, seat_id, clipboard_manager_id, clipboard_device_id,
             clipboard_source_id, clipboard_data, copied, claim,
             incoming_offer_id >>
    BY DEF ServerAnnounce, OtherClientPastes, ReaderVanishes, SendCopy,
           SendExit, SendClear, SendOther, vars, wayland_data, compositor, user
<1>2. clicks' <= MaxCopies
  <2>1. UNCHANGED clicks \/ (clicks < MaxCopies /\ clicks' = clicks + 1)
    <3>1. CASE SendCopy
      BY <3>1 DEF SendCopy
    <3>2. CASE SendExit \/ SendClear
      BY <3>2 DEF SendExit, SendClear, SendOther, user
    <3>3. CASE UNCHANGED vars
      BY <3>3 DEF vars, user
    <3> QED
      BY <3>1, <3>2, <3>3
         DEF ServerAnnounce, OtherClientPastes, ReaderVanishes, user
  <2>2. clicks \in Nat /\ MaxCopies \in Nat /\ clicks <= MaxCopies
    BY IdsAssumption DEF TypeOK, WireInv, IdsCounted
  <2> QED
    BY <2>1, <2>2
<1>3. toClient \in Seq(Events) /\ EventsSound(objects, used, selection, toClient)
    BY DEF TypeOK, WireInv, EventsInv
<1>4. /\ EventsSound(objects, used, selection, toClient')
      /\ Cancelling(toClient') = Cancelling(toClient)
  <2>1. ASSUME NEW iface \in Interfaces, ServerAnnounce(iface)
        PROVE  /\ EventsSound(objects, used, selection, toClient')
               /\ Cancelling(toClient') = Cancelling(toClient)
    <3>1. RegistryId \in DOMAIN objects /\ RegistryId \in ObjectId
      BY <2>1, RegistryThere DEF ServerAnnounce
    <3>2. /\ Global(iface) \in Events /\ Global(iface).ev = "global"
          /\ EventSound(objects, used, selection, Global(iface))
      BY <3>1 DEF Global, Events, EventNames, EventSound, None
    <3>3. toClient' = Append(toClient, Global(iface))
      BY <2>1 DEF ServerAnnounce
    <3> QED
      BY <1>3, <3>2, <3>3, PlainEventSent
  <2>2. ASSUME NEW mime \in PasteTypes, OtherClientPastes(mime)
        PROVE  /\ EventsSound(objects, used, selection, toClient')
               /\ Cancelling(toClient') = Cancelling(toClient)
    <3> DEFINE e == Event(selection, "send", Len(pastes) + 1)
    <3>1. selection \in used /\ selection \notin Cancelling(toClient)
      BY <1>3, <2>2, CancelledUsed DEF OtherClientPastes, WireInv, SelectionInv
    <3>2. selection \in DOMAIN objects /\ selection \in ObjectId
      BY <3>1 DEF WireInv, RequestsInv, QueueSound, TypeOK
    <3>3. Len(pastes) + 1 \in Nat
      BY LenProperties DEF TypeOK
    <3>4. /\ e \in Events /\ e.ev = "send" /\ e.obj = selection
          /\ EventSound(objects, used, selection, e)
      BY <3>2, <3>3 DEF Event, Events, EventNames, EventSound
    <3>5. toClient' = Append(toClient, e)
      BY <2>2 DEF OtherClientPastes
    <3> HIDE DEF e
    <3> QED
      BY <1>3, <3>1, <3>4, <3>5, EventsAfterSend
  <2>3. ASSUME UNCHANGED toClient
        PROVE  /\ EventsSound(objects, used, selection, toClient')
               /\ Cancelling(toClient') = Cancelling(toClient)
    BY <1>3, <2>3
  <2> QED
    BY <2>1, <2>2, <2>3
       DEF ReaderVanishes, SendCopy, SendExit, SendClear, SendOther, vars
<1>5. EventsInv'
    BY <1>1, <1>4 DEF EventsInv
<1> QED
    BY <1>1, <1>2, <1>4, <1>5, NothingAsked

-----------------------------------------------------------------------------
(* The client takes a message.                                             *)

(* Exit changes nothing on the wire.                                       *)
LEMMA ExitKeepsWire ==
    ASSUME WireInv, ReceiveExit
    PROVE  WireInv'
<1>1. UNCHANGED << toServer, nextObjectId, objects, used, selection, seatLost,
          seat_id, clipboard_manager_id, clipboard_device_id,
          clipboard_source_id, clipboard_data, copied, claim, toClient, clicks,
          incoming_offer_id >>
    BY DEF ReceiveExit, Receive, compositor
<1>2. EventsInv' /\ Cancelling(toClient') = Cancelling(toClient)
      /\ clicks' <= MaxCopies
    BY <1>1 DEF WireInv, EventsInv, IdsCounted
<1> QED
    BY <1>1, <1>2, NothingAsked

(* Copy publishes a source unless the client holds one or cannot.          *)
LEMMA CopyKeepsWire ==
    ASSUME TypeOK, FreshInv, WireInv, ReceiveCopy
    PROVE  WireInv'
<1> DEFINE s == clipboard_source_id
           n == nextObjectId
<1>1. /\ UNCHANGED << seat_id, clipboard_manager_id, clipboard_device_id,
             incoming_offer_id, toClient, objects, used, selection, seatLost,
             clicks >>
      /\ clipboard_data' = Head(channel).code /\ copied' = Head(channel).code
      /\ claim' = "ours" => clipboard_device_id # None /\ ~CancelInFlight
    BY DEF ReceiveCopy, Receive, CopyDispatch, compositor
<1>2. /\ objects \in Seq(ObjectKinds) /\ toServer \in Seq(Requests)
      /\ n \in Nat /\ s \in Nat /\ selection \in Nat
      /\ clipboard_manager_id \in Nat /\ clipboard_device_id \in Nat
      /\ DOMAIN objects = 1 .. Len(objects) /\ Len(objects) \in Nat
    BY LenProperties DEF TypeOK
<1>3. /\ RequestsInv /\ ObjectsKnown /\ IdsCounted /\ SelectionInv /\ EventsInv
      /\ QueueSound(objects, used, toServer, n)
      /\ EventsSound(objects, used, selection, toClient)
      /\ Len(objects) < n /\ used \subseteq DOMAIN objects
    BY DEF WireInv, RequestsInv, EventsInv, QueueSound, Gapless
<1>4. copied \in Nat /\ copied' \in Nat /\ copied + 1 <= copied'
  <2>1. /\ channel \in Seq(Messages) /\ channel # <<>>
        /\ Head(channel).kind = "copy"
    BY DEF ReceiveCopy, Receive, TypeOK
  <2>2. 1 \in DOMAIN channel /\ Head(channel) = channel[1]
        /\ channel[1] \in Messages
    BY <2>1, TailIndex, ElementOfSeq
  <2>3. copied < channel[1].code
    BY <2>1, <2>2 DEF FreshInv, ChannelInOrder
  <2>4. channel[1].code \in Nat /\ copied \in Nat
    BY <2>2 DEF Messages, TypeOK
  <2> QED
    BY <1>1, <2>2, <2>3, <2>4
<1>5. /\ n \in ObjectId /\ NewObjectId(n) = n /\ NextObjectId(n) = n + 1
    BY <1>3, IdsFit
<1>6. EventsInv'
    BY <1>1, <1>3 DEF EventsInv
<1>7. CASE s # None \/ CannotPublish
  <2>1. UNCHANGED << n, toServer, s >>
    BY <1>7 DEF ReceiveCopy, CopyDispatch
  <2>2. RequestsInv' /\ ObjectsKnown' /\ SelectionInv'
    BY <1>1, <1>3, <2>1
       DEF RequestsInv, ObjectsKnown, Known, SelectionInv
  <2>3. IdsCounted'
    <3> DEFINE taken == RegistryId + 1 + Flag(seat_id)
                            + Flag(clipboard_manager_id)
                            + Flag(clipboard_device_id)
    <3>1. taken \in Nat /\ n <= taken + copied
      BY <1>3 DEF IdsCounted, Flag, RegistryId
    <3>2. (n <= taken + copied)'
      BY <1>1, <1>2, <1>4, <2>1, <3>1
    <3> QED
      BY <1>1, <1>3, <2>1, <3>2 DEF IdsCounted
  <2>4. ClaimInv'
    <3> SUFFICES ASSUME claim' = "ours", ~seatLost'
                 PROVE  s # None /\ s \notin Cancelling(toClient)
      BY <1>1, <2>1 DEF ClaimInv
    <3>1. s # None
      BY <1>1, <1>3, <1>7 DEF CannotPublish, IdsCounted
    <3>2. s \notin Cancelling(toClient)
      BY <1>1 DEF CancelInFlight, Cancelling
    <3> QED
      BY <3>1, <3>2
  <2> QED
    BY <1>6, <2>2, <2>3, <2>4 DEF WireInv
<1>8. CASE ~(s # None \/ CannotPublish)
  <2>1. /\ s = None /\ clipboard_manager_id # None
        /\ clipboard_device_id # None
        /\ n' = n + 1 /\ toServer' = toServer \o PublishSource(n) /\ s' = n
    BY <1>5, <1>8 DEF ReceiveCopy, CopyDispatch, NewSource, CannotPublish
  <2>2. /\ clipboard_manager_id \in ObjectId /\ clipboard_device_id \in ObjectId
        /\ KnownIn(objects, toServer, clipboard_manager_id,
                   "ext_data_control_manager_v1")
        /\ KnownIn(objects, toServer, clipboard_device_id,
                   "ext_data_control_device_v1")
    BY <1>2, <1>3, <2>1 DEF ObjectsKnown, Known, ObjectId
  <2>3. /\ QueueSound(objects, used, toServer', n + 1)
        /\ Selecting(toServer') = Selecting(toServer) \cup {n}
        /\ Destroying(toServer') = Destroying(toServer)
        /\ \A id, kind : KnownIn(objects, toServer, id, kind)
                            => KnownIn(objects, toServer', id, kind)
        /\ KnownIn(objects, toServer', n, "ext_data_control_source_v1")
    BY <1>2, <1>3, <1>5, <2>1, <2>2, SendPublish
  <2>4. RequestsInv'
    BY <1>1, <2>1, <2>3 DEF RequestsInv
  <2>5. ObjectsKnown'
    BY <1>1, <1>3, <2>1, <2>3 DEF ObjectsKnown, Known
  <2>6. IdsCounted'
    <3> DEFINE taken == RegistryId + 1 + Flag(seat_id)
                            + Flag(clipboard_manager_id)
                            + Flag(clipboard_device_id)
    <3>1. taken \in Nat /\ n <= taken + copied
      BY <1>3 DEF IdsCounted, Flag, RegistryId
    <3>2. (n <= taken + copied)'
      BY <1>1, <1>2, <1>4, <2>1, <3>1
    <3>3. RegistryId < n + 1
      BY <1>2, <1>3 DEF IdsCounted, RegistryId
    <3> QED
      BY <1>1, <1>3, <2>1, <3>2, <3>3 DEF IdsCounted
  <2>7. /\ \A x \in Selecting(toServer) : x \in ObjectId /\ x < n
        /\ \A d \in Destroying(toServer) : d \in ObjectId /\ d < n
    BY <1>2, <1>3, PendingSound
  <2>8. \A u \in used : u < n /\ u \in Nat
    BY <1>2, <1>3
  <2>9. SelectionInv'
    <3>1. n \notin Destroying(toServer)
      BY <1>2, <2>7
    <3>2. \A x \in Selecting(toServer') : x <= n
              /\ (x = n \/ x \in Destroying(toServer))
      BY <1>2, <1>3, <2>1, <2>3, <2>7 DEF SelectionInv, ObjectId
    <3>3. selection # None => selection \in Destroying(toServer)
      BY <1>3, <2>1 DEF SelectionInv
    <3> QED
      BY <1>1, <1>3, <2>1, <2>3, <3>1, <3>2, <3>3 DEF SelectionInv
  <2>10. ClaimInv'
    <3>1. n \notin Cancelling(toClient)
      BY <1>2, <1>3, <2>8, CancelledUsed
    <3>2. n # None
      BY <1>5 DEF ObjectId
    <3> QED
      BY <1>1, <2>1, <3>1, <3>2 DEF ClaimInv
  <2> QED
    BY <1>6, <2>4, <2>5, <2>6, <2>9, <2>10 DEF WireInv
<1> QED
    BY <1>7, <1>8

(* Clear destroys the source that the client holds.                        *)
LEMMA ClearKeepsWire ==
    ASSUME TypeOK, WireInv, ReceiveClear
    PROVE  WireInv'
<1> DEFINE s == clipboard_source_id
           n == nextObjectId
<1>1. /\ UNCHANGED << seat_id, clipboard_manager_id, clipboard_device_id,
             incoming_offer_id, toClient, objects, used, selection, seatLost,
             clicks, copied, n >>
      /\ s' = None /\ claim' = "none"
      /\ toServer' = IF s = None THEN toServer ELSE Append(toServer, Destroy(s))
    BY DEF ReceiveClear, Receive, ClearDispatch, compositor
<1>2. /\ objects \in Seq(ObjectKinds) /\ toServer \in Seq(Requests)
      /\ n \in Nat /\ s \in Nat
    BY DEF TypeOK
<1>3. /\ RequestsInv /\ ObjectsKnown /\ IdsCounted /\ SelectionInv /\ EventsInv
      /\ QueueSound(objects, used, toServer, n)
    BY DEF WireInv, RequestsInv
<1>4. /\ QueueSound(objects, used, toServer', n)
      /\ Selecting(toServer') = Selecting(toServer)
      /\ Destroying(toServer') = Destroying(toServer) \cup ({s} \ {None})
      /\ \A id, kind : KnownIn(objects, toServer, id, kind)
                          => KnownIn(objects, toServer', id, kind)
  <2>1. CASE s = None
    BY <1>1, <1>3, <2>1
  <2>2. CASE s # None
    <3>1. /\ s \in ObjectId /\ s \notin Destroying(toServer)
          /\ KnownIn(objects, toServer, s, "ext_data_control_source_v1")
      BY <1>2, <1>3, <2>2 DEF ObjectsKnown, Known, SelectionInv, ObjectId
    <3>2. toServer' = Append(toServer, Destroy(s)) /\ {s} \ {None} = {s}
      BY <1>1, <2>2
    <3> QED
      BY <1>2, <1>3, <3>1, <3>2, SendDestroy
  <2> QED
    BY <2>1, <2>2
<1>5. RequestsInv'
    BY <1>1, <1>4 DEF RequestsInv
<1>6. ObjectsKnown'
    BY <1>1, <1>3, <1>4 DEF ObjectsKnown, Known
<1>7. IdsCounted' /\ EventsInv' /\ ClaimInv'
    BY <1>1, <1>3 DEF IdsCounted, Flag, EventsInv, ClaimInv
<1>8. SelectionInv'
  <2>1. \A d \in Destroying(toServer) : d \in ObjectId
    BY <1>2, <1>3, PendingSound
  <2>2. \A x \in Selecting(toServer) : x \in ObjectId
    BY <1>2, <1>3, PendingSound
  <2>3. None \notin Destroying(toServer')
    BY <1>4, <2>1 DEF ObjectId
  <2> QED
    BY <1>1, <1>3, <1>4, <2>2, <2>3 DEF SelectionInv, ObjectId
<1> QED
    BY <1>5, <1>6, <1>7, <1>8 DEF WireInv

-----------------------------------------------------------------------------
(* The client takes an event.                                              *)

(* What taking an event leaves alone.                                      *)
LEMMA DispatchFacts ==
    ASSUME TypeOK, WireInv, NEW recipients, Dispatch(recipients)
    PROVE  /\ Head(toClient) = toClient[1] /\ toClient[1] \in Events
           /\ EventSound(objects, used, selection, toClient[1])
           /\ Recipient(toClient[1].obj) \in recipients
           /\ UNCHANGED << objects, used, selection, seatLost, clicks, copied,
                           claim >>
           /\ EventsInv' /\ clicks' <= MaxCopies
           /\ toClient[1].ev # "cancelled" =>
                  Cancelling(toClient') = Cancelling(toClient)
           /\ toClient[1].ev = "cancelled" =>
                  /\ toClient[1].obj \in Cancelling(toClient)
                  /\ Cancelling(toClient') =
                         Cancelling(toClient) \ {toClient[1].obj}
<1>1. /\ toClient # <<>> /\ toClient' = Tail(toClient)
      /\ Recipient(Head(toClient).obj) \in recipients
      /\ UNCHANGED << objects, used, selection, seatLost, clicks, copied, claim >>
    BY DEF Dispatch, compositor
<1>2. /\ toClient \in Seq(Events)
      /\ EventsSound(objects, used, selection, toClient) /\ clicks <= MaxCopies
    BY DEF TypeOK, WireInv, EventsInv, IdsCounted
<1>3. /\ Head(toClient) = toClient[1] /\ toClient[1] \in Events
      /\ EventSound(objects, used, selection, toClient[1])
    BY <1>1, <1>2, TailIndex, ElementOfSeq DEF EventsSound
<1> QED
    BY <1>1, <1>2, <1>3, EventsAfterRead DEF EventsInv

(* What the source branch gets is for the source that the client holds.    *)
LEMMA RecipientSource ==
    ASSUME TypeOK, WireInv, NEW id \in ObjectId
    PROVE  /\ Recipient(id) = "ext_data_control_source_v1" =>
                  id = clipboard_source_id
           /\ id = clipboard_source_id =>
                  Recipient(id) = "ext_data_control_source_v1"
<1>1. id = clipboard_source_id => id # DISPLAY /\ id # RegistryId
  <2>1. /\ Known(DISPLAY, "wl_display") /\ Known(RegistryId, "wl_registry")
        /\ clipboard_source_id # None =>
              Known(clipboard_source_id, "ext_data_control_source_v1")
    BY DEF WireInv, ObjectsKnown
  <2>2. RequestsInv /\ id # None
    BY DEF WireInv, ObjectId
  <2> QED
    BY <2>1, <2>2, KnownApart
<1> QED
    BY <1>1 DEF Recipient

(* A global is bound.                                                      *)
LEMMA SendBind ==
    ASSUME NEW q \in Seq(Requests), NEW o \in Seq(ObjectKinds), NEW u,
           NEW n \in ObjectId, QueueSound(o, u, q, n),
           KnownIn(o, q, RegistryId, "wl_registry"), NEW iface \in Interfaces
    PROVE  LET t == q \o << Bind(n, iface) >> IN
           /\ t \in Seq(Requests) /\ QueueSound(o, u, t, n + 1)
           /\ KnownIn(o, t, n, iface)
           /\ Selecting(t) = Selecting(q) /\ Destroying(t) = Destroying(q)
           /\ \A id, kind : KnownIn(o, q, id, kind) => KnownIn(o, t, id, kind)
<1> DEFINE r == Bind(n, iface)
           t == Append(q, r)
<1>1. /\ r \in Requests /\ r.op = "bind" /\ r.id = n /\ r.obj = RegistryId
      /\ r.iface = iface
    BY DEF Bind, Requests, RegistryId, ObjectId, None
<1>2. /\ Creating(r) /\ KindMade(r) = iface
      /\ InterfaceOf(r.op) = "wl_registry"
    BY <1>1 DEF Creating, KindMade, InterfaceOf
<1>3. n \in Nat /\ Len(o) \in Nat
    BY LenProperties DEF ObjectId
<1> HIDE DEF r
<1>4. q \o << r >> = t /\ t \in Seq(Requests)
    BY <1>1, AppendOne, AppendIndex
<1>5. /\ QueueSound(o, u, t, n + 1)
      /\ Selecting(t) = Selecting(q) /\ Destroying(t) = Destroying(q)
    BY <1>1, <1>2, <1>3, SendCreating
<1>6. /\ KnownIn(o, t, n, iface)
      /\ \A id, kind : KnownIn(o, q, id, kind) => KnownIn(o, t, id, kind)
    BY <1>1, <1>2, KnownAfterSend
<1> HIDE DEF t
<1>7. q \o << Bind(n, iface) >> = t
    BY <1>4 DEF r
<1> QED
    BY <1>4, <1>5, <1>6, <1>7

(* The device is requested.                                                *)
LEMMA SendDevice ==
    ASSUME NEW q \in Seq(Requests), NEW o \in Seq(ObjectKinds), NEW u,
           NEW n \in ObjectId, QueueSound(o, u, q, n),
           NEW manager \in ObjectId, NEW seat \in ObjectId,
           KnownIn(o, q, manager, "ext_data_control_manager_v1"),
           KnownIn(o, q, seat, "wl_seat")
    PROVE  LET t == q \o << GetDataDevice(manager, n, seat) >> IN
           /\ t \in Seq(Requests) /\ QueueSound(o, u, t, n + 1)
           /\ KnownIn(o, t, n, "ext_data_control_device_v1")
           /\ Selecting(t) = Selecting(q) /\ Destroying(t) = Destroying(q)
           /\ \A id, kind : KnownIn(o, q, id, kind) => KnownIn(o, t, id, kind)
<1> DEFINE r == GetDataDevice(manager, n, seat)
           t == Append(q, r)
<1>1. /\ r \in Requests /\ r.op = "get_data_device" /\ r.id = n
      /\ r.obj = manager /\ r.seat = seat
    BY DEF GetDataDevice, Requests
<1>2. /\ Creating(r) /\ KindMade(r) = "ext_data_control_device_v1"
      /\ InterfaceOf(r.op) = "ext_data_control_manager_v1"
    BY <1>1 DEF Creating, KindMade, Creates, InterfaceOf
<1>3. n \in Nat /\ Len(o) \in Nat
    BY LenProperties DEF ObjectId
<1> HIDE DEF r
<1>4. q \o << r >> = t /\ t \in Seq(Requests)
    BY <1>1, AppendOne, AppendIndex
<1>5. /\ QueueSound(o, u, t, n + 1)
      /\ Selecting(t) = Selecting(q) /\ Destroying(t) = Destroying(q)
    BY <1>1, <1>2, <1>3, SendCreating
<1>6. /\ KnownIn(o, t, n, "ext_data_control_device_v1")
      /\ \A id, kind : KnownIn(o, q, id, kind) => KnownIn(o, t, id, kind)
    BY <1>1, <1>2, KnownAfterSend
<1> HIDE DEF t
<1>7. q \o << GetDataDevice(manager, n, seat) >> = t
    BY <1>4 DEF r
<1> QED
    BY <1>4, <1>5, <1>6, <1>7

(* A global is bound and then, if the other one is bound too, the device   *)
(* is requested.                                                           *)
LEMMA BindObtains ==
    ASSUME TypeOK, WireInv, FreshInv, NEW iface \in Interfaces,
           seat_id = None \/ clipboard_manager_id = None,
           NEW manager \in Nat, NEW seat \in Nat,
           \/ /\ iface = "wl_seat" /\ seat = NewObjectId(nextObjectId)
              /\ manager = clipboard_manager_id
           \/ /\ iface = "ext_data_control_manager_v1" /\ seat = seat_id
              /\ manager = NewObjectId(nextObjectId),
           ObtainDataDeviceIfReady(manager, seat,
               << Bind(NewObjectId(nextObjectId), iface) >>,
               NextObjectId(nextObjectId)),
           objects' = objects, used' = used
    PROVE  /\ RequestsInv'
           /\ Selecting(toServer') = Selecting(toServer)
           /\ Destroying(toServer') = Destroying(toServer)
           /\ \A id, kind : Known(id, kind) => Known(id, kind)'
           /\ seat # None => Known(seat, "wl_seat")'
           /\ manager # None => Known(manager, "ext_data_control_manager_v1")'
           /\ IF manager = None \/ seat = None
              THEN /\ nextObjectId' = nextObjectId + 1
                   /\ clipboard_device_id' = None
              ELSE /\ nextObjectId' = nextObjectId + 2
                   /\ clipboard_device_id' # None
                   /\ Known(clipboard_device_id, "ext_data_control_device_v1")'
<1> DEFINE n == nextObjectId
           t == toServer \o << Bind(n, iface) >>
<1>1. /\ objects \in Seq(ObjectKinds) /\ toServer \in Seq(Requests)
      /\ n \in Nat /\ RequestsInv /\ ObjectsKnown /\ IdsCounted
      /\ QueueSound(objects, used, toServer, n)
    BY DEF TypeOK, WireInv, RequestsInv
<1>2. /\ n \in ObjectId /\ NewObjectId(n) = n /\ NextObjectId(n) = n + 1
      /\ NewObjectId(n + 1) = n + 1 /\ NextObjectId(n + 1) = n + 2
      /\ n + 1 \in ObjectId /\ n # None
    BY <1>1, IdsFit DEF ObjectId, None
<1>3. clipboard_device_id = None
    BY <1>1 DEF IdsCounted
<1>4. /\ t \in Seq(Requests) /\ QueueSound(objects, used, t, n + 1)
      /\ KnownIn(objects, t, n, iface)
      /\ Selecting(t) = Selecting(toServer)
      /\ Destroying(t) = Destroying(toServer)
      /\ \A id, kind : KnownIn(objects, toServer, id, kind)
                          => KnownIn(objects, t, id, kind)
  <2>1. KnownIn(objects, toServer, RegistryId, "wl_registry")
    BY <1>1 DEF ObjectsKnown, Known
  <2> QED
    BY <1>1, <1>2, <2>1, SendBind
<1>5. /\ seat # None => KnownIn(objects, t, seat, "wl_seat")
      /\ manager # None =>
            KnownIn(objects, t, manager, "ext_data_control_manager_v1")
    BY <1>1, <1>2, <1>4 DEF ObjectsKnown, Known
<1> HIDE DEF t
<1>6. CASE manager = None \/ seat = None
  <2>1. toServer' = t /\ n' = n + 1 /\ UNCHANGED clipboard_device_id
    BY <1>2, <1>6 DEF ObtainDataDeviceIfReady, t
  <2> QED
    BY <1>3, <1>4, <1>5, <1>6, <2>1 DEF RequestsInv, Known
<1>7. CASE ~(manager = None \/ seat = None)
  <2> DEFINE v == t \o << GetDataDevice(manager, n + 1, seat) >>
  <2>1. toServer' = v /\ n' = n + 2 /\ clipboard_device_id' = n + 1
    BY <1>2, <1>7 DEF ObtainDataDeviceIfReady, t
  <2>2. manager \in ObjectId /\ seat \in ObjectId
    BY <1>7 DEF ObjectId
  <2>3. (n + 1) + 1 = n + 2
    BY <1>1
  <2>4. /\ QueueSound(objects, used, v, n + 2)
        /\ KnownIn(objects, v, n + 1, "ext_data_control_device_v1")
        /\ Selecting(v) = Selecting(t) /\ Destroying(v) = Destroying(t)
        /\ \A id, kind : KnownIn(objects, t, id, kind)
                            => KnownIn(objects, v, id, kind)
    BY <1>1, <1>2, <1>4, <1>5, <1>7, <2>2, <2>3, SendDevice
  <2>5. n + 1 # None
    BY <1>2 DEF ObjectId
  <2> HIDE DEF v
  <2> QED
    BY <1>4, <1>5, <1>7, <2>1, <2>4, <2>5 DEF RequestsInv, Known
<1> QED
    BY <1>6, <1>7

(* A global keeps the invariant, whichever of the two is announced first.  *)
LEMMA GlobalKeepsWire ==
    ASSUME TypeOK, FreshInv, WireInv, GlobalSeat \/ GlobalManager
    PROVE  WireInv'
<1> DEFINE n == nextObjectId
<1>1. /\ Dispatch({"wl_registry"}) /\ Head(toClient).ev = "global"
      /\ UNCHANGED << clipboard_data, clipboard_source_id, incoming_offer_id >>
    BY DEF GlobalSeat, GlobalManager
<1>2. /\ UNCHANGED << objects, used, selection, seatLost, clicks, copied, claim >>
      /\ EventsInv' /\ clicks' <= MaxCopies
      /\ Cancelling(toClient') = Cancelling(toClient)
    BY <1>1, DispatchFacts
<1>3. n \in Nat /\ copied \in Nat /\ seat_id \in Nat /\ clipboard_manager_id \in Nat
    BY DEF TypeOK
<1>4. n \in ObjectId /\ NewObjectId(n) = n
    BY IdsFit DEF WireInv
<1>5. ObjectsKnown /\ IdsCounted /\ SelectionInv /\ ClaimInv
    BY DEF WireInv
<1>6. CASE UNCHANGED << seat_id, clipboard_manager_id, clipboard_device_id,
                        toServer, n >>
  <2>1. incoming_offer_id' = incoming_offer_id
        \/ incoming_offer_id' >= ServerIdBase
    BY <1>1
  <2> QED
    BY <1>1, <1>2, <1>6, <2>1, NothingAsked
<1>7. ASSUME NEW iface \in Interfaces, seat_id = None \/ clipboard_manager_id = None,
             NEW manager \in Nat, NEW seat \in Nat,
             \/ /\ iface = "wl_seat" /\ seat = NewObjectId(n)
                /\ manager = clipboard_manager_id /\ seat_id = None
             \/ /\ iface = "ext_data_control_manager_v1" /\ seat = seat_id
                /\ manager = NewObjectId(n) /\ clipboard_manager_id = None,
             ObtainDataDeviceIfReady(manager, seat,
                 << Bind(NewObjectId(n), iface) >>, NextObjectId(n)),
             seat_id' = seat, clipboard_manager_id' = manager
      PROVE  WireInv'
  <2>1. /\ RequestsInv'
        /\ Selecting(toServer') = Selecting(toServer)
        /\ Destroying(toServer') = Destroying(toServer)
        /\ \A id, kind : Known(id, kind) => Known(id, kind)'
        /\ seat # None => Known(seat, "wl_seat")'
        /\ manager # None => Known(manager, "ext_data_control_manager_v1")'
        /\ IF manager = None \/ seat = None
           THEN n' = n + 1 /\ clipboard_device_id' = None
           ELSE /\ n' = n + 2 /\ clipboard_device_id' # None
                /\ Known(clipboard_device_id, "ext_data_control_device_v1")'
    BY <1>2, <1>7, BindObtains
  <2>2. ObjectsKnown'
    BY <1>1, <1>5, <1>7, <2>1 DEF ObjectsKnown
  <2>3. SelectionInv' /\ ClaimInv'
    BY <1>1, <1>2, <1>5, <2>1 DEF SelectionInv, ClaimInv
  <2>4. IdsCounted'
    <3>1. /\ clipboard_device_id = None /\ RegistryId < n
          /\ n <= RegistryId + 1 + Flag(seat_id) + Flag(clipboard_manager_id)
                     + 0 + copied
          /\ incoming_offer_id = None \/ incoming_offer_id >= ServerIdBase
      BY <1>5, <1>7 DEF IdsCounted, Flag
    <3>2. Flag(seat) + Flag(manager) = Flag(seat_id) + Flag(clipboard_manager_id) + 1
          /\ Flag(seat_id) \in Nat /\ Flag(clipboard_manager_id) \in Nat
          /\ Flag(seat) \in Nat /\ Flag(manager) \in Nat
      BY <1>4, <1>7 DEF Flag, ObjectId
    <3>3. IF manager = None \/ seat = None
          THEN n' = n + 1 /\ Flag(clipboard_device_id') = 0
          ELSE n' = n + 2 /\ Flag(clipboard_device_id') = 1
      BY <2>1 DEF Flag
    <3>4. /\ RegistryId < n'
          /\ n' <= RegistryId + 1 + Flag(seat) + Flag(manager)
                     + Flag(clipboard_device_id') + copied
      <4> DEFINE a == Flag(seat)
                 b == Flag(manager)
                 c == Flag(seat_id)
                 d == Flag(clipboard_manager_id)
                 f == Flag(clipboard_device_id')
      <4> HIDE DEF a, b, c, d, f
      <4>1. /\ a \in Nat /\ b \in Nat /\ c \in Nat /\ d \in Nat
            /\ a + b = c + d + 1 /\ RegistryId < n
            /\ n <= RegistryId + 1 + c + d + 0 + copied
            /\ (n' = n + 1 /\ f = 0) \/ (n' = n + 2 /\ f = 1)
        BY <3>1, <3>2, <3>3 DEF a, b, c, d, f
      <4>2. RegistryId < n' /\ n' <= RegistryId + 1 + a + b + f + copied
        BY <1>3, <4>1 DEF RegistryId
      <4> QED
        BY <4>2 DEF a, b, f
    <3>5. clipboard_device_id' # None <=> (seat # None /\ manager # None)
      BY <2>1
    <3>6. Flag(seat_id)' = Flag(seat) /\ Flag(clipboard_manager_id)' = Flag(manager)
      BY <1>7 DEF Flag
    <3>7. Flag(clipboard_device_id)' = Flag(clipboard_device_id')
      BY DEF Flag
    <3> QED
      BY <1>1, <1>2, <1>7, <3>1, <3>4, <3>5, <3>6, <3>7 DEF IdsCounted
  <2> QED
    BY <1>2, <2>1, <2>2, <2>3, <2>4 DEF WireInv
<1>8. CASE GlobalSeat /\ seat_id = None
  <2>1. /\ seat_id' = NewObjectId(n) /\ UNCHANGED clipboard_manager_id
        /\ ObtainDataDeviceIfReady(clipboard_manager_id, NewObjectId(n),
               << Bind(NewObjectId(n), "wl_seat") >>, NextObjectId(n))
    BY <1>8 DEF GlobalSeat
  <2>2. NewObjectId(n) \in Nat /\ "wl_seat" \in Interfaces
    BY <1>3, <1>4 DEF Interfaces
  <2> QED
    BY <1>3, <1>7, <1>8, <2>1, <2>2
<1>9. CASE GlobalManager /\ clipboard_manager_id = None
  <2>1. /\ clipboard_manager_id' = NewObjectId(n) /\ UNCHANGED seat_id
        /\ ObtainDataDeviceIfReady(NewObjectId(n), seat_id,
               << Bind(NewObjectId(n), "ext_data_control_manager_v1") >>,
               NextObjectId(n))
    BY <1>9 DEF GlobalManager
  <2>2. NewObjectId(n) \in Nat /\ "ext_data_control_manager_v1" \in Interfaces
    BY <1>3, <1>4 DEF Interfaces
  <2> QED
    BY <1>3, <1>7, <1>9, <2>1, <2>2
<1> QED
    BY <1>6, <1>8, <1>9 DEF GlobalSeat, GlobalManager

(* What only reads the event keeps the invariant.                          *)
LEMMA LogKeepsWire ==
    ASSUME TypeOK, WireInv, SourceSend \/ DeviceDataOffer \/ LogEvent
    PROVE  WireInv'
<1> DEFINE e == toClient[1]
<1>1. PICK recipients : Dispatch(recipients)
          /\ ("ext_data_control_source_v1" \notin recipients \/ e.ev = "send")
  <2>1. ASSUME NEW recipients, Dispatch(recipients) PROVE Head(toClient) = e
    BY <2>1, DispatchFacts
  <2>2. CASE SourceSend \/ DeviceDataOffer
    BY <2>1, <2>2 DEF SourceSend, DeviceDataOffer
  <2>3. CASE LogEvent
    BY <2>3 DEF LogEvent
  <2> QED
    BY <2>2, <2>3
<1>2. /\ Head(toClient) = e /\ e \in Events /\ e.obj \in ObjectId
      /\ EventSound(objects, used, selection, e)
      /\ Recipient(e.obj) \in recipients
      /\ UNCHANGED << objects, used, selection, seatLost, clicks, copied, claim >>
      /\ EventsInv' /\ clicks' <= MaxCopies
    BY <1>1, DispatchFacts DEF Events
<1>3. UNCHANGED << toServer, nextObjectId, seat_id, clipboard_manager_id,
          clipboard_device_id, clipboard_source_id, clipboard_data >>
    BY DEF SourceSend, DeviceDataOffer, LogEvent, wayland_data
<1>4. incoming_offer_id' = incoming_offer_id
      \/ incoming_offer_id' >= ServerIdBase
  <2>1. CASE SourceSend \/ LogEvent
    BY <2>1 DEF SourceSend, LogEvent, wayland_data
  <2>2. CASE DeviceDataOffer
    BY <1>2, <2>2 DEF DeviceDataOffer, EventSound
  <2> QED
    BY <2>1, <2>2
<1>5. CASE e.ev # "cancelled"
  <2>1. Cancelling(toClient') = Cancelling(toClient)
    BY <1>1, <1>5, DispatchFacts
  <2> QED
    BY <1>2, <1>3, <1>4, <2>1, NothingAsked
<1>6. CASE e.ev = "cancelled"
  <2>1. Cancelling(toClient') = Cancelling(toClient) \ {e.obj}
    BY <1>1, <1>6, DispatchFacts
  <2>2. e.obj # clipboard_source_id
    BY <1>1, <1>2, <1>6, RecipientSource
  <2>3. RequestsInv' /\ ObjectsKnown' /\ IdsCounted'
    BY <1>2, <1>3, <1>4
       DEF WireInv, RequestsInv, ObjectsKnown, Known, IdsCounted, Flag
  <2>4. SelectionInv' /\ ClaimInv'
    BY <1>2, <1>3, <2>1, <2>2 DEF WireInv, SelectionInv, ClaimInv
  <2> QED
    BY <1>2, <2>3, <2>4 DEF WireInv
<1> QED
    BY <1>5, <1>6

(* The client gives up a source once it was selected and another one is.   *)
LEMMA CancelledKeepsWire ==
    ASSUME TypeOK, WireInv, SourceCancelled
    PROVE  WireInv'
<1> DEFINE e == toClient[1]
           s == clipboard_source_id
<1>1. /\ Dispatch({"ext_data_control_source_v1"})
      /\ Head(toClient).ev = "cancelled" /\ s' = None
      /\ UNCHANGED << nextObjectId, seat_id, clipboard_manager_id,
             clipboard_device_id, incoming_offer_id, toServer >>
    BY DEF SourceCancelled
<1>2. /\ e \in Events /\ e.ev = "cancelled" /\ e.obj \in ObjectId
      /\ EventSound(objects, used, selection, e)
      /\ Recipient(e.obj) = "ext_data_control_source_v1"
      /\ UNCHANGED << objects, used, selection, seatLost, clicks, copied, claim >>
      /\ EventsInv' /\ e.obj \in Cancelling(toClient)
    BY <1>1, DispatchFacts DEF Events
<1>3. e.obj = s
    BY <1>2, RecipientSource
<1>4. s \in used /\ selection # s
    BY <1>2, <1>3 DEF EventSound
<1>5. /\ objects \in Seq(ObjectKinds) /\ toServer \in Seq(Requests)
      /\ nextObjectId \in Nat
      /\ QueueSound(objects, used, toServer, nextObjectId)
    BY DEF TypeOK, WireInv, RequestsInv
<1>6. s \notin Selecting(toServer) /\ None \notin Destroying(toServer)
    BY <1>4, <1>5, PendingSound DEF ObjectId
<1>7. RequestsInv' /\ ObjectsKnown' /\ IdsCounted'
    BY <1>1, <1>2 DEF WireInv, RequestsInv, ObjectsKnown, Known, IdsCounted, Flag
<1>8. SelectionInv'
    BY <1>1, <1>2, <1>4, <1>6 DEF WireInv, SelectionInv
<1>9. ClaimInv'
    BY <1>2, <1>3 DEF WireInv, ClaimInv
<1> QED
    BY <1>2, <1>7, <1>8, <1>9 DEF WireInv

-----------------------------------------------------------------------------
(* Every step preserves WireInv.                                           *)
LEMMA WireStep == TypeOK /\ FreshInv /\ WireInv /\ [Next]_vars => WireInv'
<1> SUFFICES ASSUME TypeOK, FreshInv, WireInv, [Next]_vars PROVE WireInv'
    OBVIOUS
<1>1. CASE ReceiveExit
    BY <1>1, ExitKeepsWire
<1>2. CASE ReceiveCopy
    BY <1>2, CopyKeepsWire
<1>3. CASE ReceiveClear
    BY <1>3, ClearKeepsWire
<1>4. CASE GlobalSeat \/ GlobalManager
    BY <1>4, GlobalKeepsWire
<1>5. CASE SourceSend \/ DeviceDataOffer \/ LogEvent
    BY <1>5, LogKeepsWire
<1>6. CASE SourceCancelled
    BY <1>6, CancelledKeepsWire
<1>7. CASE ServerCreate \/ ServerBind
    BY <1>7, CreateKeepsWire
<1>8. CASE ServerOffer
    BY <1>8, OfferKeepsWire
<1>9. CASE ServerSetSelection
    BY <1>9, SelectKeepsWire
<1>10. CASE ServerDestroy
    BY <1>10, DestroyKeepsWire
<1>11. CASE ServerSeatLost
    BY <1>11, SeatLossKeepsWire
<1>12. CASE OtherClientCopies
    BY <1>12, CopiesKeepWire
<1>13. CASE \/ \E iface \in Interfaces : ServerAnnounce(iface)
            \/ \E mime \in PasteTypes : OtherClientPastes(mime)
            \/ \E i \in DOMAIN pastes : ReaderVanishes(i)
            \/ SendCopy \/ SendExit \/ SendClear \/ UNCHANGED vars
    BY <1>13, OthersKeepWire
<1> QED
    BY <1>1, <1>2, <1>3, <1>4, <1>5, <1>6, <1>7, <1>8, <1>9, <1>10, <1>11,
       <1>12, <1>13 DEF Next, WaylandDispatch, Server

(* The invariant holds in every reachable state.                           *)
THEOREM WireAlways == Spec => [](TypeOK /\ FreshInv /\ WireInv)
<1>1. Init => TypeOK /\ FreshInv /\ WireInv
    BY ClipboardTypeInitially, FreshInitially, WireInitially
<1>2. TypeOK /\ FreshInv /\ WireInv /\ [Next]_vars
          => (TypeOK /\ FreshInv /\ WireInv)'
    BY ClipboardTypeStep, FreshStep, WireStep
<1> QED
    BY <1>1, <1>2, PTL DEF Spec

(* Whatever the order in which the two ends of the socket run, each packet *)
(* that wayland_dispatch, copy_dispatch and clear_dispatch sent is legal   *)
(* when the compositor reads it.                                           *)
THEOREM RequestsAlwaysLegal == Spec => []RequestsLegal
    BY WireAlways, WireLegal, PTL

(* wayland_dispatch never takes an event for one of another object.        *)
THEOREM DispatchAlwaysSound == Spec => []DispatchSound
    BY WireAlways, WireDispatch, PTL

(* While the client holds a source, its set_selection is on the way, it is *)
(* selected, or its cancelled event is on the way, exactly one of them; and*)
(* a source that the client has given up is selected only while its        *)
(* destroy request is on the way.                                          *)
THEOREM OwnershipAlwaysTracked == Spec => []OwnershipTracked
    BY WireAlways, WireOwnership, PTL

(* The client breaks no rule of the protocol, takes no event for another   *)
(* and knows what it owns, also where the source may be cleared, the seat  *)
(* unplugged and a reader may vanish.                                      *)
THEOREM ProtocolAlwaysKept == Spec => []ProtocolKept
<1>1. TypeOK /\ FreshInv /\ WireInv => ProtocolKept
    BY WireLegal, WireDispatch, WireOwnership DEF ProtocolKept
<1> QED
    BY <1>1, WireAlways, PTL

(* A code accepted while the device is known and no cancellation of our    *)
(* source is on its way is what the selection serves once both ends have   *)
(* read everything, unless another client copied meanwhile.                *)
THEOREM CopyAlwaysPublished == Spec => []CopyPublished
    BY WireAlways, WirePublished, PTL

-----------------------------------------------------------------------------
(* Descriptors, when nothing sends Clear.                                  *)

(* What is sent for is the source that the client holds, none is being     *)
(* destroyed and none will be.                                             *)
LeakInv ==
    /\ \A i \in DOMAIN channel : channel[i].kind # "clear"
    /\ Destroying(toServer) = {}
    /\ \A x \in Sending(toClient) : x = clipboard_source_id
    /\ NoDescriptorLeak

(* What a concatenation sends for.                                         *)
LEMMA SendingConcat ==
    ASSUME NEW c \in Seq(Events), NEW d \in Seq(Events)
    PROVE  /\ c \o d \in Seq(Events)
           /\ Sending(c \o d) = Sending(c) \cup Sending(d)
<1> DEFINE t == c \o d
<1>1. /\ Len(c) \in Nat /\ DOMAIN c = 1 .. Len(c)
      /\ Len(d) \in Nat /\ DOMAIN d = 1 .. Len(d)
      /\ t \in Seq(Events) /\ Len(t) = Len(c) + Len(d)
      /\ DOMAIN t = 1 .. Len(c) + Len(d)
      /\ \A i \in 1 .. Len(c) + Len(d) :
            t[i] = IF i <= Len(c) THEN c[i] ELSE d[i - Len(c)]
    BY LenProperties, ConcatProperties
<1> HIDE DEF t
<1>2. \A i \in DOMAIN c : i \in DOMAIN t /\ t[i] = c[i]
    BY <1>1
<1>3. \A i \in DOMAIN d : i + Len(c) \in DOMAIN t /\ t[i + Len(c)] = d[i]
  <2> SUFFICES ASSUME NEW i \in DOMAIN d
               PROVE  i + Len(c) \in DOMAIN t /\ t[i + Len(c)] = d[i]
    OBVIOUS
  <2>1. i + Len(c) \in 1 .. Len(c) + Len(d) /\ ~(i + Len(c) <= Len(c))
        /\ (i + Len(c)) - Len(c) = i
    BY <1>1
  <2> QED
    BY <1>1, <2>1
<1>4. \A i \in DOMAIN t : \/ i \in DOMAIN c /\ t[i] = c[i]
                          \/ \E j \in DOMAIN d : t[i] = d[j]
  <2> SUFFICES ASSUME NEW i \in DOMAIN t, ~(i \in DOMAIN c /\ t[i] = c[i])
               PROVE  \E j \in DOMAIN d : t[i] = d[j]
    OBVIOUS
  <2>1. i - Len(c) \in DOMAIN d /\ t[i] = d[i - Len(c)]
    BY <1>1
  <2> QED
    BY <2>1
<1>5. Sending(t) \subseteq Sending(c) \cup Sending(d)
    BY <1>4 DEF Sending
<1>6. Sending(c) \subseteq Sending(t)
    BY <1>2 DEF Sending
<1>7. Sending(d) \subseteq Sending(t)
    BY <1>3 DEF Sending
<1> QED
    BY <1>1, <1>5, <1>6, <1>7 DEF t

(* A single event that is no send.                                         *)
LEMMA SendingOne ==
    ASSUME NEW c \in Seq(Events), NEW e \in Events, e.ev # "send"
    PROVE  Sending(Append(c, e)) = Sending(c)
<1> DEFINE t == Append(c, e)
<1>1. /\ \A i \in DOMAIN c : i \in DOMAIN t /\ t[i] = c[i]
      /\ \A i \in DOMAIN t : i \in DOMAIN c \/ t[i] = e
    BY AppendIndex
<1> HIDE DEF t
<1>2. Sending(t) = Sending(c)
    BY <1>1 DEF Sending
<1> QED
    BY <1>2 DEF t

(* A change of the selection asks for no contents.                         *)
LEMMA AnnouncementsSendNothing ==
    Sending(CancelSelected) = {} /\ Sending(Announcement) = {}
<1>1. ASSUME NEW a, NEW b, NEW e, "send" \notin {a.ev, b.ev, e.ev}
      PROVE  Sending(<< a, b, e >>) = {} /\ Sending(<< a >>) = {}
    BY <1>1 DEF Sending
<1>2. Sending(<<>>) = {}
    BY DEF Sending
<1>3. ASSUME NEW id, NEW arg
      PROVE  /\ Event(id, "cancelled", arg).ev # "send"
             /\ Event(id, "data_offer", arg).ev # "send"
             /\ Event(id, "offer", arg).ev # "send"
             /\ Event(id, "selection", arg).ev # "send"
    BY DEF Event
<1>4. Sending(CancelSelected) = {}
    BY <1>1, <1>2, <1>3 DEF CancelSelected
<1>5. Sending(Announcement) = {}
    BY <1>1, <1>2, <1>3 DEF Announcement
<1> QED
    BY <1>4, <1>5

(* The compositor asks for no contents unless another client pastes.       *)
LEMMA CompositorSendsNothing ==
    ASSUME TypeOK, WireInv,
           \/ Server \/ ServerSeatLost \/ OtherClientCopies
           \/ \E iface \in Interfaces : ServerAnnounce(iface)
    PROVE  Sending(toClient') = Sending(toClient)
<1>1. toClient \in Seq(Events)
    BY DEF TypeOK
<1>2. CancelSelected \in Seq(Events) /\ Announcement \in Seq(Events)
    BY AnnouncementType
<1>3. ASSUME NEW id \in ObjectId, NEW arg \in Nat,
             NEW ev \in EventNames \ {"send"},
             toClient' = Append(toClient, Event(id, ev, arg))
      PROVE  Sending(toClient') = Sending(toClient)
  <2> DEFINE e == Event(id, ev, arg)
  <2>1. e \in Events /\ e.ev # "send"
    BY DEF Event, Events
  <2> HIDE DEF e
  <2>2. Sending(Append(toClient, e)) = Sending(toClient)
    BY <1>1, <2>1, SendingOne
  <2> QED
    BY <1>3, <2>2 DEF e
<1>4. CASE ServerCreate \/ ServerBind
  <2> DEFINE r == toServer[1]
  <2>1. PICK ops \in {DOMAIN Creates, {"bind"}} : ServerRead(ops)
    BY <1>4 DEF ServerCreate, ServerBind
  <2>2. Head(toServer) = r /\ Creating(r) /\ r.id = Len(objects) + 1
        /\ Len(objects) \in Nat
    BY <2>1, ReadFacts DEF Creating
  <2>3. \/ UNCHANGED toClient
        \/ \E ev \in EventNames \ {"send"} :
              toClient' = Append(toClient, Event(r.id, ev, None))
    BY <1>4, <2>2 DEF ServerCreate, ServerBind, EventNames
  <2>4. r.id \in ObjectId /\ None \in Nat
    BY <2>2 DEF ObjectId, None
  <2> QED
    BY <1>3, <2>3, <2>4
<1>5. CASE ServerOffer
    BY <1>5 DEF ServerOffer
<1>6. ASSUME toClient' = toClient \o CancelSelected \o Announcement
      PROVE  Sending(toClient') = Sending(toClient)
  <2> DEFINE t == toClient \o CancelSelected
  <2>1. t \in Seq(Events) /\ Sending(t) = Sending(toClient) \cup Sending(CancelSelected)
    BY <1>1, <1>2, SendingConcat
  <2> HIDE DEF t
  <2>2. Sending(t \o Announcement) = Sending(t) \cup Sending(Announcement)
    BY <1>2, <2>1, SendingConcat
  <2>3. toClient' = t \o Announcement
    BY <1>6 DEF t
  <2> QED
    BY <2>1, <2>2, <2>3, AnnouncementsSendNothing
<1>7. CASE ServerSetSelection \/ OtherClientCopies
    BY <1>6, <1>7 DEF ServerSetSelection, OtherClientCopies
<1>8. CASE ServerDestroy
  <2>1. ServerRead({"destroy"})
    BY <1>8 DEF ServerDestroy
  <2>2. Head(toServer) = toServer[1] /\ toServer[1] \in Requests
    BY <2>1, ReadFacts
  <2>3. toServer[1].obj \in Nat /\ DISPLAY \in ObjectId
        /\ "delete_id" \in EventNames \ {"send"}
    BY <2>2, RequestFields DEF DISPLAY, ObjectId, None, EventNames
  <2>4. toClient' = Append(toClient, Event(DISPLAY, "delete_id", toServer[1].obj))
    BY <1>8, <2>2 DEF ServerDestroy
  <2> QED
    BY <1>3, <2>3, <2>4
<1>9. CASE ServerSeatLost
  <2> DEFINE first == << Event(RegistryId, "global_remove", None) >>
             rest == IF Device = {} THEN <<>>
                     ELSE << Event(CHOOSE i \in Device : TRUE, "finished", None) >>
             t == toClient \o first
             v == t \o CancelSelected
  <2>1. first \in Seq(Events)
    <3>1. Event(RegistryId, "global_remove", None) \in Events
      BY DEF Event, Events, EventNames, RegistryId, ObjectId, None
    <3> QED
      BY <3>1
  <2>2. rest \in Seq(Events)
    <3>1. ASSUME Device # {}
          PROVE  Event(CHOOSE i \in Device : TRUE, "finished", None) \in Events
      <4>1. PICK dev \in DOMAIN objects : dev = CHOOSE i \in Device : TRUE
        BY <3>1 DEF Device
      <4>2. dev \in ObjectId
        BY LenProperties DEF TypeOK, ObjectId, None
      <4> QED
        BY <4>1, <4>2 DEF Event, Events, EventNames, None
    <3> QED
      BY <3>1
  <2>3. Sending(first) = {} /\ Sending(rest) = {}
    <3>1. ASSUME NEW a, a.ev # "send" PROVE Sending(<< a >>) = {}
      BY <3>1 DEF Sending
    <3>2. Sending(<<>>) = {}
      BY DEF Sending
    <3>3. ASSUME NEW id
          PROVE  /\ Event(id, "global_remove", None).ev # "send"
                 /\ Event(id, "finished", None).ev # "send"
      BY DEF Event
    <3> QED
      BY <3>1, <3>2, <3>3
  <2>4. toClient' = toClient \o first \o CancelSelected \o rest
    BY <1>9 DEF ServerSeatLost
  <2> HIDE DEF first, rest
  <2>5. t \in Seq(Events) /\ Sending(t) = Sending(toClient)
    <3>1. /\ t \in Seq(Events)
          /\ Sending(t) = Sending(toClient) \cup Sending(first)
      BY <1>1, <2>1, SendingConcat
    <3> QED
      BY <2>3, <3>1
  <2>6. toClient' = v \o rest
    BY <2>4
  <2> HIDE DEF t
  <2>7. v \in Seq(Events) /\ Sending(v) = Sending(t)
    <3>1. v \in Seq(Events) /\ Sending(v) = Sending(t) \cup Sending(CancelSelected)
      BY <1>2, <2>5, SendingConcat
    <3> QED
      BY <3>1, AnnouncementsSendNothing
  <2> HIDE DEF v
  <2>8. Sending(v \o rest) = Sending(v)
    <3>1. Sending(v \o rest) = Sending(v) \cup Sending(rest)
      BY <2>2, <2>7, SendingConcat
    <3> QED
      BY <2>3, <3>1
  <2> QED
    BY <2>5, <2>6, <2>7, <2>8
<1>10. ASSUME NEW iface \in Interfaces, ServerAnnounce(iface)
       PROVE  Sending(toClient') = Sending(toClient)
  <2>1. Global(iface) \in Events /\ Global(iface).ev # "send"
    BY DEF Global, Events, EventNames, RegistryId, ObjectId, None
  <2>2. toClient' = Append(toClient, Global(iface))
    BY <1>10 DEF ServerAnnounce
  <2> QED
    BY <1>1, <2>1, <2>2, SendingOne
<1> QED
    BY <1>4, <1>5, <1>7, <1>8, <1>9, <1>10 DEF Server

(* Initially nothing was asked for.                                        *)
LEMMA LeakInitially == Init => LeakInv
<1> SUFFICES ASSUME Init PROVE LeakInv
    OBVIOUS
<1>1. /\ channel = <<>> /\ toClient = <<>> /\ pastes = <<>>
      /\ DOMAIN toServer = {1} /\ toServer[1].op = "get_registry"
    BY DEF Init
<1>2. Destroying(toServer) = {} /\ Sending(toClient) = {}
    BY <1>1 DEF Destroying, Sending
<1> QED
    BY <1>1, <1>2 DEF LeakInv, NoDescriptorLeak

(* Without Clear, every step keeps each descriptor with the source that    *)
(* the client holds.                                                       *)
LEMMA LeakStep ==
    ASSUME "clear" \notin MenuKinds, TypeOK, FreshInv, WireInv, LeakInv,
           [Next]_vars
    PROVE  LeakInv'
<1> DEFINE s == clipboard_source_id
           e == toClient[1]
<1>1. /\ channel \in Seq(Messages) /\ toServer \in Seq(Requests)
      /\ toClient \in Seq(Events) /\ pastes \in Seq(Pastes)
      /\ objects \in Seq(ObjectKinds) /\ nextObjectId \in Nat
      /\ QueueSound(objects, used, toServer, nextObjectId)
      /\ EventsSound(objects, used, selection, toClient)
    BY DEF TypeOK, WireInv, RequestsInv, EventsInv
<1>2. Sending(toClient) \subseteq ObjectId
  <2>1. \A i \in DOMAIN toClient : toClient[i] \in Events
    BY <1>1, LenProperties, ElementOfSeq
  <2>2. \A i \in DOMAIN toClient : toClient[i].obj \in ObjectId
    BY <2>1 DEF Events
  <2> QED
    BY <2>2 DEF Sending
<1>3. selection \in {None, s}
    BY DEF WireInv, SelectionInv, LeakInv
<1>4. CASE ReceiveExit \/ ReceiveCopy
  <2>1. /\ channel # <<>> /\ channel' = Tail(channel) /\ UNCHANGED << toClient, pastes >>
    BY <1>4 DEF ReceiveExit, ReceiveCopy, Receive
  <2>2. \A i \in DOMAIN channel' : channel'[i].kind # "clear"
    BY <1>1, <2>1, TailIndex DEF LeakInv
  <2>3. NoDescriptorLeak'
    BY <2>1 DEF LeakInv, NoDescriptorLeak
  <2>4. Destroying(toServer') = {}
        /\ (UNCHANGED s \/ s = None)
    <3>1. CASE UNCHANGED << toServer, s >>
      BY <3>1 DEF LeakInv
    <3>2. CASE ReceiveCopy /\ ~CannotPublish /\ s = None
      <4>1. /\ nextObjectId \in ObjectId
            /\ NewObjectId(nextObjectId) = nextObjectId
        BY IdsFit DEF WireInv
      <4>2. toServer' = toServer \o PublishSource(nextObjectId)
        BY <3>2, <4>1 DEF ReceiveCopy, CopyDispatch, NewSource
      <4>3. /\ clipboard_manager_id \in ObjectId
            /\ clipboard_device_id \in ObjectId
            /\ KnownIn(objects, toServer, clipboard_manager_id,
                       "ext_data_control_manager_v1")
            /\ KnownIn(objects, toServer, clipboard_device_id,
                       "ext_data_control_device_v1")
        BY <3>2 DEF CannotPublish, TypeOK, ObjectId, WireInv, ObjectsKnown, Known
      <4>4. Destroying(toServer') = Destroying(toServer)
        BY <1>1, <4>1, <4>2, <4>3, SendPublish
      <4> QED
        BY <3>2, <4>4 DEF LeakInv
    <3> QED
      BY <1>4, <3>1, <3>2 DEF ReceiveExit, ReceiveCopy, CopyDispatch
  <2>5. \A x \in Sending(toClient') : x = s'
    BY <1>2, <2>1, <2>4 DEF LeakInv, ObjectId
  <2> QED
    BY <2>2, <2>3, <2>4, <2>5 DEF LeakInv
<1>5. ~ReceiveClear
  <2>1. ASSUME ReceiveClear PROVE FALSE
    <3>1. channel # <<>> /\ Head(channel).kind = "clear"
      BY <2>1 DEF ReceiveClear, Receive
    <3>2. 1 \in DOMAIN channel /\ Head(channel) = channel[1]
      BY <1>1, <3>1, TailIndex
    <3> QED
      BY <3>1, <3>2 DEF LeakInv
  <2> QED
    BY <2>1
<1>6. CASE WaylandDispatch
  <2>1. PICK recipients : Dispatch(recipients)
    BY <1>6 DEF WaylandDispatch, GlobalSeat, GlobalManager, SourceSend,
                SourceCancelled, DeviceDataOffer, LogEvent
  <2>2. /\ toClient # <<>> /\ toClient' = Tail(toClient) /\ UNCHANGED channel
    BY <2>1 DEF Dispatch
  <2>3. /\ Head(toClient) = e /\ e \in Events /\ e.obj \in ObjectId
    BY <2>1, DispatchFacts DEF Events
  <2>4. /\ Sending(toClient') \subseteq Sending(toClient)
        /\ e.ev = "cancelled" => e.obj \notin Sending(toClient')
        /\ e.ev = "send" => e.obj \in Sending(toClient)
    BY <1>1, <2>2, EventsAfterRead
  <2>5. Destroying(toServer') = {}
    <3>1. CASE GlobalSeat \/ GlobalManager
      <4>1. WireInv'
        BY <3>1, GlobalKeepsWire
      <4>2. /\ UNCHANGED << objects, used >>
        BY <2>1, DispatchFacts
      <4>3. NewObjectId(nextObjectId) = nextObjectId /\ nextObjectId \in Nat
        BY IdsFit DEF WireInv, TypeOK
      <4>4. CASE UNCHANGED toServer
        BY <4>4 DEF LeakInv
      <4>5. CASE GlobalSeat /\ seat_id = None
        <5>1. ObtainDataDeviceIfReady(clipboard_manager_id, NewObjectId(nextObjectId),
                 << Bind(NewObjectId(nextObjectId), "wl_seat") >>,
                 NextObjectId(nextObjectId))
          BY <4>5 DEF GlobalSeat
        <5>2. "wl_seat" \in Interfaces /\ clipboard_manager_id \in Nat
          BY DEF Interfaces, TypeOK
        <5> QED
          BY <4>2, <4>3, <4>5, <5>1, <5>2, BindObtains DEF LeakInv
      <4>6. CASE GlobalManager /\ clipboard_manager_id = None
        <5>1. ObtainDataDeviceIfReady(NewObjectId(nextObjectId), seat_id,
                 << Bind(NewObjectId(nextObjectId),
                         "ext_data_control_manager_v1") >>,
                 NextObjectId(nextObjectId))
          BY <4>6 DEF GlobalManager
        <5>2. "ext_data_control_manager_v1" \in Interfaces /\ seat_id \in Nat
          BY DEF Interfaces, TypeOK
        <5> QED
          BY <4>2, <4>3, <4>6, <5>1, <5>2, BindObtains DEF LeakInv
      <4> QED
        BY <3>1, <4>4, <4>5, <4>6 DEF GlobalSeat, GlobalManager
    <3>2. CASE ~(GlobalSeat \/ GlobalManager)
      BY <1>6, <3>2 DEF WaylandDispatch, SourceSend, SourceCancelled,
                        DeviceDataOffer, LogEvent, LeakInv
    <3> QED
      BY <3>1, <3>2
  <2>6. \A x \in Sending(toClient') : x = s'
    <3>1. CASE SourceCancelled
      <4>1. /\ e.ev = "cancelled" /\ Recipient(e.obj) = "ext_data_control_source_v1"
        BY <2>3, <3>1 DEF SourceCancelled, Dispatch
      <4>2. e.obj = s
        BY <2>3, <4>1, RecipientSource
      <4> QED
        BY <2>4, <4>1, <4>2 DEF LeakInv
    <3>2. CASE ~SourceCancelled
      <4>1. UNCHANGED s
        BY <1>6, <3>2 DEF WaylandDispatch, GlobalSeat, GlobalManager,
                          SourceSend, DeviceDataOffer, LogEvent, wayland_data
      <4> QED
        BY <2>4, <4>1 DEF LeakInv
    <3> QED
      BY <3>1, <3>2
  <2>7. NoDescriptorLeak'
    <3>1. CASE UNCHANGED pastes
      BY <3>1 DEF LeakInv, NoDescriptorLeak
    <3>2. CASE SourceSend /\ pastes' # pastes
      <4>1. PICK code : pastes' = [pastes EXCEPT ![e.arg].fd = "closed",
                                                 ![e.arg].got = code]
        BY <2>3, <3>2 DEF SourceSend
      <4>2. /\ DOMAIN pastes' = DOMAIN pastes
            /\ \A i \in DOMAIN pastes :
                  pastes'[i].fd = pastes[i].fd \/ pastes'[i].fd = "closed"
        <5>1. DOMAIN pastes' = DOMAIN pastes
          BY <4>1
        <5>2. pastes \in Seq(Pastes)
          BY DEF TypeOK
        <5>3. ASSUME NEW i \in DOMAIN pastes
              PROVE  pastes'[i].fd = pastes[i].fd \/ pastes'[i].fd = "closed"
          <6>1. pastes[i] \in Pastes
            BY <5>2, LenProperties, ElementOfSeq
          <6>2. CASE i = e.arg
            BY <4>1, <6>1, <6>2 DEF Pastes
          <6>3. CASE i # e.arg
            BY <4>1, <6>3
          <6> QED
            BY <6>2, <6>3
        <5> QED
          BY <5>1, <5>3
      <4> QED
        BY <4>2 DEF LeakInv, NoDescriptorLeak
    <3>3. CASE LogEvent
      <4>1. e.ev # "send"
        <5>1. Recipient(e.obj) # "ext_data_control_source_v1"
          BY <2>3, <3>3 DEF LogEvent, Dispatch
        <5>2. e.obj # s
          BY <2>3, <5>1, RecipientSource
        <5> QED
          BY <2>4, <5>2 DEF LeakInv
      <4> QED
        BY <2>3, <3>1, <3>3, <4>1 DEF LogEvent
    <3> QED
      BY <1>6, <3>1, <3>2, <3>3
         DEF WaylandDispatch, GlobalSeat, GlobalManager, SourceCancelled,
             DeviceDataOffer
  <2>8. \A i \in DOMAIN channel' : channel'[i].kind # "clear"
    BY <2>2 DEF LeakInv
  <2> QED
    BY <2>5, <2>6, <2>7, <2>8 DEF LeakInv
<1>7. CASE \/ Server \/ ServerSeatLost \/ OtherClientCopies
           \/ \E iface \in Interfaces : ServerAnnounce(iface)
  <2>1. Sending(toClient') = Sending(toClient)
    BY <1>7, CompositorSendsNothing
  <2>2. UNCHANGED << channel, s, pastes >>
    BY <1>7 DEF Server, ServerCreate, ServerBind, ServerOffer,
                ServerSetSelection, ServerDestroy, ServerRead, ServerSeatLost,
                OtherClientCopies, ServerAnnounce, wayland_data
  <2>3. Destroying(toServer') = {}
    <3>1. CASE Server
      <4>1. PICK ops : ServerRead(ops)
        BY <3>1 DEF Server, ServerCreate, ServerBind, ServerOffer,
                    ServerSetSelection, ServerDestroy
      <4>2. toServer # <<>> /\ toServer' = Tail(toServer)
        BY <4>1 DEF ServerRead
      <4>3. Destroying(Tail(toServer)) \subseteq Destroying(toServer)
        BY <1>1, <4>2, PendingAfterRead
      <4> QED
        BY <4>2, <4>3 DEF LeakInv
    <3>2. CASE ~Server
      BY <1>7, <3>2 DEF ServerSeatLost, OtherClientCopies, ServerAnnounce, LeakInv
    <3> QED
      BY <3>1, <3>2
  <2> QED
    BY <2>1, <2>2, <2>3 DEF LeakInv, NoDescriptorLeak
<1>8. ASSUME NEW mime \in PasteTypes, OtherClientPastes(mime) PROVE LeakInv'
  <2> DEFINE f == Event(selection, "send", Len(pastes) + 1)
             p == [mime |-> mime, fd |-> "open", got |-> None,
                   gone |-> FALSE, floor |-> copied]
  <2>1. /\ selection # None /\ pastes' = Append(pastes, p)
        /\ toClient' = Append(toClient, f)
        /\ UNCHANGED << channel, s, toServer >>
    BY <1>8 DEF OtherClientPastes, wayland_data
  <2>2. p \in Pastes /\ p.fd = "open"
    BY DEF Pastes, TypeOK, None
  <2>3. f \in Events /\ f.obj = selection
    BY <1>1, <2>1, LenProperties
       DEF Event, Events, EventNames, TypeOK, ObjectId
  <2> HIDE DEF f, p
  <2>4. NoDescriptorLeak'
    BY <1>1, <2>1, <2>2, AppendIndex DEF LeakInv, NoDescriptorLeak
  <2>5. \A x \in Sending(toClient') : x \in Sending(toClient) \/ x = selection
    <3>1. \A i \in DOMAIN Append(toClient, f) :
              \/ i \in DOMAIN toClient /\ Append(toClient, f)[i] = toClient[i]
              \/ Append(toClient, f)[i] = f
      BY <1>1, <2>3, AppendIndex
    <3> QED
      BY <2>1, <2>3, <3>1 DEF Sending
  <2> QED
    BY <1>3, <2>1, <2>4, <2>5 DEF LeakInv
<1>9. ASSUME NEW i \in DOMAIN pastes, ReaderVanishes(i) PROVE LeakInv'
  <2>1. /\ pastes' = [pastes EXCEPT ![i].gone = TRUE]
        /\ UNCHANGED << channel, s, toServer, toClient >>
    BY <1>9 DEF ReaderVanishes, wayland_data
  <2>2. DOMAIN pastes' = DOMAIN pastes
        /\ \A j \in DOMAIN pastes : pastes'[j].fd = pastes[j].fd
    <3>1. \A j \in DOMAIN pastes : pastes[j] \in Pastes
      BY <1>1, ElementOfSeq
    <3> QED
      BY <2>1, <3>1 DEF Pastes
  <2> QED
    BY <2>1, <2>2 DEF LeakInv, NoDescriptorLeak
<1>10. CASE SendCopy \/ SendExit \/ SendClear
  <2>1. PICK m \in Messages : channel' = Append(channel, m) /\ m.kind # "clear"
    <3>1. CASE SendCopy
      <4> DEFINE m == [kind |-> "copy", code |-> clicks + 1]
      <4>1. m \in Messages /\ m.kind # "clear"
        BY DEF Messages, TypeOK
      <4>2. channel' = Append(channel, m)
        BY <3>1 DEF SendCopy
      <4> QED
        BY <4>1, <4>2
    <3>2. CASE SendExit
      BY <3>2 DEF SendExit, SendOther, Messages, None
    <3>3. CASE SendClear
      BY <3>3 DEF SendClear, SendOther
    <3> QED
      BY <1>10, <3>1, <3>2, <3>3
  <2>2. UNCHANGED << s, toServer, toClient, pastes >>
    BY <1>10 DEF SendCopy, SendExit, SendClear, SendOther, wayland_data
  <2>3. \A i \in DOMAIN channel' : channel'[i].kind # "clear"
    BY <1>1, <2>1, AppendIndex DEF LeakInv
  <2> QED
    BY <2>2, <2>3 DEF LeakInv, NoDescriptorLeak
<1>11. CASE UNCHANGED vars
    BY <1>11 DEF vars, wayland_data, LeakInv, NoDescriptorLeak
<1> QED
    BY <1>4, <1>5, <1>6, <1>7, <1>8, <1>9, <1>10, <1>11 DEF Next

(* Without Clear, which no part of the program sends, the descriptor of    *)
(* every paste reaches the source that the client holds: the branch for    *)
(* unhandled events, which closes none, never gets one.                    *)
THEOREM DescriptorsKept ==
    ASSUME "clear" \notin MenuKinds
    PROVE  Spec => []NoDescriptorLeak
<1>1. Init => LeakInv
    BY LeakInitially
<1>2. TypeOK /\ FreshInv /\ WireInv /\ LeakInv /\ [Next]_vars => LeakInv'
    BY LeakStep
<1>3. LeakInv => NoDescriptorLeak
    BY DEF LeakInv
<1> QED
    BY <1>1, <1>2, <1>3, WireAlways, PTL DEF Spec
=============================================================================
