------------------------------ MODULE MCCodec ------------------------------
(* The instance of Codec for TLC, with bytes of 16 values.                 *)
EXTENDS Codec

Text(n) == [i \in 1 .. n |-> 1 + (i % 13)]

\* strings and arrays of each length modulo 4, the longest string that fits
\* a packet of its own, and one that is longer
MCValues ==
    [uint   |-> {0, U32Max}, int |-> {5, -1 - U32Max \div 2},
     fixed  |-> {3, -2},     fd  |-> {7},
     object |-> {0, SomeId}, new_id |-> {SomeId + 1},
     string |-> {Text(n) : n \in {0, 1, 3, 239, 243}},
     array  |-> {Zeros(n) : n \in {0, 2, 5}},
     new_object |-> {[interface |-> Text(6), version |-> 3, object_id |-> 9]}]
=============================================================================
