-------------------------- MODULE MCWaylandStream --------------------------
(* Instances of WaylandStream for TLC; the .cfg files give the bounds.     *)
EXTENDS WaylandStream

\* cancelled (no argument), send (a type and a descriptor), global (longer)
CancelledShape == [payload |-> 0, fds |-> 0]
SendShape      == [payload |-> 1, fds |-> 1]
GlobalShape    == [payload |-> 2, fds |-> 0]

ThreeShapes == {CancelledShape, SendShape, GlobalShape}
=============================================================================
