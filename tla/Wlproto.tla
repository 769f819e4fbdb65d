------------------------------ MODULE Wlproto ------------------------------
(***************************************************************************)
(* The protocol generator (wlproto/src): from the interfaces of a protocol *)
(* in XML to the bindings of whale-land/src/protocol/*.rs.                 *)
(*                                                                         *)
(* A procedure of the bindings is its opcode, its name and the functions   *)
(* that its arguments are read or written with: read_uint and push_uint    *)
(* are "uint", and so on.  An interface has four lists of them: the        *)
(* branches of handle_event, the functions of the request proxy, and the   *)
(* structures of request and of event arguments.  Descriptions, enums and  *)
(* comments are read but leave nothing in the bindings.                    *)
(***************************************************************************)
EXTENDS Naturals, Sequences, SequencesExt

M(opcode, name, args) == [opcode |-> opcode, name |-> name, args |-> args]

Bindings(event_handler, request_proxy, request_args, event_args) ==
    [event_handler |-> event_handler, request_proxy |-> request_proxy,
     request_args |-> request_args, event_args |-> event_args]

-----------------------------------------------------------------------------
(* The XML: an interface is a sequence of elements, of which requests and  *)
(* events have arguments, each with a type and perhaps an interface.       *)

(* ArgType::try_from_str succeeds.                                         *)
ArgTypes == {"uint", "int", "fixed", "string", "object", "new_id", "array",
             "fd"}

(* process_procedure and process_arg succeed.                              *)
ProcedureValid(elem) ==
    \A j \in DOMAIN elem.args : elem.args[j].type \in ArgTypes

(* Mutated form: requests and events are kept in one list.                 *)
ProcessEither(elems, tag) ==
    SelectSeq(elems, LAMBDA e : e.tag \in {"request", "event"})

(* process_interface: the requests or the events, in their order.          *)
ProcessInterface(elems, tag) == SelectSeq(elems, LAMBDA e : e.tag = tag)

-----------------------------------------------------------------------------
(* tokenize_interface.                                                     *)

ReadFunc(arg) ==
    IF arg.type = "new_id" /\ ~arg.interface THEN "new_object" ELSE arg.type

WriteFunc(arg) ==
    IF arg.type = "new_id" /\ ~arg.interface THEN "new_object" ELSE arg.type

(* The functions for the arguments of each procedure of a list.            *)
Reading(procedures) ==
    [i \in DOMAIN procedures |->
        [j \in DOMAIN procedures[i].args |-> ReadFunc(procedures[i].args[j])]]
Writing(procedures) ==
    [i \in DOMAIN procedures |->
        [j \in DOMAIN procedures[i].args |-> WriteFunc(procedures[i].args[j])]]

(* The list of procedures; an opcode is an index into the list.            *)
Enumerate(procedures, functions) ==
    [i \in DOMAIN procedures |->
        M(i - 1, procedures[i].name, functions[i])]

TokenizeInterface(elems) ==
    LET requests == ProcessInterface(elems, "request")
        events   == ProcessInterface(elems, "event")
    IN  Bindings(Enumerate(events, Reading(events)),
                 Enumerate(requests, Writing(requests)),
                 Enumerate(requests, Reading(requests)),
                 Enumerate(events, Reading(events)))

=============================================================================
