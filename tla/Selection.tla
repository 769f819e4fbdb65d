----------------------------- MODULE Selection -----------------------------
(***************************************************************************)
(* What the clipboard loop of one-true-pairing (one-true-pairing/src/      *)
(* main.rs) promises to the rest of the desktop: it accepts codes, each    *)
(* newer than the last, and provides to other clients either nothing or    *)
(* the newest code it has accepted, never an older one.  A paste of plain  *)
(* text is answered, if at all, with a code that was the newest at some    *)
(* moment between the request and the answer.                              *)
(*                                                                         *)
(* There is no Wayland here: no objects, ids, events or requests.          *)
(***************************************************************************)
EXTENDS Naturals, Sequences

VARIABLES
    chosen,     \* the newest code accepted, 0 before the first
    provided,   \* the code a paste would get now, 0 if we provide none
    answers     \* the pastes requested from us

Nothing == 0

NewPaste(type) ==
    [type |-> type, floor |-> chosen, got |-> Nothing, fd |-> "open"]

Answered(paste, code) ==
    [type |-> paste.type, floor |-> paste.floor, got |-> code, fd |-> "closed"]

-----------------------------------------------------------------------------
Init == chosen = Nothing /\ provided = Nothing /\ answers = <<>>

(* A new code replaces the one provided at once; it may be provided for    *)
(* the first time only later.                                              *)
Accept ==
    /\ chosen' \in Nat /\ chosen' > chosen
    /\ \/ provided' = chosen'
       \/ provided = Nothing /\ provided' = Nothing
    /\ UNCHANGED answers

Publish ==
    /\ chosen # Nothing
    /\ provided' = chosen
    /\ UNCHANGED << chosen, answers >>

Withdraw ==
    /\ provided' = Nothing
    /\ UNCHANGED << chosen, answers >>

RequestPaste(type) ==
    /\ answers' = Append(answers, NewPaste(type))
    /\ UNCHANGED << chosen, provided >>

(* Types other than plain text get an empty answer.                        *)
AnswerPaste(i) ==
    \E code \in IF answers[i].type = "plain"
                THEN (answers[i].floor .. chosen) \ {Nothing} ELSE {Nothing} :
        /\ answers' = [answers EXCEPT ![i] = Answered(@, code)]
        /\ UNCHANGED << chosen, provided >>

AbandonPaste(i) ==
    /\ answers' = [answers EXCEPT ![i].fd = "leaked"]
    /\ UNCHANGED << chosen, provided >>

Next ==
    \/ Accept \/ Publish \/ Withdraw
    \/ \E type \in {"plain", "other"} : RequestPaste(type)
    \/ \E i \in DOMAIN answers : AnswerPaste(i) \/ AbandonPaste(i)

Spec == Init /\ [][Next]_<< chosen, provided, answers >>
=============================================================================
