----------------------------- MODULE MCNotifier -----------------------------
(* Instances of Notifier for TLC; the .cfg files give the bounds.          *)
EXTENDS Notifier, TLC

CONSTANTS github, gitlab, gitlab2   \* items of the keyring
CONSTANTS t1, t2                    \* task slots

MCItems    == {github, gitlab, gitlab2}
\* the last two items have the same label
MCLabelOf  == (github :> 1) @@ (gitlab :> 2) @@ (gitlab2 :> 2)
MCKeyring  == {github, gitlab}
TwoItems   == {github, gitlab}
TwoLabels  == (github :> 1) @@ (gitlab :> 2)

AllCalls   == {"layout", "update", "secret", "exit"}
MenuCalls  == {"layout", "update", "secret"}

=============================================================================
