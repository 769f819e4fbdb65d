---------------------------- MODULE MCClipboard ----------------------------
(* Instances of Clipboard for TLC; the .cfg files give the bounds.         *)
EXTENDS Clipboard

\* the kinds of ClipboardMessage the shipped menu sends, and all of them
ShippedKinds == {"copy", "exit"}
AllKinds     == {"copy", "clear", "exit"}

\* a type we offer and a type we do not
TwoPasteTypes == {"text/plain", "image/png"}
OnePasteType  == {"text/plain"}
=============================================================================
