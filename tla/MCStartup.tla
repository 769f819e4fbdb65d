----------------------------- MODULE MCStartup -----------------------------
(* Instances of Startup for TLC; the .cfg files give the bounds.           *)
EXTENDS Startup, TLC

CONSTANTS login, default    \* collections

MCCollections == << login, default >>
MCLabelOf     == (login :> "Login") @@ (default :> "Default keyring")
=============================================================================
