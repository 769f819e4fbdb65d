------------------------------ MODULE Notifier ------------------------------
(***************************************************************************)
(* The tray menu (one-true-pairing/src/notifier/mod.rs), the shared        *)
(* SECRET_SESSION it reads (secrets/mod.rs) and the way main shuts down    *)
(* (main.rs, after the loop).                                              *)
(*                                                                         *)
(* zbus runs every method call as a task of its own, so the handlers       *)
(* interleave at each await: taking the session's RwLock, each request to  *)
(* the secrets service, and each signal or reply sent.  A task holds a     *)
(* reference to the D-Bus connection until it has replied, or panicked,    *)
(* which ends that task alone.  The panel that shows the menu and the      *)
(* secrets service are external.                                           *)
(*                                                                         *)
(* A label is a number (its rank in the order of the BTreeMap), an item of *)
(* the keyring is a path and has one label; two items may share a label.   *)
(***************************************************************************)
EXTENDS Naturals, Sequences, FiniteSets

CONSTANTS
    Tasks,          \* slots for method calls being handled
    Items,          \* object paths of secrets
    LabelOf,        \* the label of each item
    InitialKeyring, \* the items found at startup
    CallKinds,      \* methods the panel calls
    HandlersPanic,  \* may the service fail, or hold a secret that is no text?
    MaxCalls,       \* bound: method calls
    MaxEdits        \* bound: additions to and deletions from the keyring

ASSUME LabelsAssumption ==
    /\ IsFiniteSet(Items) /\ LabelOf \in [Items -> Nat]
    /\ InitialKeyring \subseteq Items

ASSUME CallsAssumption ==
    /\ CallKinds \subseteq {"layout", "update", "secret", "exit"}
    /\ HandlersPanic \in BOOLEAN
    /\ MaxCalls \in Nat /\ MaxEdits \in Nat

VARIABLES
    main,           \* "loop", "want_write", "draining" or "ended"
    connection,     \* SecretSession::connection is Some
    channel,        \* the channel of ClipboardMessages
    pc,             \* where each task is suspended, or how its call ended
    click,          \* what each task was asked for
    todo, found,    \* get_secrets: items not yet asked, the map so far
    secret_name_to_path,
    menu_revision,
    notified,       \* panel: a LayoutUpdated not yet acted upon
    shown,          \* panel: the layout on display
    keyring,        \* secrets service: the items that exist
    calls, edits,   \* bounded counters
    writes,         \* ghost: how often secret_name_to_path was replaced
    shownWrites,    \* ghost: the value of writes that shown is from
    fresh,          \* ghost: what the last Update click overlapped with
    skipped,        \* ghost: the items that it could not read
    clicks          \* ghost: number of secrets clicked

menu  == << secret_name_to_path, menu_revision, writes >>
panel == << notified, shown, shownWrites >>
local == << click, todo, found >>
vars  == << main, connection, channel, pc, local, menu, panel, keyring, calls,
            edits, fresh, skipped, clicks >>

-----------------------------------------------------------------------------
(* Maps from labels to paths, and the layout built from one.               *)

Labels       == { LabelOf[i] : i \in Items }
LabelsIn(S)  == { LabelOf[i] : i \in S }
Maps         == UNION { [L -> Items] : L \in SUBSET Labels }
NoSecrets    == [l \in {} |-> l]

(* Mutated form: the path is inserted as the key.                          *)
InsertSwapped(map, item) ==
    [l \in DOMAIN map \cup {item} |-> IF l = item THEN item ELSE map[l]]

(* BTreeMap::insert: a later item with the same label replaces the entry.  *)
Insert(map, item) ==
    [l \in DOMAIN map \cup {LabelOf[item]} |->
        IF l = LabelOf[item] THEN item ELSE map[l]]

(* keys().enumerate() and values().nth(n) go through the map in the order  *)
(* of its labels.                                                          *)
Rank(map, l)     == Cardinality({ k \in DOMAIN map : k < l })
HasNth(map, n)   == \E l \in DOMAIN map : Rank(map, l) = n
NthLabel(map, n) == CHOOSE l \in DOMAIN map : Rank(map, l) = n

(* obtain_layout_structure: the menu id of an entry is its index plus 1.   *)
MenuIds(map)      == { Rank(map, l) + 1 : l \in DOMAIN map }
Displayed(map, id) == NthLabel(map, id - 1)

(* Mutated form: the index is not made zero-based.                         *)
IndexFromOne(id) == id

(* event: the index of a secret from the menu id that was clicked.         *)
ActualIndex(id) == id - 1

NoClick == [id |-> 0, label |-> 0, serial |-> 0, writes |-> 0, item |-> 0]

-----------------------------------------------------------------------------
(* References and locks.                                                   *)

(* A task whose call was answered, or whose handler panicked, is free for  *)
(* the next call.                                                          *)
Free   == {"idle", "panicked"}
Active == { t \in Tasks : pc[t] \notin Free }

(* The awaits inside the scope of a read guard on SECRET_SESSION.          *)
Reading == {"u_search", "u_label", "c_fetch"}
Readers == { t \in Tasks : pc[t] \in Reading }

(* tokio's RwLock is fair: nobody reads past a writer that waits.          *)
SessionReadable == main \notin {"want_write", "draining"}

(* graceful_shutdown returns when the last reference to the connection is  *)
(* gone; until then the object server accepts calls.                       *)
ConnectionAlive == main \in {"loop", "want_write"} \/ Active # {}

-----------------------------------------------------------------------------

Init ==
    /\ main = "loop" /\ connection = TRUE
    /\ channel = <<>>
    /\ pc = [t \in Tasks |-> "idle"]
    /\ click = [t \in Tasks |-> NoClick]
    /\ todo = [t \in Tasks |-> {}]
    /\ found = [t \in Tasks |-> NoSecrets]
    /\ keyring = InitialKeyring
    /\ secret_name_to_path \in
            { m \in [LabelsIn(InitialKeyring) -> InitialKeyring] :
                \A l \in DOMAIN m : LabelOf[m[l]] = l }
    /\ menu_revision = 1
    /\ notified = TRUE /\ shown = NoSecrets
    /\ calls = 0 /\ edits = 0
    /\ writes = 0 /\ shownWrites = 0 /\ fresh = "stale" /\ clicks = 0
    /\ skipped = {}

-----------------------------------------------------------------------------
(* Method calls by the panel.                                              *)

Call(t, kind, to) ==
    /\ kind \in CallKinds /\ ConnectionAlive
    /\ pc[t] \in Free /\ calls < MaxCalls
    /\ calls' = calls + 1
    /\ pc' = [pc EXCEPT ![t] = to]
    /\ UNCHANGED << main, connection, channel, todo, found, menu, shown,
                    shownWrites, keyring, edits >>

(* get_layout, called after LayoutUpdated; the panel waits for the answer. *)
CallGetLayout(t) ==
    /\ Call(t, "layout", "l_clone")
    /\ notified /\ \A u \in Tasks : pc[u] \notin {"l_clone", "l_reply"}
    /\ notified' = FALSE
    /\ UNCHANGED << click, fresh, skipped, clicks >>

(* event on MENU_UPDATE_ID *)
CallUpdate(t) ==
    /\ Call(t, "update", "u_lock")
    /\ IF \E u \in Tasks :
            pc[u] \in {"u_lock", "u_search", "u_label", "u_write"}
       THEN fresh' = "overlapped" /\ UNCHANGED skipped
       ELSE fresh' = "alone" /\ skipped' = {}
    /\ UNCHANGED << click, notified, clicks >>

(* event on the menu id of a secret that is on display *)
CallSecret(t, id) ==
    /\ Call(t, "secret", "c_clone")
    /\ id \in MenuIds(shown)
    /\ clicks' = clicks + 1
    /\ click' = [click EXCEPT ![t] =
                    [id |-> id, label |-> Displayed(shown, id),
                     serial |-> clicks + 1, writes |-> shownWrites,
                     item |-> 0]]
    /\ UNCHANGED << notified, fresh, skipped >>

(* event on MENU_EXIT_ID: there is no await before the Exit is sent.       *)
CallExit(t) ==
    /\ "exit" \in CallKinds /\ ConnectionAlive
    /\ pc[t] \in Free /\ calls < MaxCalls
    /\ calls' = calls + 1
    /\ pc' = [pc EXCEPT ![t] = "reply"]
    /\ channel' = Append(channel, [kind |-> "exit", label |-> 0,
                                   wanted |-> 0, serial |-> 0])
    /\ UNCHANGED << main, connection, local, menu, panel, keyring, edits,
                    fresh, skipped, clicks >>

-----------------------------------------------------------------------------
(* Steps of the handlers.                                                  *)

Step(t, from, to) ==
    /\ pc[t] = from
    /\ pc' = [pc EXCEPT ![t] = to]
    /\ UNCHANGED << main, connection, keyring, calls, edits, fresh, clicks >>

Reply(t) ==
    /\ Step(t, "reply", "idle")
    /\ UNCHANGED << channel, local, menu, panel, skipped >>

(* get_layout: obtain_layout_structure clones the map, the reply carries   *)
(* the layout built from it.                                               *)
CloneForLayout(t) ==
    /\ Step(t, "l_clone", "l_reply")
    /\ found' = [found EXCEPT ![t] = secret_name_to_path]
    /\ click' = [click EXCEPT ![t].writes = writes]
    /\ UNCHANGED << channel, todo, menu, panel, skipped >>

LayoutReply(t) ==
    /\ Step(t, "l_reply", "idle")
    /\ shown' = found[t] /\ shownWrites' = click[t].writes
    /\ UNCHANGED << channel, local, menu, notified, skipped >>

(* event, MENU_UPDATE_ID: get_secrets under a read guard on the session.   *)
LockForUpdate(t) ==
    /\ SessionReadable
    /\ Step(t, "u_lock", "u_search")
    /\ UNCHANGED << channel, local, menu, panel, skipped >>

SearchItems(t) ==
    /\ Step(t, "u_search", "u_label")
    /\ todo' = [todo EXCEPT ![t] = keyring]
    /\ found' = [found EXCEPT ![t] = NoSecrets]
    /\ UNCHANGED << channel, click, menu, panel, skipped >>

(* Mutated form: a label that cannot be read is asked for again.           *)
RetryLabel(t, item) ==
    /\ item \in todo[t]
    /\ Step(t, "u_label", "u_label")
    /\ item \in keyring
    /\ todo' = [todo EXCEPT ![t] = @ \ {item}]
    /\ found' = [found EXCEPT ![t] = Insert(@, item)]
    /\ UNCHANGED << channel, click, menu, panel, skipped >>

(* An item whose label cannot be read is skipped, whatever the error: it   *)
(* was deleted since the search, or the service fails.                     *)
ReadLabel(t, item) ==
    /\ item \in todo[t]
    /\ Step(t, "u_label", "u_label")
    /\ todo' = [todo EXCEPT ![t] = @ \ {item}]
    /\ \/ /\ item \in keyring
          /\ found' = [found EXCEPT ![t] = Insert(@, item)]
          /\ UNCHANGED skipped
       \/ skipped' = skipped \cup {item} /\ UNCHANGED found
    /\ UNCHANGED << channel, click, menu, panel >>

EndSearch(t) ==
    /\ todo[t] = {}
    /\ Step(t, "u_label", "u_write")
    /\ UNCHANGED << channel, local, menu, panel, skipped >>

(* Mutated form: the new entries are added to the old ones.                *)
MergeSecrets(t) ==
    /\ Step(t, "u_write", "u_notify")
    /\ secret_name_to_path' =
            [l \in DOMAIN secret_name_to_path \cup DOMAIN found[t] |->
                IF l \in DOMAIN found[t] THEN found[t][l]
                ELSE secret_name_to_path[l]]
    /\ writes' = writes + 1
    /\ UNCHANGED << channel, local, menu_revision, panel, skipped >>

(* Mutated form: the panel is not told.                                    *)
StoreSilently(t) ==
    /\ Step(t, "u_write", "reply")
    /\ secret_name_to_path' = found[t]
    /\ writes' = writes + 1
    /\ UNCHANGED << channel, local, menu_revision, panel, skipped >>

StoreSecrets(t) ==
    /\ Step(t, "u_write", "u_notify")
    /\ secret_name_to_path' = found[t]
    /\ writes' = writes + 1
    /\ UNCHANGED << channel, local, menu_revision, panel, skipped >>

EmitLayoutUpdated(t) ==
    /\ Step(t, "u_notify", "reply")
    /\ menu_revision' = menu_revision + 1
    /\ notified' = TRUE
    /\ UNCHANGED << channel, local, secret_name_to_path, writes, shown,
                    shownWrites, skipped >>

(* event on a secret: the clone of the map, the nth path, and the secret   *)
(* of that path under a read guard on the session.                         *)
CloneForClick(t) ==
    LET n == ActualIndex(click[t].id)
        nth == NthLabel(secret_name_to_path, n)
    IN  /\ IF HasNth(secret_name_to_path, n)
           THEN /\ Step(t, "c_clone", "c_lock")
                /\ click' = [click EXCEPT ![t].item = secret_name_to_path[nth]]
           ELSE Step(t, "c_clone", "reply") /\ UNCHANGED click
        /\ UNCHANGED << channel, todo, found, menu, panel, skipped >>

LockForSecret(t) ==
    /\ SessionReadable
    /\ Step(t, "c_lock", "c_fetch")
    /\ UNCHANGED << channel, local, menu, panel, skipped >>

(* The secret came back and is a usable otpauth URL: the code is sent to   *)
(* the main task with no await in between.                                 *)
CopySecret(t) ==
    /\ click[t].item \in keyring
    /\ Step(t, "c_fetch", "reply")
    /\ channel' = Append(channel, [kind |-> "copy",
            label |-> LabelOf[click[t].item], wanted |-> click[t].label,
            serial |-> click[t].serial])
    /\ UNCHANGED << local, menu, panel, skipped >>

(* The item is gone, or its secret is not usable.                          *)
FailSecret(t) ==
    /\ Step(t, "c_fetch", "reply")
    /\ UNCHANGED << channel, local, menu, panel, skipped >>

(* The expects on the collection, on search_items and on the encoding of a *)
(* secret: zbus' executor catches the panic, which ends the task, so that  *)
(* its guard and its reference are dropped and nobody replies to its call. *)
(* The other handlers go on.                                               *)
Panic(t) ==
    /\ HandlersPanic /\ pc[t] \in {"u_search", "c_fetch"}
    /\ pc' = [pc EXCEPT ![t] = "panicked"]
    /\ fresh' = IF pc[t] = "u_search" THEN "stale" ELSE fresh
    /\ UNCHANGED << main, connection, channel, local, menu, panel, keyring,
                    calls, edits, skipped, clicks >>

Handler(t) ==
    \/ Reply(t) \/ CloneForLayout(t) \/ LayoutReply(t)
    \/ LockForUpdate(t) \/ SearchItems(t) \/ EndSearch(t)
    \/ \E item \in Items : ReadLabel(t, item)
    \/ StoreSecrets(t) \/ EmitLayoutUpdated(t)
    \/ CloneForClick(t) \/ LockForSecret(t)
    \/ CopySecret(t) \/ FailSecret(t) \/ Panic(t)

-----------------------------------------------------------------------------
(* The main task.                                                          *)

ReceiveCopy ==
    /\ main = "loop" /\ channel # <<>> /\ Head(channel).kind = "copy"
    /\ channel' = Tail(channel)
    /\ UNCHANGED << main, connection, pc, local, menu, panel,
                    keyring, calls, edits, fresh, skipped, clicks >>

(* Exit: the loop ends, main's own references are dropped, and main asks   *)
(* for the write guard on SECRET_SESSION.                                  *)
ReceiveExit ==
    /\ main = "loop" /\ channel # <<>> /\ Head(channel).kind = "exit"
    /\ channel' = Tail(channel)
    /\ main' = "want_write"
    /\ UNCHANGED << connection, pc, local, menu, panel, keyring,
                    calls, edits, fresh, skipped, clicks >>

(* Mutated form: the connection is taken without waiting for the readers.  *)
DropWithReaders ==
    /\ main = "want_write"
    /\ main' = "draining"
    /\ connection' = FALSE
    /\ UNCHANGED << channel, pc, local, menu, panel, keyring, calls,
                    edits, fresh, skipped, clicks >>

(* With the write guard, drop_connection takes the connection out of the   *)
(* session and awaits graceful_shutdown.                                   *)
DropConnection ==
    /\ main = "want_write" /\ Readers = {}
    /\ main' = "draining"
    /\ connection' = FALSE
    /\ UNCHANGED << channel, pc, local, menu, panel, keyring, calls,
                    edits, fresh, skipped, clicks >>

EndMain ==
    /\ main = "draining" /\ ~ConnectionAlive
    /\ main' = "ended"
    /\ UNCHANGED << connection, channel, pc, local, menu, panel,
                    keyring, calls, edits, fresh, skipped, clicks >>

Main == ReceiveCopy \/ ReceiveExit \/ DropConnection \/ EndMain

-----------------------------------------------------------------------------
(* The secrets service: the user adds or deletes an item.                  *)

EditKeyring(item) ==
    /\ edits < MaxEdits
    /\ edits' = edits + 1
    /\ keyring' = IF item \in keyring THEN keyring \ {item}
                  ELSE keyring \cup {item}
    /\ fresh' = "stale"
    /\ UNCHANGED << main, connection, channel, pc, local, menu, panel, calls,
                    skipped, clicks >>

-----------------------------------------------------------------------------

Next ==
    \/ \E t \in Tasks :
        \/ CallGetLayout(t) \/ CallUpdate(t) \/ CallExit(t)
        \/ \E id \in 1 .. Cardinality(Labels) : CallSecret(t, id)
        \/ Handler(t)
    \/ Main
    \/ \E item \in Items : EditKeyring(item)

Spec == Init /\ [][Next]_vars

(* The executor polls every task that is ready, the service and the bus    *)
(* answer, and so does the main task; nothing makes the panel call.        *)
Fairness == WF_vars(Main) /\ \A t \in Tasks : WF_vars(Handler(t))

FairSpec == Spec /\ Fairness

-----------------------------------------------------------------------------
(* Properties.                                                             *)

PCs == Reading \cup Free \cup { "reply", "l_clone", "l_reply", "u_lock",
                                "u_write", "u_notify", "c_clone", "c_lock" }
Clicks   == [id : Nat, label : Nat, serial : Nat, writes : Nat,
             item : Items \cup {0}]
Messages == [kind : {"copy", "exit"}, label : Nat, wanted : Nat, serial : Nat]

(* Types: every map of the menu takes labels to items with that label, a   *)
(* task is suspended at an await, main is in a state of its life.          *)
TypeOK ==
    /\ main \in {"loop", "want_write", "draining", "ended"}
    /\ connection \in BOOLEAN /\ channel \in Seq(Messages)
    /\ pc \in [Tasks -> PCs] /\ click \in [Tasks -> Clicks]
    /\ todo \in [Tasks -> SUBSET Items] /\ found \in [Tasks -> Maps]
    /\ secret_name_to_path \in Maps /\ shown \in Maps
    /\ menu_revision \in Nat /\ notified \in BOOLEAN
    /\ keyring \subseteq Items /\ calls \in Nat /\ edits \in Nat
    /\ writes \in Nat /\ shownWrites \in Nat /\ clicks \in Nat
    /\ fresh \in {"stale", "alone", "overlapped"} /\ skipped \subseteq Items

(* No handler is suspended inside get_secrets or get_secret, whose next    *)
(* use of the connection is an unwrap, once main has taken the connection  *)
(* out of the session.                                                     *)
NoUseAfterDrop == \A t \in Tasks : pc[t] \in Reading => connection

(* When no call is being handled and the panel has acted on the last       *)
(* LayoutUpdated, the layout on display is the map: however Updates and    *)
(* GetLayouts overlapped, no change went unannounced.                      *)
LayoutCurrent ==
    Active = {} /\ ~notified => shown = secret_name_to_path

(* A click on an entry of a layout that is still current resolves to the   *)
(* account under which that entry was displayed.                           *)
ClickResolves ==
    \A t \in Tasks :
        pc[t] = "c_clone" /\ click[t].writes = writes =>
            LET n == ActualIndex(click[t].id) IN
            /\ HasNth(secret_name_to_path, n)
            /\ NthLabel(secret_name_to_path, n) = click[t].label

(* Each label of some item of S is there, with such an item, and no other. *)
Lists(map, S) ==
    /\ DOMAIN map = LabelsIn(S)
    /\ \A l \in DOMAIN map : map[l] \in S /\ LabelOf[map[l]] = l

(* An Update that no other Update overlaps, with the keyring unchanged     *)
(* since the click, leaves the menu with exactly what is in the keyring,   *)
(* but for the items whose labels the service failed to give: those are    *)
(* left out, and no other, whoever shares a label with them.               *)
UpdateComplete ==
    Active = {} /\ fresh = "alone" =>
        Lists(secret_name_to_path, keyring \ skipped)

(* The same when the last Update began while another was under way.        *)
OverlappedUpdateComplete ==
    Active = {} /\ fresh = "overlapped" /\ skipped = {} =>
        Lists(secret_name_to_path, keyring)

(* The code sent for a click is that of the account that was displayed.    *)
ChosenAccountCopied ==
    \A i \in DOMAIN channel :
        channel[i].kind = "copy" => channel[i].label = channel[i].wanted

(* Codes reach the clipboard in the order of the clicks, so that the last  *)
(* choice is the one that stays.                                           *)
LastClickWins ==
    \A i, j \in DOMAIN channel :
        i < j /\ channel[i].kind = "copy" /\ channel[j].kind = "copy" =>
            channel[i].serial < channel[j].serial

(* A method call is answered, whatever the others do and even if they      *)
(* panic, unless its own handler panics, or waits for the session's lock,  *)
(* which main holds while it waits for the handlers.                       *)
CallsAnswered ==
    \A t \in Tasks :
        (pc[t] \notin Free) ~>
            \/ pc[t] \in Free
            \/ main = "draining" /\ pc[t] \in {"u_lock", "c_lock"}

(* The Exit item ends the program.                                         *)
ExitEnds ==
    (\E i \in DOMAIN channel : channel[i].kind = "exit") ~> (main = "ended")

(* Only one thing keeps main from ending after Exit, even if handlers      *)
(* panic: one that waits for the session's lock, which main holds while it *)
(* waits for the handlers.                                                 *)
StuckOnlyOnSessionLock ==
    (main = "want_write") ~>
        \/ main = "ended"
        \/ main = "draining" /\ \E t \in Tasks : pc[t] \in {"u_lock", "c_lock"}

=============================================================================
