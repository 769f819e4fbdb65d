------------------------------ MODULE Startup ------------------------------
(***************************************************************************)
(* The start of one-true-pairing, from the D-Bus connection to the loop,   *)
(* and the loop's branch that follows the icon hosts (one-true-pairing/    *)
(* src/main.rs): wait_for_object (dbus_utils.rs) for the secrets service,  *)
(* SecretSession::new (secrets/mod.rs), the menu, the Wayland registry,    *)
(* wait_for_object for the icon watcher, and the registration of the icon. *)
(*                                                                         *)
(* A step is what the program does between two awaits: one call on the bus *)
(* and what is made of its answer.  Calls to an owner that is gone fail,   *)
(* and every .expect on them ends the program.  The bus, the secrets       *)
(* service, its user and the desktop's panel are external.                 *)
(***************************************************************************)
EXTENDS SecretTransport, FiniteSets

CONSTANTS
    Collections,        \* paths of the service's collections, in order
    LabelOf,            \* their labels
    WantedLabel,        \* the collection named on the command line
    MaxServiceStarts,   \* bound: owners of org.freedesktop.secrets
    MaxWatcherStarts,   \* bound: owners of org.kde.StatusNotifierWatcher
    MaxLosses,          \* bound: collections deleted
    MaxPending          \* bound: signals of new hosts not yet read

ASSUME StartupAssumption ==
    /\ DOMAIN LabelOf = { Collections[i] : i \in DOMAIN Collections }
    /\ {MaxServiceStarts, MaxWatcherStarts, MaxLosses, MaxPending}
           \subseteq Nat

VARIABLES
    pc,                 \* where main is; a name while it waits for its owner
    waiting,            \* where wait_for_object is
    owner,              \* bus: the instance that owns each name, or Nobody
    starts,             \* bus: instances that there were of each name
    listening,          \* the name whose owner changes main listens to
    changes,            \* those changes, not yet read: is there an owner?
    accepted,           \* service: the algorithms it accepts
    existing, locked,   \* service: its collections, and the locked ones
    service_key,        \* service: the key of the session
    prompt,             \* service: state of the unlock prompt
    trying,             \* the algorithms not yet tried
    session_path,       \* the service instance of the session, or Nobody
    algo, aes_key,      \* the algorithm of the session and its key
    collections,        \* the collections not yet looked at
    collection_path,    \* the collection found
    completion,         \* what main knows of the prompt
    host,               \* panel: a host is registered with the watcher
    item,               \* panel: our icon is registered with the watcher
    new_host_stream,    \* StatusNotifierHostRegistered, not yet read
    subscribed,         \* main listens to these signals
    missed              \* ghost: signals sent before main listened

bus_vars     == << owner, starts, listening, changes >>
service_vars == << accepted, existing, locked, service_key, prompt >>
session_vars == << trying, session_path, algo, aes_key, collections,
                   collection_path, completion >>
icon_vars    == << host, item, new_host_stream, subscribed >>
vars == << pc, waiting, bus_vars, service_vars, session_vars, icon_vars,
           missed >>

Nobody  == 0
Nowhere == "nowhere"
Names   == {"secrets", "watcher"}
Present(name) == owner[name] # Nobody

(* Mutated form: the list of algorithms is the other way round.            *)
WeakerFirst == << Plain, Dh >>

(* The algorithms, the stronger first.                                     *)
Algorithms == << Dh, Plain >>

-----------------------------------------------------------------------------
Init ==
    /\ pc = "secrets" /\ waiting = "subscribe"
    /\ owner \in [Names -> {Nobody, 1}] /\ starts = owner
    /\ listening = Nowhere /\ changes = <<>>
    /\ accepted \in SUBSET {Dh, Plain}
    /\ existing = DOMAIN LabelOf /\ locked \in SUBSET existing
    /\ service_key = NoKey /\ prompt = "none"
    /\ trying = Algorithms /\ session_path = Nobody
    /\ algo = "none" /\ aes_key = NoKey
    /\ collections = <<>> /\ collection_path = Nowhere
    /\ completion = "none"
    /\ host \in BOOLEAN /\ (host => Present("watcher"))
    /\ item = FALSE /\ new_host_stream = 0 /\ subscribed = FALSE
    /\ missed = {}

Goto(step) == pc' = step /\ UNCHANGED waiting
Panic      == Goto("panicked")

-----------------------------------------------------------------------------
(* wait_for_object(pc), after which main goes on at `next`.                *)

Found(next) ==
    /\ pc' = next /\ waiting' = "subscribe"
    /\ listening' = Nowhere /\ changes' = <<>>

SubscribeToOwner ==
    /\ waiting = "subscribe"
    /\ listening' = pc /\ changes' = <<>>
    /\ waiting' = "query" /\ UNCHANGED pc

QueryOwner(next) ==
    /\ waiting = "query"
    /\ IF Present(pc)
       THEN Found(next)
       ELSE waiting' = "await" /\ UNCHANGED << pc, listening, changes >>

NextOwner(next) ==
    /\ waiting = "await" /\ changes # <<>>
    /\ IF Head(changes)
       THEN Found(next)
       ELSE changes' = Tail(changes) /\ UNCHANGED << pc, waiting, listening >>

(* Mutated form: the owner is asked for before its changes are listened to.*)
QueryThenListen(name, next) ==
    /\ pc = name
    /\ \/ /\ waiting = "subscribe"
          /\ IF Present(pc)
             THEN Found(next)
             ELSE waiting' = "query" /\ UNCHANGED << pc, listening, changes >>
       \/ /\ waiting = "query"
          /\ listening' = pc /\ changes' = <<>>
          /\ waiting' = "await" /\ UNCHANGED pc
       \/ NextOwner(next)
    /\ UNCHANGED << owner, starts, service_vars, session_vars, icon_vars,
                    missed >>

WaitForObject(name, next) ==
    /\ pc = name
    /\ SubscribeToOwner \/ QueryOwner(next) \/ NextOwner(next)
    /\ UNCHANGED << owner, starts, service_vars, session_vars, icon_vars,
                    missed >>

-----------------------------------------------------------------------------
(* SecretSession::new.                                                     *)

(* open_session fails: the next algorithm is tried, if there is one.       *)
AlgorithmRefused ==
    /\ pc = "open session"
    /\ Present("secrets") => Head(trying) \notin accepted
    /\ trying' = Tail(trying)
    /\ IF Len(trying) > 1 THEN Goto(pc) ELSE Panic
    /\ UNCHANGED << bus_vars, service_vars, session_path, algo, aes_key,
                    collections, collection_path, completion, icon_vars,
                    missed >>

AlgorithmAccepted ==
    LET tried == Head(trying) IN
    /\ pc = "open session" /\ Present("secrets") /\ tried \in accepted
    /\ \E x \in PrivateKeys, y \in ServicePrivateKeys :
       \E output \in ServiceOutputs(tried, y) :
            /\ OutputValid(tried, output)
            /\ aes_key' = AesKey(tried, x, output)
            /\ service_key' = ServiceKey(tried, GetSessionInput(tried, x), y)
    /\ algo' = tried /\ session_path' = owner["secrets"]
    /\ Goto("collections")
    /\ UNCHANGED << bus_vars, accepted, existing, locked, prompt, trying,
                    collections, collection_path, completion, icon_vars,
                    missed >>

(* An output that the algorithm does not take ends the program.            *)
OutputInvalid ==
    /\ pc = "open session" /\ Present("secrets") /\ Head(trying) \in accepted
    /\ \E output \in InvalidOutputs : ~OutputValid(Head(trying), output)
    /\ Panic
    /\ UNCHANGED << bus_vars, service_vars, session_vars, icon_vars, missed >>

(* Calls of the service whose failure ends the program.                    *)
Call(step, works) ==
    /\ pc = step
    /\ ~(Present("secrets") /\ works) => Panic
    /\ UNCHANGED << bus_vars, trying, session_path, algo, aes_key, icon_vars,
                    missed >>

ListCollections ==
    /\ Call("collections", TRUE)
    /\ IF Present("secrets")
       THEN /\ collections' = SelectSeq(Collections, LAMBDA c : c \in existing)
            /\ Goto("labels")
       ELSE UNCHANGED collections
    /\ UNCHANGED << service_vars, collection_path, completion >>

ReadCollectionLabel ==
    LET works == collections # <<>> /\ Head(collections) \in existing
        c == Head(collections)
    IN  /\ Call("labels", works)
        /\ IF ~Present("secrets") \/ ~works
           THEN UNCHANGED << collections, collection_path >>
           ELSE IF LabelOf[c] = WantedLabel
                THEN /\ collection_path' = c /\ Goto("locked")
                     /\ UNCHANGED collections
                ELSE /\ collections' = Tail(collections) /\ Goto(pc)
                     /\ UNCHANGED collection_path
        /\ UNCHANGED << service_vars, completion >>

CheckLocked ==
    LET works == collection_path \in existing IN
    /\ Call("locked", works)
    /\ Present("secrets") /\ works =>
           Goto(IF collection_path \in locked THEN "unlock" ELSE "get secrets")
    /\ UNCHANGED << service_vars, collections, collection_path, completion >>

(* The service unlocks the collection at once or wants the user prompted.  *)
RequestUnlock ==
    LET works == collection_path \in existing IN
    /\ Call("unlock", works)
    /\ IF Present("secrets") /\ works
       THEN \/ locked' = locked \ {collection_path} /\ Goto("get secrets")
               /\ UNCHANGED prompt
            \/ collection_path \in locked /\ prompt' = "created"
               /\ Goto("prompt") /\ UNCHANGED locked
       ELSE UNCHANGED << locked, prompt >>
    /\ UNCHANGED << accepted, existing, service_key, collections,
                    collection_path, completion >>

TriggerPrompt ==
    /\ Call("prompt", prompt = "created")
    /\ IF Present("secrets") /\ prompt = "created"
       THEN prompt' = "shown" /\ Goto("listen prompt")
       ELSE UNCHANGED prompt
    /\ UNCHANGED << accepted, existing, locked, service_key, collections,
                    collection_path, completion >>

ReceiveCompleted ==
    /\ pc = "listen prompt"
    /\ completion' = "listening" /\ Goto("await prompt")
    /\ UNCHANGED << bus_vars, service_vars, trying, session_path, algo,
                    aes_key, collections, collection_path, icon_vars, missed >>

(* Mutated form: a prompt that is dismissed is waited for on.              *)
AwaitUnlocked ==
    /\ pc = "await prompt" /\ completion = "completed"
    /\ Goto("get secrets")
    /\ UNCHANGED << bus_vars, service_vars, session_vars, icon_vars, missed >>

AwaitPrompt ==
    /\ pc = "await prompt" /\ completion \in {"completed", "dismissed"}
    /\ Goto("get secrets")
    /\ UNCHANGED << bus_vars, service_vars, session_vars, icon_vars, missed >>

(* get_secrets; a service may refuse to search a locked collection.        *)
GetSecrets ==
    LET works == collection_path \in existing IN
    /\ Call("get secrets", works)
    /\ Present("secrets") /\ works =>
           Goto("menu") \/ (collection_path \in locked /\ Panic)
    /\ UNCHANGED << service_vars, collections, collection_path, completion >>

-----------------------------------------------------------------------------
(* The rest of main, up to its loop.                                       *)

Call0(step) ==
    /\ pc = step
    /\ UNCHANGED << bus_vars, service_vars, session_vars, host, missed >>

ServeMenu ==
    /\ Call0("menu") /\ Goto("wayland")
    /\ UNCHANGED << item, new_host_stream, subscribed >>

ConnectWayland ==
    /\ Call0("wayland") /\ (Goto("watcher") \/ Panic)
    /\ UNCHANGED << item, new_host_stream, subscribed >>

(* The version of the protocol must be 0.                                  *)
CheckVersion ==
    /\ Call0("version")
    /\ (Present("watcher") /\ Goto("register")) \/ Panic
    /\ UNCHANGED << item, new_host_stream, subscribed >>

RegisterItem(next) ==
    IF Present("watcher") THEN item' = TRUE /\ Goto(next)
                          ELSE UNCHANGED item /\ Panic

RegisterIcon ==
    /\ Call0("register") /\ RegisterItem("listen hosts")
    /\ UNCHANGED << new_host_stream, subscribed >>

ListenForHosts ==
    /\ Call0("listen hosts") /\ Goto("loop")
    /\ subscribed' = TRUE
    /\ UNCHANGED << item, new_host_stream >>

(* Mutated form: a new host is noted, but the icon not registered again.   *)
NewHostNoted ==
    /\ Call0("loop") /\ new_host_stream > 0
    /\ new_host_stream' = new_host_stream - 1
    /\ Goto(pc)
    /\ UNCHANGED << item, subscribed >>

(* Mutated form: the branch is taken without a signal.                     *)
NewHostAlways ==
    /\ Call0("loop")
    /\ new_host_stream' = new_host_stream - 1
    /\ RegisterItem(pc)
    /\ UNCHANGED subscribed

(* The branch of select! on new_host_stream.                               *)
NewHost ==
    /\ Call0("loop") /\ new_host_stream > 0
    /\ new_host_stream' = new_host_stream - 1
    /\ RegisterItem(pc)
    /\ UNCHANGED subscribed

Main ==
    \/ WaitForObject("secrets", "open session")
    \/ AlgorithmRefused \/ AlgorithmAccepted \/ OutputInvalid
    \/ ListCollections \/ ReadCollectionLabel
    \/ CheckLocked \/ RequestUnlock
    \/ TriggerPrompt \/ ReceiveCompleted \/ AwaitPrompt
    \/ GetSecrets \/ ServeMenu \/ ConnectWayland
    \/ WaitForObject("watcher", "version")
    \/ CheckVersion \/ RegisterIcon \/ ListenForHosts \/ NewHost

-----------------------------------------------------------------------------
(* The bus, the service and its user, and the panel (external).            *)

OwnerChanges(name, instance) ==
    /\ owner' = [owner EXCEPT ![name] = instance]
    /\ changes' = IF listening = name
                  THEN Append(changes, instance # Nobody) ELSE changes
    /\ UNCHANGED << pc, waiting, listening, accepted, existing, service_key,
                    session_vars, new_host_stream, subscribed, missed >>

Starts(name, max) ==
    /\ ~Present(name) /\ starts[name] < max
    /\ starts' = [starts EXCEPT ![name] = @ + 1]
    /\ OwnerChanges(name, starts[name] + 1)

(* A service that starts has everything locked and no prompts.             *)
ServiceStarts ==
    /\ Starts("secrets", MaxServiceStarts)
    /\ locked' = existing
    /\ UNCHANGED << prompt, host, item >>

ServiceExits ==
    /\ Present("secrets") /\ OwnerChanges("secrets", Nobody)
    /\ prompt' = "gone"
    /\ UNCHANGED << starts, locked, host, item >>

CollectionDeleted(c) ==
    /\ Present("secrets")
    /\ Cardinality(DOMAIN LabelOf) - Cardinality(existing) < MaxLosses
    /\ existing' = existing \ {c} /\ locked' = locked \ {c}
    /\ UNCHANGED << pc, waiting, bus_vars, accepted, service_key, prompt,
                    session_vars, icon_vars, missed >>

(* The user answers the prompt, which the service signals.                 *)
AnswerPrompt(answer) ==
    /\ prompt = "shown"
    /\ prompt' = "answered"
    /\ locked' = IF answer = "completed" THEN locked \ {collection_path}
                                         ELSE locked
    /\ IF completion = "listening"
       THEN completion' = answer /\ UNCHANGED missed
       ELSE missed' = missed \cup {"prompt"} /\ UNCHANGED completion
    /\ UNCHANGED << pc, waiting, bus_vars, accepted, existing, service_key,
                    trying, session_path, algo, aes_key, collections,
                    collection_path, icon_vars >>

(* A watcher that starts knows neither hosts nor items.                    *)
WatcherStarts ==
    /\ Starts("watcher", MaxWatcherStarts)
    /\ UNCHANGED << locked, prompt, host, item >>

WatcherExits ==
    /\ Present("watcher") /\ OwnerChanges("watcher", Nobody)
    /\ host' = FALSE /\ item' = FALSE
    /\ UNCHANGED << starts, locked, prompt >>

HostRegisters ==
    /\ Present("watcher") /\ ~host /\ new_host_stream < MaxPending
    /\ host' = TRUE
    /\ IF subscribed
       THEN new_host_stream' = new_host_stream + 1 /\ UNCHANGED missed
       ELSE /\ missed' = IF pc = "listen hosts" THEN missed \cup {"host"}
                                                ELSE missed
            /\ UNCHANGED new_host_stream
    /\ UNCHANGED << pc, waiting, bus_vars, service_vars, session_vars, item,
                    subscribed >>

HostLeaves ==
    /\ host /\ host' = FALSE
    /\ UNCHANGED << pc, waiting, bus_vars, service_vars, session_vars, item,
                    new_host_stream, subscribed, missed >>

Desktop ==
    \/ ServiceStarts \/ ServiceExits
    \/ \E c \in existing : CollectionDeleted(c)
    \/ \E answer \in {"completed", "dismissed"} : AnswerPrompt(answer)
    \/ WatcherStarts \/ WatcherExits \/ HostRegisters \/ HostLeaves

Next == Main \/ Desktop

Spec == Init /\ [][Next]_vars

(* main is polled whenever it can go on; nothing is assumed of the others. *)
Fairness == WF_vars(Main)

FairSpec == Spec /\ Fairness

-----------------------------------------------------------------------------
(* Properties.                                                             *)

Steps == Names \cup
    {"open session", "collections", "labels", "locked", "unlock", "prompt",
     "listen prompt", "await prompt", "get secrets", "menu", "wayland",
     "version", "register", "listen hosts", "loop", "panicked"}

(* Types.                                                                  *)
StartupTypeOK ==
    /\ pc \in Steps /\ waiting \in {"subscribe", "query", "await"}
    /\ owner \in [Names -> Nat] /\ starts \in [Names -> Nat]
    /\ listening \in Names \cup {Nowhere} /\ changes \in Seq(BOOLEAN)
    /\ accepted \subseteq {Dh, Plain}
    /\ existing \subseteq DOMAIN LabelOf /\ locked \subseteq existing
    /\ prompt \in {"none", "created", "shown", "answered", "gone"}
    /\ session_path \in Nat /\ algo \in {"none", Dh, Plain}
    /\ collection_path \in DOMAIN LabelOf \cup {Nowhere}
    /\ completion \in {"none", "listening", "completed", "dismissed"}
    /\ {host, item, subscribed} \subseteq BOOLEAN /\ new_host_stream \in Nat
    /\ missed \subseteq {"prompt", "host"}

(* However the owner of a name comes and goes around the subscription and  *)
(* the query ("this prevents a race condition", dbus_utils.rs:14): while   *)
(* wait_for_object awaits the stream, an owner that is there has been      *)
(* announced on it.                                                        *)
OwnerNotMissed ==
    pc \in Names /\ waiting = "await" /\ Present(pc) =>
        \E i \in DOMAIN changes : changes[i]

(* Whatever keys the two sides drew, and whether or not the service strips *)
(* leading zeros from what it sends, a secret encoded in our session       *)
(* decodes to itself.                                                      *)
SessionKeysAgree ==
    algo # "none" /\ session_path = owner["secrets"] =>
        LET text == << "otpauth" >> IN
        DecodeSecret(algo, aes_key, EncodeSecret(algo, service_key, text))
            = << "some", text >>

(* The plain algorithm is used only when the service refused the stronger  *)
(* one, unless the service was restarted between the two attempts.         *)
StrongestAlgorithm ==
    algo = Plain /\ starts["secrets"] = 1 => Dh \notin accepted

(* Whatever watchers and hosts come and go, once every signal is read a    *)
(* panel that has a host has our icon, unless the host registered between  *)
(* our registration and our subscription.                                  *)
IconKept ==
    pc = "loop" /\ new_host_stream = 0 /\ host /\ "host" \notin missed => item

(* main waits for nobody but an owner that is not there or a user who has  *)
(* not answered (or whose answer it missed).                               *)
WaitsForOthers ==
    \/ pc \in {"loop", "panicked"}
    \/ pc \in Names /\ ~Present(pc)
    \/ pc = "await prompt" /\ (prompt \in {"shown", "gone"} \/ "prompt" \in missed)

(* The start does not hang: whatever the bus and the service do, main gets *)
(* to its loop, ends, or waits for another party.                          *)
StartupProgresses == <>[]WaitsForOthers

=============================================================================
