----------------------------- MODULE Clipboard -----------------------------
(***************************************************************************)
(* The main loop of one-true-pairing (one-true-pairing/src/main.rs) from   *)
(* the moment get_registry has been sent: the tokio::select! over the      *)
(* channel of clipboard messages and the Wayland connection, the record    *)
(* WaylandData, and the three handlers wayland_dispatch, copy_dispatch and *)
(* clear_dispatch.                                                         *)
(*                                                                         *)
(* The handlers run to completion on the one main task, so each is one     *)
(* action; the packets they send are queued and the compositor reads them  *)
(* one at a time, so every interleaving of the two ends of the socket is a *)
(* behaviour.  The compositor and the other Wayland clients are external:  *)
(* they are modelled by the part of wl_registry and ext_data_control_v1    *)
(* that the client relies on.                                              *)
(*                                                                         *)
(* A one-time code is the number of the click that asked for it, so that   *)
(* "newer" means something; an object id is its number on the wire, and    *)
(* None is 0, which is what Option<ObjectId>::None is on the wire.         *)
(***************************************************************************)
EXTENDS Naturals, Sequences, FiniteSets

CONSTANTS
    IdSpace,        \* number of values of an object id (2^32 on the wire)
    ServerIdBase,   \* first id of the compositor's range (0xFF000000)
    MenuKinds,      \* kinds of ClipboardMessage that the menu sends
    PasteTypes,     \* MIME types other clients ask for
    ReadersVanish,  \* may another client close its pipe before we write?
    MaxCopies,      \* bound: Copy messages sent
    MaxGlobals,     \* bound: globals announced
    MaxTakeovers,   \* bound: copies by other clients
    MaxPastes,      \* bound: pastes by other clients
    MaxSeatLosses   \* bound: 1 if the bound seat may be unplugged, else 0

ASSUME IdsAssumption ==
    /\ IdSpace \in Nat /\ ServerIdBase \in Nat
    /\ ServerIdBase < IdSpace
    /\ MaxCopies \in Nat /\ MaxCopies + 6 < ServerIdBase

ASSUME KindsAssumption ==
    /\ MenuKinds \subseteq {"copy", "clear", "exit"}
    /\ ReadersVanish \in BOOLEAN

ASSUME BoundsAssumption ==
    /\ MaxGlobals \in Nat /\ MaxTakeovers \in Nat
    /\ MaxPastes \in Nat /\ MaxSeatLosses \in Nat

None       == 0
DISPLAY    == 1
RegistryId == 2

(***************************************************************************)
(* The MIME types under which a code is offered and served.                *)
(***************************************************************************)
PLAIN_TEXT_MIME_TYPES_SORTED ==
    << "STRING", "TEXT", "UTF8_STRING", "text/plain",
       "text/plain;charset=utf-8" >>

PlainTextTypes ==
    { PLAIN_TEXT_MIME_TYPES_SORTED[i] :
        i \in DOMAIN PLAIN_TEXT_MIME_TYPES_SORTED }

VARIABLES
    loop,                   \* "running", "stopped" or "panicked"
    channel,                \* clipboard_receiver: queued ClipboardMessages
    nextObjectId,           \* Connection::next_object_id
    seat_id, clipboard_manager_id, clipboard_device_id,
    clipboard_data, clipboard_source_id, incoming_offer_id,
    toServer, toClient,     \* the two directions of the Wayland socket
    objects,                \* compositor: interface of each client id
    used,                   \* compositor: sources given to set_selection
    offered,                \* compositor: <<source, MIME type>> pairs
    selection,              \* compositor: our selected source, or None
    offers,                 \* compositor: data offers created
    globals,                \* compositor: globals announced
    seatLost,               \* compositor: the bound seat is gone
    takeovers,              \* copies made by other clients
    pastes,                 \* pastes requested from us: one fd each
    clicks, copied,         \* Copy messages sent / dispatched
    claim                   \* ghost: how the last claim was made

wayland_data == << seat_id, clipboard_manager_id, clipboard_device_id,
                   clipboard_data, clipboard_source_id, incoming_offer_id >>
compositor   == << objects, used, offered, selection, offers, globals,
                   seatLost, takeovers >>
user         == << clicks, copied, claim >>
vars         == << loop, channel, nextObjectId, wayland_data, toServer,
                   toClient, compositor, pastes, user >>

-----------------------------------------------------------------------------
(* Packets.                                                                *)

Bind(id, iface) ==
    [op |-> "bind", obj |-> RegistryId, id |-> id, iface |-> iface]
GetDataDevice(manager, id, seat) ==
    [op |-> "get_data_device", obj |-> manager, id |-> id, seat |-> seat]
CreateDataSource(manager, id) ==
    [op |-> "create_data_source", obj |-> manager, id |-> id]
Offer(source, mime) ==
    [op |-> "offer", obj |-> source, mime |-> mime]
SetSelection(device, source) ==
    [op |-> "set_selection", obj |-> device, source |-> source]
Destroy(source) ==
    [op |-> "destroy", obj |-> source]

Event(obj, ev, arg) ==
    [obj |-> obj, ev |-> ev, arg |-> arg, iface |-> "none"]
Global(iface) ==
    [obj |-> RegistryId, ev |-> "global", arg |-> None, iface |-> iface]

Interfaces == {"wl_seat", "ext_data_control_manager_v1", "wl_output"}

-----------------------------------------------------------------------------
(* Init: main has connected and sent get_registry.  The menu has been on   *)
(* the bus since before the connection, so messages may come at any time.  *)

Init ==
    /\ loop = "running" /\ channel = <<>>
    /\ nextObjectId = RegistryId + 1
    /\ seat_id = None /\ clipboard_manager_id = None
    /\ clipboard_device_id = None /\ clipboard_data = None
    /\ clipboard_source_id = None /\ incoming_offer_id = None
    /\ toServer = << [op |-> "get_registry", obj |-> DISPLAY,
                      id |-> RegistryId] >>
    /\ toClient = <<>>
    /\ objects = <<"wl_display">> /\ used = {} /\ offered = {}
    /\ selection = None /\ offers = 0 /\ globals = <<>>
    /\ seatLost = FALSE /\ takeovers = 0
    /\ pastes = <<>>
    /\ clicks = 0 /\ copied = 0 /\ claim = "none"

-----------------------------------------------------------------------------
(* get_and_increment_next_object_id: fetch_add on a u32, retried on 0.     *)

NewObjectId(n)    == IF n = 0 THEN 1 ELSE n
NextObjectId(n)   == (NewObjectId(n) + 1) % IdSpace

(* Mutated form: it gives up only when both objects are missing.           *)
ObtainWithEither(manager, seat, sent, n) ==
    IF manager = None /\ seat = None
    THEN /\ toServer' = toServer \o sent
         /\ nextObjectId' = n
         /\ UNCHANGED clipboard_device_id
    ELSE /\ toServer' = toServer \o sent \o << GetDataDevice(manager, n, seat) >>
         /\ nextObjectId' = NextObjectId(n)
         /\ clipboard_device_id' = n

(* Mutated form: the device's id is used without being consumed.           *)
ObtainKeepsId(manager, seat, sent, n) ==
    IF manager = None \/ seat = None
    THEN /\ toServer' = toServer \o sent
         /\ nextObjectId' = n
         /\ UNCHANGED clipboard_device_id
    ELSE /\ toServer' = toServer \o sent \o << GetDataDevice(manager, n, seat) >>
         /\ nextObjectId' = n
         /\ clipboard_device_id' = n

(* obtain_data_device_if_ready, called at the end of the handling of a     *)
(* global: `sent` is what the caller has sent, n the value of the counter. *)
ObtainDataDeviceIfReady(manager, seat, sent, n) ==
    IF manager = None \/ seat = None
    THEN /\ toServer' = toServer \o sent
         /\ nextObjectId' = n
         /\ UNCHANGED clipboard_device_id
    ELSE /\ toServer' = toServer \o sent
                \o << GetDataDevice(manager, NewObjectId(n), seat) >>
         /\ nextObjectId' = NextObjectId(n)
         /\ clipboard_device_id' = NewObjectId(n)

(* The packets with which copy_dispatch publishes a new source.            *)
OfferAll(source) ==
    [i \in DOMAIN PLAIN_TEXT_MIME_TYPES_SORTED |->
        Offer(source, PLAIN_TEXT_MIME_TYPES_SORTED[i])]

(* Mutated form: set_selection goes out before the offers.                 *)
SelectThenOffer(source) ==
    << CreateDataSource(clipboard_manager_id, source),
       SetSelection(clipboard_device_id, source) >> \o OfferAll(source)

(* Mutated form: set_selection is never sent.                              *)
OfferWithoutSelect(source) ==
    << CreateDataSource(clipboard_manager_id, source) >> \o OfferAll(source)

PublishSource(source) ==
    << CreateDataSource(clipboard_manager_id, source) >> \o OfferAll(source)
        \o << SetSelection(clipboard_device_id, source) >>

NewSource ==
    LET source == NewObjectId(nextObjectId) IN
    /\ nextObjectId' = NextObjectId(nextObjectId)
    /\ toServer' = toServer \o PublishSource(source)
    /\ clipboard_source_id' = source

CannotPublish == clipboard_manager_id = None \/ clipboard_device_id = None

(* Mutated form: an existing source returns before the code is stored.     *)
CopyStoresLate(code) ==
    IF clipboard_source_id # None
    THEN UNCHANGED << clipboard_data, nextObjectId, toServer,
                      clipboard_source_id >>
    ELSE /\ clipboard_data' = code
         /\ IF CannotPublish
            THEN UNCHANGED << nextObjectId, toServer, clipboard_source_id >>
            ELSE NewSource

(* Mutated form: a new source for every code.                              *)
CopyAlwaysCreates(code) ==
    /\ clipboard_data' = code
    /\ IF CannotPublish
       THEN UNCHANGED << nextObjectId, toServer, clipboard_source_id >>
       ELSE NewSource

(* copy_dispatch *)
CopyDispatch(code) ==
    /\ clipboard_data' = code
    /\ IF clipboard_source_id # None \/ CannotPublish
       THEN UNCHANGED << nextObjectId, toServer, clipboard_source_id >>
       ELSE NewSource

(* Mutated form: the destroyed source is not forgotten.                    *)
ClearKeepsSource ==
    /\ clipboard_data' = None
    /\ UNCHANGED clipboard_source_id
    /\ toServer' = IF clipboard_source_id = None THEN toServer
                   ELSE Append(toServer, Destroy(clipboard_source_id))

(* clear_dispatch *)
ClearDispatch ==
    /\ clipboard_data' = None
    /\ clipboard_source_id' = None
    /\ toServer' = IF clipboard_source_id = None THEN toServer
                   ELSE Append(toServer, Destroy(clipboard_source_id))

-----------------------------------------------------------------------------
(* The select! branch on clipboard_receiver.recv().                        *)

Receive(kind) ==
    /\ loop = "running" /\ channel # <<>> /\ Head(channel).kind = kind
    /\ channel' = Tail(channel)
    /\ UNCHANGED << seat_id, clipboard_manager_id, clipboard_device_id,
                    incoming_offer_id, toClient, compositor, pastes, clicks >>

(* The compositor has already taken the selection from the source that the *)
(* client still believes to be selected.                                   *)
CancelInFlight ==
    \E i \in DOMAIN toClient :
        /\ toClient[i].ev = "cancelled"
        /\ toClient[i].obj = clipboard_source_id

(* Mutated form: Exit does not leave the loop.                             *)
ExitContinues ==
    /\ Receive("exit")
    /\ UNCHANGED << loop, nextObjectId, clipboard_data, clipboard_source_id,
                    toServer, copied, claim >>

ReceiveExit ==
    /\ Receive("exit")
    /\ loop' = "stopped"
    /\ UNCHANGED << nextObjectId, clipboard_data, clipboard_source_id,
                    toServer, copied, claim >>

ReceiveCopy ==
    /\ Receive("copy")
    /\ CopyDispatch(Head(channel).code)
    /\ copied' = Head(channel).code
    /\ claim' = CASE clipboard_device_id = None -> "early"
                  [] CancelInFlight           -> "raced"
                  [] OTHER                    -> "ours"
    /\ UNCHANGED loop

ReceiveClear ==
    /\ Receive("clear")
    /\ ClearDispatch
    /\ claim' = "none"
    /\ UNCHANGED << loop, nextObjectId, copied >>

-----------------------------------------------------------------------------
(* The select! branch on way_conn.recv_packet(): wayland_dispatch.         *)

(* The chain of comparisons that finds the object an event is for.         *)
Recipient(id) ==
    IF id = DISPLAY                   THEN "wl_display"
    ELSE IF id = RegistryId           THEN "wl_registry"
    ELSE IF id = clipboard_source_id  THEN "ext_data_control_source_v1"
    ELSE IF id = seat_id              THEN "wl_seat"
    ELSE IF id = clipboard_device_id  THEN "ext_data_control_device_v1"
    ELSE IF id = clipboard_manager_id THEN "ext_data_control_manager_v1"
    ELSE IF id = incoming_offer_id    THEN "ext_data_control_offer_v1"
    ELSE "unknown"

(* recv_packet returns an event without arguments only when more arrives.  *)
FirstReceived ==
    Head(toClient).ev \in {"cancelled", "finished"} => Len(toClient) > 1

Dispatch(recipients) ==
    /\ loop = "running" /\ toClient # <<>> /\ FirstReceived
    /\ Recipient(Head(toClient).obj) \in recipients
    /\ toClient' = Tail(toClient)
    /\ UNCHANGED << channel, compositor, clicks, copied, claim >>

GlobalSeat ==
    /\ Dispatch({"wl_registry"}) /\ Head(toClient).ev = "global"
    /\ Head(toClient).iface = "wl_seat"
    /\ IF seat_id # None
       THEN UNCHANGED << seat_id, clipboard_device_id, toServer, nextObjectId >>
       ELSE LET id == NewObjectId(nextObjectId) IN
            /\ seat_id' = id
            /\ ObtainDataDeviceIfReady(clipboard_manager_id, id,
                   << Bind(id, "wl_seat") >>, NextObjectId(nextObjectId))
    /\ UNCHANGED << loop, clipboard_manager_id, clipboard_data,
                    clipboard_source_id, incoming_offer_id, pastes >>

(* Mutated form: only the seat's handler asks for the device.              *)
ManagerObtainsNothing ==
    /\ Dispatch({"wl_registry"}) /\ Head(toClient).ev = "global"
    /\ Head(toClient).iface = "ext_data_control_manager_v1"
    /\ IF clipboard_manager_id # None
       THEN UNCHANGED << clipboard_manager_id, toServer, nextObjectId >>
       ELSE /\ clipboard_manager_id' = nextObjectId
            /\ toServer' = Append(toServer,
                   Bind(nextObjectId, "ext_data_control_manager_v1"))
            /\ nextObjectId' = NextObjectId(nextObjectId)
    /\ UNCHANGED << loop, seat_id, clipboard_device_id, clipboard_data,
                    clipboard_source_id, incoming_offer_id, pastes >>

GlobalManager ==
    /\ Dispatch({"wl_registry"}) /\ Head(toClient).ev = "global"
    /\ Head(toClient).iface = "ext_data_control_manager_v1"
    /\ IF clipboard_manager_id # None
       THEN UNCHANGED << clipboard_manager_id, clipboard_device_id, toServer,
                         nextObjectId >>
       ELSE LET id == NewObjectId(nextObjectId) IN
            /\ clipboard_manager_id' = id
            /\ ObtainDataDeviceIfReady(id, seat_id,
                   << Bind(id, "ext_data_control_manager_v1") >>,
                   NextObjectId(nextObjectId))
    /\ UNCHANGED << loop, seat_id, clipboard_data, clipboard_source_id,
                    incoming_offer_id, pastes >>

(* Mutated form: a descriptor is closed only after something was written.  *)
SendClosesIfWritten ==
    LET e == Head(toClient)
        writes == pastes[e.arg].mime \in PlainTextTypes /\ clipboard_data # None
    IN  /\ Dispatch({"ext_data_control_source_v1"}) /\ e.ev = "send"
        /\ pastes' = IF writes
                     THEN [pastes EXCEPT ![e.arg].fd = "closed",
                                         ![e.arg].got = clipboard_data]
                     ELSE pastes
        /\ UNCHANGED << loop, nextObjectId, wayland_data, toServer >>

(* ext_data_control_source_v1::send.  The write fails with EPIPE when the  *)
(* reader is gone, and .expect makes that a panic of the main task.        *)
SourceSend ==
    LET e == Head(toClient)
        writes == pastes[e.arg].mime \in PlainTextTypes /\ clipboard_data # None
    IN  /\ Dispatch({"ext_data_control_source_v1"}) /\ e.ev = "send"
        /\ IF writes /\ pastes[e.arg].gone
           THEN loop' = "panicked" /\ UNCHANGED pastes
           ELSE /\ pastes' = [pastes EXCEPT ![e.arg].fd = "closed",
                     ![e.arg].got = IF writes THEN clipboard_data ELSE None]
                /\ UNCHANGED loop
        /\ UNCHANGED << nextObjectId, wayland_data, toServer >>

(* Mutated form: the data is dropped but the source id is kept.            *)
CancelledKeepsSource ==
    /\ Dispatch({"ext_data_control_source_v1"})
    /\ Head(toClient).ev = "cancelled"
    /\ clipboard_data' = None
    /\ UNCHANGED << loop, nextObjectId, seat_id, clipboard_manager_id,
                    clipboard_device_id, clipboard_source_id,
                    incoming_offer_id, toServer, pastes >>

(* ext_data_control_source_v1::cancelled *)
SourceCancelled ==
    /\ Dispatch({"ext_data_control_source_v1"}) /\ Head(toClient).ev = "cancelled"
    /\ clipboard_data' = None
    /\ clipboard_source_id' = None
    /\ UNCHANGED << loop, nextObjectId, seat_id, clipboard_manager_id,
                    clipboard_device_id, incoming_offer_id, toServer, pastes >>

(* ext_data_control_device_v1::data_offer *)
DeviceDataOffer ==
    /\ Dispatch({"ext_data_control_device_v1"}) /\ Head(toClient).ev = "data_offer"
    /\ incoming_offer_id' = Head(toClient).arg
    /\ UNCHANGED << loop, nextObjectId, seat_id, clipboard_manager_id,
                    clipboard_device_id, clipboard_data, clipboard_source_id,
                    toServer, pastes >>

(* Every other event is only logged.  An event for an object that          *)
(* WaylandData no longer names is logged as unhandled; the descriptor of a *)
(* send among them is never closed.                                        *)
LogEvent ==
    /\ \/ Dispatch({"wl_display", "wl_seat", "ext_data_control_offer_v1",
                    "unknown"})
       \/ /\ Dispatch({"wl_registry"})
          /\ \/ Head(toClient).ev # "global"
             \/ Head(toClient).iface \notin {"wl_seat",
                                             "ext_data_control_manager_v1"}
       \/ Dispatch({"ext_data_control_device_v1"}) /\ Head(toClient).ev # "data_offer"
    /\ pastes' = IF Head(toClient).ev = "send"
                 THEN [pastes EXCEPT ![Head(toClient).arg].fd = "leaked"]
                 ELSE pastes
    /\ UNCHANGED << loop, nextObjectId, wayland_data, toServer >>

WaylandDispatch ==
    \/ GlobalSeat \/ GlobalManager
    \/ SourceSend \/ SourceCancelled
    \/ DeviceDataOffer \/ LogEvent

-----------------------------------------------------------------------------
(* The menu: the D-Bus handlers of ContextMenu hold clones of the sender.  *)

SendCopy ==
    /\ "copy" \in MenuKinds /\ clicks < MaxCopies
    /\ clicks' = clicks + 1
    /\ channel' = Append(channel, [kind |-> "copy", code |-> clicks + 1])
    /\ UNCHANGED << loop, nextObjectId, wayland_data, toServer, toClient,
                    compositor, pastes, copied, claim >>

(* At most one message of each of the other kinds is waiting.              *)
SendOther(kind) ==
    /\ kind \in MenuKinds
    /\ \A i \in DOMAIN channel : channel[i].kind # kind
    /\ channel' = Append(channel, [kind |-> kind, code |-> None])
    /\ UNCHANGED << loop, nextObjectId, wayland_data, toServer, toClient,
                    compositor, pastes, user >>

SendExit  == SendOther("exit")
SendClear == SendOther("clear")

-----------------------------------------------------------------------------
(* The compositor (external).                                              *)

(* The events that tell our device of a new selection owned by another     *)
(* client or by us; offer objects take ids from the compositor's range.    *)
Device == { i \in DOMAIN objects : objects[i] = "ext_data_control_device_v1" }
Announcement ==
    LET id  == ServerIdBase + offers
        dev == CHOOSE i \in Device : TRUE
    IN  IF Device = {} \/ seatLost THEN <<>>
        ELSE << Event(dev, "data_offer", id), Event(id, "offer", None),
                Event(dev, "selection", id) >>

CancelSelected ==
    IF selection = None THEN <<>> ELSE << Event(selection, "cancelled", None) >>

(* What the protocol demands of a request when the compositor reads it: a  *)
(* live object with that request, new ids without gaps, no offer after     *)
(* set_selection, and a source that was not used before.                   *)
InterfaceOf(op) ==
    CASE op = "get_registry"                             -> "wl_display"
      [] op = "bind"                                     -> "wl_registry"
      [] op \in {"get_data_device", "create_data_source"}
                                       -> "ext_data_control_manager_v1"
      [] op \in {"offer", "destroy"}   -> "ext_data_control_source_v1"
      [] op = "set_selection"          -> "ext_data_control_device_v1"

Creates == [get_registry |-> "wl_registry",
            get_data_device |-> "ext_data_control_device_v1",
            create_data_source |-> "ext_data_control_source_v1"]

Legal(r) ==
    /\ r.obj \in DOMAIN objects /\ objects[r.obj] = InterfaceOf(r.op)
    /\ r.op \in {"bind"} \cup DOMAIN Creates => r.id = Len(objects) + 1
    /\ r.op = "get_data_device" =>
            r.seat \in DOMAIN objects /\ objects[r.seat] = "wl_seat"
    /\ r.op = "offer" => r.obj \notin used
    /\ r.op = "set_selection" =>
            /\ r.source \in DOMAIN objects \ used
            /\ objects[r.source] = "ext_data_control_source_v1"

ServerRead(ops) ==
    /\ toServer # <<>> /\ Head(toServer).op \in ops /\ Legal(Head(toServer))
    /\ toServer' = Tail(toServer)
    /\ UNCHANGED << loop, channel, nextObjectId, wayland_data, globals,
                    seatLost, takeovers, pastes, user >>

ServerCreate ==
    LET r == Head(toServer) IN
    /\ ServerRead(DOMAIN Creates)
    /\ objects' = Append(objects, Creates[r.op])
    /\ IF r.op = "get_data_device"
       THEN /\ toClient' = Append(toClient,
                   Event(r.id, IF seatLost THEN "finished" ELSE "selection",
                         None))
       ELSE UNCHANGED toClient
    /\ UNCHANGED << used, offered, selection, offers >>

ServerBind ==
    LET r == Head(toServer) IN
    /\ ServerRead({"bind"})
    /\ objects' = Append(objects, r.iface)
    /\ toClient' = IF r.iface = "wl_seat"
                   THEN Append(toClient, Event(r.id, "capabilities", None))
                   ELSE toClient
    /\ UNCHANGED << used, offered, selection, offers >>

ServerOffer ==
    /\ ServerRead({"offer"})
    /\ offered' = offered \cup {<< Head(toServer).obj, Head(toServer).mime >>}
    /\ UNCHANGED << objects, used, selection, offers, toClient >>

(* A device whose seat is gone is inert.                                   *)
ServerSetSelection ==
    LET r == Head(toServer) IN
    /\ ServerRead({"set_selection"})
    /\ used' = used \cup {r.source}
    /\ IF seatLost
       THEN UNCHANGED << selection, toClient, offers >>
       ELSE /\ selection' = r.source
            /\ toClient' = toClient \o CancelSelected \o Announcement
            /\ offers' = offers + 1
    /\ UNCHANGED << objects, offered >>

ServerDestroy ==
    LET r == Head(toServer) IN
    /\ ServerRead({"destroy"})
    /\ objects' = [objects EXCEPT ![r.obj] = "destroyed"]
    /\ selection' = IF selection = r.obj THEN None ELSE selection
    /\ toClient' = Append(toClient, Event(DISPLAY, "delete_id", r.obj))
    /\ UNCHANGED << used, offered, offers >>

ServerAnnounce(iface) ==
    /\ Len(objects) >= RegistryId /\ Len(globals) < MaxGlobals
    /\ globals' = Append(globals, iface)
    /\ toClient' = Append(toClient, Global(iface))
    /\ UNCHANGED << loop, channel, nextObjectId, wayland_data, toServer,
                    objects, used, offered, selection, offers, seatLost,
                    takeovers, pastes, user >>

(* The seat is unplugged: its device is finished and its selection gone.   *)
ServerSeatLost ==
    /\ MaxSeatLosses > 0 /\ ~seatLost
    /\ \E i \in DOMAIN objects : objects[i] = "wl_seat"
    /\ seatLost' = TRUE /\ selection' = None /\ claim' = "other"
    /\ toClient' = toClient \o << Event(RegistryId, "global_remove", None) >>
                     \o CancelSelected
                     \o (IF Device = {} THEN <<>>
                         ELSE << Event(CHOOSE i \in Device : TRUE, "finished",
                                       None) >>)
    /\ UNCHANGED << loop, channel, nextObjectId, wayland_data, toServer,
                    objects, used, offered, offers, globals, takeovers,
                    pastes, clicks, copied >>

(* Another client copies something.                                        *)
OtherClientCopies ==
    /\ takeovers < MaxTakeovers
    /\ takeovers' = takeovers + 1
    /\ selection' = None /\ claim' = "other"
    /\ toClient' = toClient \o CancelSelected \o Announcement
    /\ offers' = offers + 1
    /\ UNCHANGED << loop, channel, nextObjectId, wayland_data, toServer,
                    objects, used, offered, globals, seatLost, pastes, clicks,
                    copied >>

(* Another client pastes what we have selected.  floor is the newest code  *)
(* that the loop had accepted by then.                                     *)
OtherClientPastes(mime) ==
    /\ selection # None /\ Len(pastes) < MaxPastes
    /\ pastes' = Append(pastes, [mime |-> mime, fd |-> "open", got |-> None,
                                 gone |-> FALSE, floor |-> copied])
    /\ toClient' = Append(toClient, Event(selection, "send", Len(pastes) + 1))
    /\ UNCHANGED << loop, channel, nextObjectId, wayland_data, toServer,
                    compositor, user >>

ReaderVanishes(i) ==
    /\ ReadersVanish /\ pastes[i].fd = "open" /\ ~pastes[i].gone
    /\ pastes' = [pastes EXCEPT ![i].gone = TRUE]
    /\ UNCHANGED << loop, channel, nextObjectId, wayland_data, toServer,
                    toClient, compositor, user >>

Server == \/ ServerCreate \/ ServerBind \/ ServerOffer
          \/ ServerSetSelection \/ ServerDestroy

-----------------------------------------------------------------------------

Next ==
    \/ ReceiveExit \/ ReceiveCopy \/ ReceiveClear
    \/ WaylandDispatch
    \/ SendCopy \/ SendExit \/ SendClear
    \/ Server
    \/ \E iface \in Interfaces : ServerAnnounce(iface)
    \/ ServerSeatLost \/ OtherClientCopies
    \/ \E mime \in PasteTypes : OtherClientPastes(mime)
    \/ \E i \in DOMAIN pastes : ReaderVanishes(i)

Spec == Init /\ [][Next]_vars

(* select! polls its branches in random order, so a branch that stays      *)
(* ready is taken; the compositor keeps reading its socket.  Nothing is    *)
(* assumed of the user, the other clients or the announcement of globals.  *)
Fairness ==
    /\ WF_vars(ReceiveExit \/ ReceiveCopy \/ ReceiveClear)
    /\ WF_vars(WaylandDispatch)
    /\ WF_vars(Server)

FairSpec == Spec /\ Fairness

-----------------------------------------------------------------------------
(* Properties.                                                             *)

ObjectId == Nat \ {None}
Requests ==
         [op : {"get_registry"}, obj : ObjectId, id : ObjectId]
    \cup [op : {"bind"}, obj : ObjectId, id : ObjectId, iface : Interfaces]
    \cup [op : {"get_data_device"}, obj : ObjectId, id : ObjectId,
          seat : ObjectId]
    \cup [op : {"create_data_source"}, obj : ObjectId, id : ObjectId]
    \cup [op : {"offer"}, obj : ObjectId, mime : PlainTextTypes]
    \cup [op : {"set_selection"}, obj : ObjectId, source : ObjectId]
    \cup [op : {"destroy"}, obj : ObjectId]
EventNames == {"global", "global_remove", "capabilities", "delete_id",
               "data_offer", "offer", "selection", "finished", "cancelled",
               "send"}
Events   == [obj : ObjectId, ev : EventNames, arg : Nat,
             iface : Interfaces \cup {"none"}]
ObjectKinds == Interfaces \cup
    {"wl_display", "wl_registry", "ext_data_control_device_v1",
     "ext_data_control_source_v1", "destroyed"}
Messages == [kind : {"copy", "clear", "exit"}, code : Nat]
Pastes   == [mime : PasteTypes, fd : {"open", "closed", "leaked"}, got : Nat,
             gone : BOOLEAN, floor : Nat]

(* Types: no packet in either direction names the null object, whatever    *)
(* WaylandData held when it was sent; the rest are plain types.            *)
TypeOK ==
    /\ loop \in {"running", "stopped", "panicked"}
    /\ channel \in Seq(Messages) /\ nextObjectId \in Nat
    /\ seat_id \in Nat /\ clipboard_manager_id \in Nat
    /\ clipboard_device_id \in Nat /\ clipboard_source_id \in Nat
    /\ clipboard_data \in Nat /\ incoming_offer_id \in Nat
    /\ toServer \in Seq(Requests) /\ toClient \in Seq(Events)
    /\ objects \in Seq(ObjectKinds) /\ used \subseteq ObjectId
    /\ offered \subseteq ObjectId \X PlainTextTypes
    /\ selection \in Nat /\ offers \in Nat /\ takeovers \in Nat
    /\ globals \in Seq(Interfaces) /\ seatLost \in BOOLEAN
    /\ pastes \in Seq(Pastes)
    /\ clicks \in Nat /\ copied \in Nat
    /\ claim \in {"none", "early", "raced", "ours", "other"}

(* Whatever the order in which the two ends of the socket run, each packet *)
(* the client sent is legal when the compositor reads it: it names an      *)
(* object that exists by then, it creates ids without gaps, it offers      *)
(* before it selects and it never selects a source twice.  (A violation    *)
(* ends a Wayland connection.)                                             *)
RequestsLegal == toServer # <<>> => Legal(Head(toServer))

(* wayland_dispatch never takes an event for one of another object: an     *)
(* event in flight is for the object that WaylandData names or for none it *)
(* names, never for a successor that inherited a field or an id.           *)
DispatchSound ==
    \A i \in DOMAIN toClient :
        LET id == toClient[i].obj IN
        Recipient(id) \in
            {"unknown", IF id >= ServerIdBase THEN "ext_data_control_offer_v1"
                        ELSE objects[id]}

(* While the client holds a source, exactly one thing is true of it: its   *)
(* set_selection is on the way, it is selected, or its cancelled event is  *)
(* on the way; and a source of ours is selected only while the client      *)
(* holds it or its destroy request is on the way.                          *)
OwnershipTracked ==
    LET s == clipboard_source_id
        asked     == { i \in DOMAIN toServer : toServer[i].op = "set_selection"
                                            /\ toServer[i].source = s }
        cancelled == { i \in DOMAIN toClient : toClient[i].ev = "cancelled"
                                            /\ toClient[i].obj = s }
    IN  /\ s # None /\ ~seatLost =>
              Cardinality(asked) + Cardinality(cancelled)
                + (IF selection = s THEN 1 ELSE 0) = 1
        /\ selection \notin {None, s} =>
              \E i \in DOMAIN toServer : toServer[i] = Destroy(selection)

(* The three together, also where the source may be cleared, the seat      *)
(* unplugged and a reader may vanish: the client breaks no rule of the     *)
(* protocol, takes no event for another and knows what it owns.            *)
ProtocolKept == RequestsLegal /\ DispatchSound /\ OwnershipTracked

(* A paste of a plain-text type that the loop has answered was answered    *)
(* with a code, and with none older than the newest code the loop had      *)
(* accepted when the paste was requested.                                  *)
PastesAreFresh ==
    \A i \in DOMAIN pastes :
        pastes[i].fd = "closed" /\ pastes[i].mime \in PlainTextTypes =>
            pastes[i].got # None /\ pastes[i].got >= pastes[i].floor

(* What a paste would get now: the code held for the source that is both   *)
(* ours and selected.                                                      *)
ProvidedCode ==
    IF selection # None /\ selection = clipboard_source_id
    THEN clipboard_data ELSE None

Answer(p) == [type |-> IF p.mime \in PlainTextTypes THEN "plain" ELSE "other",
              floor |-> p.floor, got |-> p.got, fd |-> p.fd]

Answers == [i \in DOMAIN pastes |-> Answer(pastes[i])]

Promise == INSTANCE Selection
               WITH chosen <- copied, provided <- ProvidedCode,
                    answers <- Answers

(* The loop implements the selection it promises: across takeovers,        *)
(* cancellations in flight and new sources, what other clients can paste   *)
(* is the newest code accepted or nothing, and no paste is answered with   *)
(* a code that had been replaced when it was requested.                    *)
SelectionPromised == Promise!Spec

(* Without Clear, which no part of the program sends, the descriptor of    *)
(* every paste reaches the source that the client still holds, so none is  *)
(* leaked by the branch for unhandled events.                              *)
NoDescriptorLeak == \A i \in DOMAIN pastes : pastes[i].fd # "leaked"

Quiet == loop = "running" /\ toServer = <<>> /\ toClient = <<>>
Published == selection = clipboard_source_id /\ selection # None
                /\ clipboard_data = copied

(* A code accepted while the device is known and no cancellation of our    *)
(* source is on its way is what the selection serves once both ends have   *)
(* read everything, unless another client copied meanwhile.                *)
CopyPublished == Quiet /\ claim = "ours" /\ ~seatLost => Published

(* The same for a code accepted while the cancellation of our source was   *)
(* on its way: the choice came after the other client's copy.              *)
RacedCopyPublished == Quiet /\ claim = "raced" /\ ~seatLost => Published

(* The same for a code accepted before the device was known.               *)
EarlyCopyPublished ==
    Quiet /\ claim = "early" /\ ~seatLost /\ clipboard_device_id # None
        => Published

(* The main task survives whatever other clients do with their end of the  *)
(* pipe.                                                                   *)
NeverPanics == loop # "panicked"

(* An Exit from the menu ends the loop.                                    *)
ExitStops ==
    (\E i \in DOMAIN channel : channel[i].kind = "exit")
        ~> (loop # "running")

(* Every paste requested from us is answered and its descriptor closed,    *)
(* unless the program ends first.                                          *)
PastesAnswered ==
    \A i \in 1 .. MaxPastes :
        (i \in DOMAIN pastes) ~>
            (loop # "running" \/ (i \in DOMAIN pastes /\ pastes[i].fd = "closed"))

(* Once the compositor has announced a seat and a manager, in whichever    *)
(* order, it holds a device of ours, unless the program ends.              *)
DeviceObtained ==
    (\A iface \in {"wl_seat", "ext_data_control_manager_v1"} :
        \E i \in DOMAIN globals : globals[i] = iface)
        ~> (loop # "running" \/ Device # {})

=============================================================================
