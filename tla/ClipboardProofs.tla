-------------------------- MODULE ClipboardProofs --------------------------
(***************************************************************************)
(* Proofs about Clipboard, for every size of the id space and every bound: *)
(* no packet names the null object, and a paste is never answered with a   *)
(* code older than the newest one accepted when it was requested.  In the  *)
(* end, Clipboard implements Selection: initial states map to initial      *)
(* states, and every step of the loop, the compositor and the other        *)
(* clients maps to a step of the abstract selection or to none.            *)
(***************************************************************************)
EXTENDS Clipboard, SequenceTheorems, TLAPS

-----------------------------------------------------------------------------
(* Types of ids and packets.                                               *)

(* The counter is a number, and what it hands out is never null.           *)
LEMMA IdTypes ==
    ASSUME NEW n \in Nat
    PROVE  NewObjectId(n) \in ObjectId /\ NextObjectId(n) \in Nat
<1>1. NewObjectId(n) \in ObjectId
    BY DEF NewObjectId, ObjectId, None
<1>2. IdSpace \in Nat \ {0}
    BY IdsAssumption
<1> QED
    BY <1>1, <1>2 DEF NextObjectId, ObjectId

(* Sending a few packets keeps a queue of packets.                         *)
LEMMA SendTypes ==
    ASSUME NEW S, NEW queue \in Seq(S)
    PROVE  /\ \A p \in S : Append(queue, p) \in Seq(S) /\ << p >> \in Seq(S)
           /\ \A p \in Seq(S) : queue \o p \in Seq(S)
           /\ queue # <<>> => Head(queue) \in S /\ Tail(queue) \in Seq(S)
    BY HeadTailProperties

(* The packets that publish a source.                                      *)
LEMMA PublishType ==
    ASSUME NEW source \in ObjectId, clipboard_manager_id \in ObjectId,
           clipboard_device_id \in ObjectId
    PROVE  PublishSource(source) \in Seq(Requests)
<1>1. DOMAIN PLAIN_TEXT_MIME_TYPES_SORTED = 1 .. 5
    BY DEF PLAIN_TEXT_MIME_TYPES_SORTED
<1>2. \A i \in 1 .. 5 :
          Offer(source, PLAIN_TEXT_MIME_TYPES_SORTED[i]) \in Requests
    BY <1>1 DEF Offer, Requests, PlainTextTypes
<1>3. OfferAll(source) \in [1 .. 5 -> Requests]
    BY <1>1, <1>2 DEF OfferAll
<1>4. OfferAll(source) \in Seq(Requests)
    BY <1>3, SeqDef
<1>5. CreateDataSource(clipboard_manager_id, source) \in Requests
    BY DEF CreateDataSource, Requests
<1>6. SetSelection(clipboard_device_id, source) \in Requests
    BY DEF SetSelection, Requests
<1>7. << CreateDataSource(clipboard_manager_id, source) >> \in Seq(Requests)
    BY <1>5
<1>8. << SetSelection(clipboard_device_id, source) >> \in Seq(Requests)
    BY <1>6
<1> QED
    BY <1>4, <1>7, <1>8, ConcatProperties DEF PublishSource

(* The announcements of the compositor.                                    *)
LEMMA AnnouncementType ==
    ASSUME TypeOK
    PROVE  Announcement \in Seq(Events) /\ CancelSelected \in Seq(Events)
<1>1. \A i \in Device : i \in ObjectId
    BY DEF TypeOK, Device, ObjectId, None
<1>2. ServerIdBase + offers \in ObjectId
    BY IdsAssumption DEF TypeOK, ObjectId, None
<1>3. ASSUME NEW id \in ObjectId, NEW ev \in EventNames, NEW arg \in Nat
      PROVE  Event(id, ev, arg) \in Events
    BY DEF Event, Events
<1>4. Announcement \in Seq(Events)
  <2>1. CASE Device = {} \/ seatLost
    BY <2>1 DEF Announcement
  <2>2. CASE ~(Device = {} \/ seatLost)
    <3> DEFINE dev == CHOOSE i \in Device : TRUE
               id  == ServerIdBase + offers
    <3>1. dev \in ObjectId /\ id \in ObjectId /\ id \in Nat
      BY <1>1, <1>2, <2>2 DEF ObjectId
    <3> HIDE DEF dev, id
    <3>2. /\ Event(dev, "data_offer", id) \in Events
          /\ Event(id, "offer", None) \in Events
          /\ Event(dev, "selection", id) \in Events
      BY <3>1, <1>3 DEF None, EventNames
    <3>3. << Event(dev, "data_offer", id), Event(id, "offer", None),
             Event(dev, "selection", id) >> \in Seq(Events)
      BY <3>2
    <3> QED
      BY <2>2, <3>3 DEF Announcement, dev, id
  <2> QED
    BY <2>1, <2>2
<1>5. CancelSelected \in Seq(Events)
  <2>1. CASE selection = None
    BY <2>1 DEF CancelSelected
  <2>2. CASE selection # None
    <3>1. Event(selection, "cancelled", None) \in Events
      BY <2>2, <1>3 DEF TypeOK, ObjectId, None, EventNames
    <3> QED
      BY <2>2, <3>1 DEF CancelSelected
  <2> QED
    BY <2>1, <2>2
<1> QED
    BY <1>4, <1>5

-----------------------------------------------------------------------------
(* Type correctness: the client.                                           *)

(* The device is requested with ids that are not null.                     *)
LEMMA ObtainType ==
    ASSUME TypeOK, NEW manager \in Nat, NEW seat \in Nat,
           NEW sent \in Seq(Requests), NEW n \in Nat,
           ObtainDataDeviceIfReady(manager, seat, sent, n)
    PROVE  /\ toServer' \in Seq(Requests) /\ nextObjectId' \in Nat
           /\ clipboard_device_id' \in Nat
<1>1. toServer \o sent \in Seq(Requests)
    BY ConcatProperties DEF TypeOK
<1>2. CASE manager = None \/ seat = None
    BY <1>1, <1>2 DEF ObtainDataDeviceIfReady, TypeOK
<1>3. CASE ~(manager = None \/ seat = None)
  <2> DEFINE id == NewObjectId(n)
  <2>1. id \in ObjectId /\ NextObjectId(n) \in Nat
    BY IdTypes
  <2> HIDE DEF id
  <2>2. GetDataDevice(manager, id, seat) \in Requests
    BY <1>3, <2>1 DEF GetDataDevice, Requests, ObjectId
  <2>3. (toServer \o sent) \o << GetDataDevice(manager, id, seat) >>
            \in Seq(Requests)
    BY <1>1, <2>2, ConcatProperties
  <2> QED
    BY <1>3, <2>1, <2>3 DEF ObtainDataDeviceIfReady, ObjectId, id
<1> QED
    BY <1>2, <1>3

(* The branch on the channel keeps the types.                              *)
LEMMA ReceiveType ==
    ASSUME TypeOK, ReceiveExit \/ ReceiveCopy \/ ReceiveClear
    PROVE  TypeOK'
<1> USE DEF wayland_data, compositor, user
<1>1. channel # <<>> /\ channel' = Tail(channel)
    BY DEF ReceiveExit, ReceiveCopy, ReceiveClear, Receive
<1>2. Head(channel) \in Messages /\ channel' \in Seq(Messages)
    BY <1>1, HeadTailProperties DEF TypeOK
<1>3. CASE ReceiveExit
    BY <1>2, <1>3 DEF ReceiveExit, Receive, TypeOK
<1>4. CASE ReceiveCopy
  <2>1. Head(channel).code \in Nat
    BY <1>2 DEF Messages
  <2>2. /\ toServer' \in Seq(Requests) /\ nextObjectId' \in Nat
        /\ clipboard_source_id' \in Nat
    <3>1. CASE UNCHANGED << nextObjectId, toServer, clipboard_source_id >>
      BY <3>1 DEF TypeOK
    <3>2. CASE NewSource /\ ~CannotPublish
      <4> DEFINE source == NewObjectId(nextObjectId)
      <4>1. source \in ObjectId /\ NextObjectId(nextObjectId) \in Nat
        BY IdTypes DEF TypeOK
      <4> HIDE DEF source
      <4>2. PublishSource(source) \in Seq(Requests)
        BY <3>2, <4>1, PublishType DEF CannotPublish, TypeOK, ObjectId
      <4>3. toServer \o PublishSource(source) \in Seq(Requests)
        BY <4>2, ConcatProperties DEF TypeOK
      <4> QED
        BY <3>2, <4>1, <4>3 DEF NewSource, source, ObjectId
    <3> QED
      BY <1>4, <3>1, <3>2 DEF ReceiveCopy, CopyDispatch
  <2>3. clipboard_data' \in Nat /\ copied' \in Nat
    BY <1>4, <2>1 DEF ReceiveCopy, CopyDispatch
  <2>4. claim' \in {"early", "raced", "ours"}
    BY <1>4 DEF ReceiveCopy
  <2> QED
    BY <1>2, <1>4, <2>2, <2>3, <2>4 DEF ReceiveCopy, Receive, TypeOK
<1>5. CASE ReceiveClear
  <2>1. toServer' \in Seq(Requests)
    <3>1. CASE clipboard_source_id = None
      BY <1>5, <3>1 DEF ReceiveClear, ClearDispatch, TypeOK
    <3>2. CASE clipboard_source_id # None
      <4>1. Destroy(clipboard_source_id) \in Requests
        BY <3>2 DEF TypeOK, Destroy, Requests, ObjectId
      <4> QED
        BY <1>5, <3>2, <4>1, AppendProperties
           DEF ReceiveClear, ClearDispatch, TypeOK
    <3> QED
      BY <3>1, <3>2
  <2> QED
    BY <1>2, <1>5, <2>1 DEF ReceiveClear, ClearDispatch, Receive, TypeOK, None
<1> QED
    BY <1>3, <1>4, <1>5

(* Answering a paste, or losing its descriptor, keeps the list of pastes.  *)
LEMMA AnswerType ==
    ASSUME TypeOK, NEW i, NEW fd \in {"closed", "leaked"}, NEW code \in Nat
    PROVE  /\ [pastes EXCEPT ![i].fd = fd, ![i].got = code] \in Seq(Pastes)
           /\ [pastes EXCEPT ![i].fd = fd] \in Seq(Pastes)
           /\ [pastes EXCEPT ![i].gone = TRUE] \in Seq(Pastes)
<1>1. CASE i \in 1 .. Len(pastes)
  <2> DEFINE p == pastes[i]
  <2>1. p \in Pastes
    BY <1>1, ElementOfSeq DEF TypeOK
  <2>2. /\ [p EXCEPT !.fd = fd, !.got = code] \in Pastes
        /\ [p EXCEPT !.fd = fd] \in Pastes
        /\ [p EXCEPT !.gone = TRUE] \in Pastes
    BY <2>1 DEF Pastes
  <2>3. \A q \in Pastes : [pastes EXCEPT ![i] = q] \in Seq(Pastes)
    BY <1>1, ExceptSeq DEF TypeOK
  <2> QED
    BY <2>2, <2>3
<1>2. CASE i \notin 1 .. Len(pastes)
  <2>1. pastes \in [1 .. Len(pastes) -> Pastes]
    BY LenProperties DEF TypeOK
  <2>2. \A q : [pastes EXCEPT ![i] = q] = pastes
    BY <1>2, <2>1
  <2> QED
    BY <2>2 DEF TypeOK
<1> QED
    BY <1>1, <1>2

(* The branch on the socket keeps the types.                               *)
LEMMA DispatchType ==
    ASSUME TypeOK, WaylandDispatch
    PROVE  TypeOK'
<1> USE DEF wayland_data, compositor, user, Dispatch
<1>1. toClient # <<>> /\ toClient' = Tail(toClient)
    BY DEF WaylandDispatch, GlobalSeat, GlobalManager, SourceSend,
           SourceCancelled, DeviceDataOffer, LogEvent
<1>2. Head(toClient) \in Events /\ toClient' \in Seq(Events)
    BY <1>1, HeadTailProperties DEF TypeOK
<1>3. Head(toClient).arg \in Nat
    BY <1>2 DEF Events
<1>4. ASSUME NEW id \in ObjectId, NEW iface \in Interfaces
      PROVE  << Bind(id, iface) >> \in Seq(Requests)
  <2>1. Bind(id, iface) \in Requests
    BY DEF Bind, Requests, RegistryId, ObjectId, None
  <2> QED
    BY <2>1
<1>5. CASE GlobalSeat
  <2>1. /\ seat_id' \in Nat /\ toServer' \in Seq(Requests)
        /\ nextObjectId' \in Nat /\ clipboard_device_id' \in Nat
    <3>1. CASE seat_id # None
      BY <1>5, <3>1 DEF GlobalSeat, TypeOK
    <3>2. CASE seat_id = None
      <4> DEFINE id == NewObjectId(nextObjectId)
      <4>1. /\ id \in ObjectId /\ id \in Nat
            /\ NextObjectId(nextObjectId) \in Nat
        BY IdTypes DEF TypeOK, ObjectId
      <4> HIDE DEF id
      <4>2. << Bind(id, "wl_seat") >> \in Seq(Requests)
        BY <4>1, <1>4 DEF Interfaces
      <4>3. /\ seat_id' = id
            /\ ObtainDataDeviceIfReady(clipboard_manager_id, id,
                   << Bind(id, "wl_seat") >>, NextObjectId(nextObjectId))
        BY <1>5, <3>2 DEF GlobalSeat, id
      <4> QED
        BY <4>1, <4>2, <4>3, ObtainType DEF TypeOK
    <3> QED
      BY <3>1, <3>2
  <2> QED
    BY <1>2, <1>5, <2>1 DEF GlobalSeat, TypeOK
<1>6. CASE GlobalManager
  <2>1. /\ clipboard_manager_id' \in Nat /\ toServer' \in Seq(Requests)
        /\ nextObjectId' \in Nat /\ clipboard_device_id' \in Nat
    <3>1. CASE clipboard_manager_id # None
      BY <1>6, <3>1 DEF GlobalManager, TypeOK
    <3>2. CASE clipboard_manager_id = None
      <4> DEFINE id == NewObjectId(nextObjectId)
      <4>1. /\ id \in ObjectId /\ id \in Nat
            /\ NextObjectId(nextObjectId) \in Nat
        BY IdTypes DEF TypeOK, ObjectId
      <4> HIDE DEF id
      <4>2. << Bind(id, "ext_data_control_manager_v1") >> \in Seq(Requests)
        BY <4>1, <1>4 DEF Interfaces
      <4>3. /\ clipboard_manager_id' = id
            /\ ObtainDataDeviceIfReady(id, seat_id,
                   << Bind(id, "ext_data_control_manager_v1") >>,
                   NextObjectId(nextObjectId))
        BY <1>6, <3>2 DEF GlobalManager, id
      <4> QED
        BY <4>1, <4>2, <4>3, ObtainType DEF TypeOK
    <3> QED
      BY <3>1, <3>2
  <2> QED
    BY <1>2, <1>6, <2>1 DEF GlobalManager, TypeOK
<1>7. CASE SourceSend
  <2>1. pastes' \in Seq(Pastes)
    <3>1. CASE UNCHANGED pastes
      BY <3>1 DEF TypeOK
    <3>2. ASSUME NEW code \in Nat,
                 pastes' = [pastes EXCEPT ![Head(toClient).arg].fd = "closed",
                                          ![Head(toClient).arg].got = code]
          PROVE  pastes' \in Seq(Pastes)
      BY <3>2, AnswerType
    <3> QED
      BY <1>7, <3>1, <3>2 DEF SourceSend, TypeOK, None
  <2> QED
    BY <1>2, <1>7, <2>1 DEF SourceSend, TypeOK
<1>8. CASE SourceCancelled
    BY <1>2, <1>8 DEF SourceCancelled, TypeOK, None
<1>9. CASE DeviceDataOffer
    BY <1>2, <1>3, <1>9 DEF DeviceDataOffer, TypeOK
<1>10. CASE LogEvent
  <2>1. pastes' \in Seq(Pastes)
    BY <1>10, AnswerType DEF LogEvent, TypeOK
  <2> QED
    BY <1>2, <1>10, <2>1 DEF LogEvent, TypeOK
<1> QED
    BY <1>5, <1>6, <1>7, <1>8, <1>9, <1>10 DEF WaylandDispatch

-----------------------------------------------------------------------------
(* Type correctness: the compositor and the user.                          *)

(* The compositor's reading keeps the types.                               *)
LEMMA ServerType ==
    ASSUME TypeOK, Server
    PROVE  TypeOK'
<1> DEFINE r == Head(toServer)
<1> USE DEF wayland_data, compositor, user, ServerRead
<1>1. toServer # <<>> /\ toServer' = Tail(toServer)
    BY DEF Server, ServerCreate, ServerBind, ServerOffer, ServerSetSelection,
           ServerDestroy
<1>2. r \in Requests /\ toServer' \in Seq(Requests)
    BY <1>1, HeadTailProperties DEF TypeOK
<1>3. ASSUME NEW id \in ObjectId, NEW ev \in EventNames, NEW arg \in Nat
      PROVE  Append(toClient, Event(id, ev, arg)) \in Seq(Events)
  <2>1. Event(id, ev, arg) \in Events
    BY DEF Event, Events
  <2> QED
    BY <2>1, AppendProperties DEF TypeOK
<1>4. CASE ServerCreate
  <2>1. r.op \in DOMAIN Creates /\ r.id \in ObjectId
    BY <1>2, <1>4 DEF ServerCreate, Requests, Creates
  <2>2. objects' \in Seq(ObjectKinds)
    <3>1. Creates[r.op] \in ObjectKinds
      BY <2>1 DEF Creates, ObjectKinds
    <3> QED
      BY <1>4, <3>1, AppendProperties DEF ServerCreate, TypeOK
  <2>3. toClient' \in Seq(Events)
    <3>1. CASE UNCHANGED toClient
      BY <3>1 DEF TypeOK
    <3>2. ASSUME NEW ev \in {"finished", "selection"},
                 toClient' = Append(toClient, Event(r.id, ev, None))
          PROVE  toClient' \in Seq(Events)
      BY <1>3, <2>1, <3>2 DEF None, EventNames
    <3> QED
      BY <1>4, <3>1, <3>2 DEF ServerCreate
  <2> QED
    BY <1>2, <1>4, <2>2, <2>3 DEF ServerCreate, TypeOK
<1>5. CASE ServerBind
  <2>1. r.id \in ObjectId /\ r.iface \in Interfaces
    BY <1>2, <1>5 DEF ServerBind, Requests
  <2>2. objects' \in Seq(ObjectKinds)
    BY <1>5, <2>1, AppendProperties DEF ServerBind, TypeOK, ObjectKinds
  <2>3. toClient' \in Seq(Events)
    BY <1>3, <1>5, <2>1 DEF ServerBind, TypeOK, None, EventNames
  <2> QED
    BY <1>2, <1>5, <2>2, <2>3 DEF ServerBind, TypeOK
<1>6. CASE ServerOffer
  <2>1. r.obj \in ObjectId /\ r.mime \in PlainTextTypes
    BY <1>2, <1>6 DEF ServerOffer, Requests
  <2>2. offered' \subseteq ObjectId \X PlainTextTypes
    BY <1>6, <2>1 DEF ServerOffer, TypeOK
  <2> QED
    BY <1>2, <1>6, <2>2 DEF ServerOffer, TypeOK
<1>7. CASE ServerSetSelection
  <2>1. r.source \in ObjectId
    BY <1>2, <1>7 DEF ServerSetSelection, Requests
  <2>2. toClient' \in Seq(Events)
    <3>1. CancelSelected \in Seq(Events) /\ Announcement \in Seq(Events)
      BY AnnouncementType
    <3>2. (toClient \o CancelSelected) \o Announcement \in Seq(Events)
      BY <3>1, ConcatProperties DEF TypeOK
    <3> QED
      BY <1>7, <3>2 DEF ServerSetSelection, TypeOK
  <2>3. used' \subseteq ObjectId
    BY <1>7, <2>1 DEF ServerSetSelection, TypeOK
  <2>4. selection' \in Nat
    BY <1>7, <2>1 DEF ServerSetSelection, TypeOK, ObjectId
  <2>5. offers' \in Nat
    BY <1>7 DEF ServerSetSelection, TypeOK
  <2> QED
    BY <1>2, <1>7, <2>2, <2>3, <2>4, <2>5 DEF ServerSetSelection, TypeOK
<1>8. CASE ServerDestroy
  <2>1. r.obj \in ObjectId
    BY <1>2, <1>8 DEF ServerDestroy, Requests
  <2>2. r.obj \in 1 .. Len(objects)
    BY <1>8, LenProperties DEF ServerDestroy, Legal, TypeOK
  <2>3. objects' \in Seq(ObjectKinds)
    BY <1>8, <2>2, ExceptSeq DEF ServerDestroy, TypeOK, ObjectKinds
  <2>4. toClient' \in Seq(Events)
    BY <1>3, <1>8, <2>1 DEF ServerDestroy, ObjectId, DISPLAY, None, EventNames
  <2>5. selection' \in Nat
    BY <1>8 DEF ServerDestroy, TypeOK, None
  <2> QED
    BY <1>2, <1>8, <2>3, <2>4, <2>5 DEF ServerDestroy, TypeOK
<1> QED
    BY <1>4, <1>5, <1>6, <1>7, <1>8 DEF Server

(* The steps of the user, of other clients and of the compositor on its    *)
(* own account.                                                            *)
LEMMA OthersType ==
    ASSUME TypeOK,
           \/ SendCopy \/ SendExit \/ SendClear
           \/ \E iface \in Interfaces : ServerAnnounce(iface)
           \/ ServerSeatLost \/ OtherClientCopies
           \/ \E mime \in PasteTypes : OtherClientPastes(mime)
           \/ \E i \in DOMAIN pastes : ReaderVanishes(i)
    PROVE  TypeOK'
<1> USE DEF wayland_data, compositor, user
<1>1. CASE SendCopy
  <2>1. [kind |-> "copy", code |-> clicks + 1] \in Messages
    BY DEF TypeOK, Messages
  <2>2. channel' \in Seq(Messages)
    BY <1>1, <2>1, AppendProperties DEF SendCopy, TypeOK
  <2> QED
    BY <1>1, <2>2 DEF SendCopy, TypeOK
<1>2. CASE SendExit \/ SendClear
  <2>1. PICK kind \in {"exit", "clear"} : SendOther(kind)
    BY <1>2 DEF SendExit, SendClear
  <2>2. [kind |-> kind, code |-> None] \in Messages
    BY DEF Messages, None
  <2>3. channel' \in Seq(Messages)
    BY <2>1, <2>2, AppendProperties DEF SendOther, TypeOK
  <2> QED
    BY <2>1, <2>3 DEF SendOther, TypeOK
<1>3. ASSUME NEW iface \in Interfaces, ServerAnnounce(iface) PROVE TypeOK'
  <2>1. Global(iface) \in Events
    BY DEF Global, Events, EventNames, RegistryId, ObjectId, None
  <2>2. toClient' \in Seq(Events) /\ globals' \in Seq(Interfaces)
    BY <1>3, <2>1, AppendProperties DEF ServerAnnounce, TypeOK
  <2> QED
    BY <1>3, <2>2 DEF ServerAnnounce, TypeOK
<1>4. CASE ServerSeatLost
  <2> DEFINE removal == Event(RegistryId, "global_remove", None)
             finish  == Event(CHOOSE i \in Device : TRUE, "finished", None)
  <2>1. << removal >> \in Seq(Events)
    <3>1. removal \in Events
      BY DEF Event, Events, EventNames, RegistryId, ObjectId, None
    <3> QED
      BY <3>1
  <2>2. CASE Device = {}
    <3>1. ((toClient \o << removal >>) \o CancelSelected) \o <<>>
              \in Seq(Events)
      BY <2>1, AnnouncementType, ConcatProperties, EmptySeq DEF TypeOK
    <3>2. toClient' \in Seq(Events)
      BY <1>4, <2>2, <3>1 DEF ServerSeatLost
    <3> QED
      BY <1>4, <3>2 DEF ServerSeatLost, TypeOK, None
  <2>3. CASE Device # {}
    <3>1. << finish >> \in Seq(Events)
      <4>1. (CHOOSE i \in Device : TRUE) \in ObjectId
        BY <2>3 DEF TypeOK, Device, ObjectId, None
      <4>2. finish \in Events
        BY <4>1 DEF Event, Events, EventNames, None
      <4> QED
        BY <4>2
    <3>2. ((toClient \o << removal >>) \o CancelSelected) \o << finish >>
              \in Seq(Events)
      BY <2>1, <3>1, AnnouncementType, ConcatProperties DEF TypeOK
    <3>3. toClient' \in Seq(Events)
      BY <1>4, <2>3, <3>2 DEF ServerSeatLost
    <3> QED
      BY <1>4, <3>3 DEF ServerSeatLost, TypeOK, None
  <2> QED
    BY <2>2, <2>3
<1>5. CASE OtherClientCopies
  <2>1. (toClient \o CancelSelected) \o Announcement \in Seq(Events)
    BY AnnouncementType, ConcatProperties DEF TypeOK
  <2> QED
    BY <1>5, <2>1 DEF OtherClientCopies, TypeOK, None
<1>6. ASSUME NEW mime \in PasteTypes, OtherClientPastes(mime) PROVE TypeOK'
  <2>1. [mime |-> mime, fd |-> "open", got |-> None, gone |-> FALSE,
         floor |-> copied] \in Pastes
    BY DEF TypeOK, Pastes, None
  <2>2. Event(selection, "send", Len(pastes) + 1) \in Events
    BY <1>6, LenProperties
       DEF OtherClientPastes, TypeOK, Event, Events, EventNames, ObjectId
  <2>3. pastes' \in Seq(Pastes) /\ toClient' \in Seq(Events)
    BY <1>6, <2>1, <2>2, AppendProperties DEF OtherClientPastes, TypeOK
  <2> QED
    BY <1>6, <2>3 DEF OtherClientPastes, TypeOK
<1>7. ASSUME NEW i \in DOMAIN pastes, ReaderVanishes(i) PROVE TypeOK'
  <2>1. pastes' \in Seq(Pastes)
    BY <1>7, AnswerType DEF ReaderVanishes, None
  <2> QED
    BY <1>7, <2>1 DEF ReaderVanishes, TypeOK
<1> QED
    BY <1>1, <1>2, <1>3, <1>4, <1>5, <1>6, <1>7

(* Initially the state is well typed.                                      *)
LEMMA ClipboardTypeInitially == Init => TypeOK
<1> SUFFICES ASSUME Init PROVE TypeOK
    OBVIOUS
<1>1. [op |-> "get_registry", obj |-> DISPLAY, id |-> RegistryId] \in Requests
    BY DEF Requests, ObjectId, DISPLAY, RegistryId, None
<1>2. toServer \in Seq(Requests)
    BY <1>1 DEF Init
<1>3. objects \in Seq(ObjectKinds)
    BY DEF Init, ObjectKinds
<1>4. channel = <<>> /\ toClient = <<>> /\ globals = <<>> /\ pastes = <<>>
    BY DEF Init
<1>5. /\ channel \in Seq(Messages) /\ toClient \in Seq(Events)
      /\ globals \in Seq(Interfaces) /\ pastes \in Seq(Pastes)
    BY <1>4
<1>6. /\ used \subseteq ObjectId
      /\ offered \subseteq ObjectId \X PlainTextTypes
    BY DEF Init
<1>7. /\ loop = "running" /\ nextObjectId = 3 /\ seat_id = 0
      /\ clipboard_manager_id = 0 /\ clipboard_device_id = 0
      /\ clipboard_source_id = 0 /\ clipboard_data = 0
      /\ incoming_offer_id = 0 /\ selection = 0 /\ offers = 0
      /\ takeovers = 0 /\ seatLost = FALSE /\ clicks = 0 /\ copied = 0
      /\ claim = "none"
    BY DEF Init, None, RegistryId
<1> QED
    BY <1>2, <1>3, <1>5, <1>6, <1>7 DEF TypeOK

(* Every step keeps the types.                                             *)
LEMMA ClipboardTypeStep == TypeOK /\ [Next]_vars => TypeOK'
<1> SUFFICES ASSUME TypeOK, [Next]_vars PROVE TypeOK'
    OBVIOUS
<1>1. CASE UNCHANGED vars
    BY <1>1 DEF vars, wayland_data, compositor, user, TypeOK
<1> QED
    BY <1>1, ReceiveType, DispatchType, ServerType, OthersType DEF Next

(* The state of the loop and of both directions of the socket is always    *)
(* well typed; in particular no packet ever names the null object, whatever*)
(* wayland_dispatch, copy_dispatch and clear_dispatch have stored.         *)
THEOREM ClipboardTypeCorrect == Spec => []TypeOK
    BY ClipboardTypeInitially, ClipboardTypeStep, PTL DEF Spec

-----------------------------------------------------------------------------
(* Freshness of pastes.                                                    *)

(* The codes that wait in the channel were chosen in order, after the one  *)
(* accepted last.                                                          *)
ChannelInOrder ==
    /\ \A i \in DOMAIN channel : channel[i].kind = "copy" =>
            copied < channel[i].code /\ channel[i].code <= clicks
    /\ \A i, j \in DOMAIN channel :
            i < j /\ channel[i].kind = "copy" /\ channel[j].kind = "copy"
                => channel[i].code < channel[j].code
    /\ copied <= clicks

(* While the client holds a source, that source serves the code accepted   *)
(* last.                                                                   *)
SourceServesCopied ==
    clipboard_source_id # None => clipboard_data = copied /\ copied # None

FloorsReached == \A i \in DOMAIN pastes : pastes[i].floor <= copied

FreshInv ==
    ChannelInOrder /\ SourceServesCopied /\ FloorsReached /\ PastesAreFresh

(* Initially nothing was chosen or pasted.                                 *)
LEMMA FreshInitially == Init => FreshInv
    BY DEF Init, FreshInv, ChannelInOrder, SourceServesCopied, FloorsReached,
           PastesAreFresh, None

(* What a larger newest code leaves true of the pastes.                    *)
LEMMA PastesKept ==
    ASSUME TypeOK, FreshInv, UNCHANGED pastes, copied' \in Nat,
           copied <= copied'
    PROVE  FloorsReached' /\ PastesAreFresh'
<1>1. \A i \in DOMAIN pastes : pastes[i] \in Pastes
    BY LenProperties, ElementOfSeq DEF TypeOK
<1>2. \A i \in DOMAIN pastes : pastes[i].floor \in Nat
    BY <1>1 DEF Pastes
<1> QED
    BY <1>2 DEF TypeOK, FreshInv, FloorsReached, PastesAreFresh

(* What answering a paste changes of it.                                   *)
LEMMA AnswerFields ==
    ASSUME TypeOK, NEW k, NEW fd, NEW code,
           \/ pastes' = [pastes EXCEPT ![k].fd = fd, ![k].got = code]
           \/ pastes' = [pastes EXCEPT ![k].fd = fd]
    PROVE  /\ DOMAIN pastes' = DOMAIN pastes
           /\ \A i \in DOMAIN pastes :
                /\ pastes'[i].floor = pastes[i].floor
                /\ pastes'[i].mime = pastes[i].mime
                /\ \/ /\ pastes'[i].fd = pastes[i].fd
                      /\ pastes'[i].got = pastes[i].got
                   \/ i = k /\ pastes'[i].fd = fd /\ pastes'[i].got = code
                   \/ pastes'[i].fd = fd /\ pastes'[i].got = pastes[i].got
<1>0. pastes \in Seq(Pastes)
    BY DEF TypeOK
<1>1. \A i \in DOMAIN pastes : pastes[i] \in Pastes
    BY <1>0, LenProperties, ElementOfSeq
<1>2. DOMAIN pastes' = DOMAIN pastes
    OBVIOUS
<1>3. ASSUME NEW i \in DOMAIN pastes
      PROVE  /\ pastes'[i].floor = pastes[i].floor
             /\ pastes'[i].mime = pastes[i].mime
             /\ \/ /\ pastes'[i].fd = pastes[i].fd
                   /\ pastes'[i].got = pastes[i].got
                \/ i = k /\ pastes'[i].fd = fd /\ pastes'[i].got = code
                \/ pastes'[i].fd = fd /\ pastes'[i].got = pastes[i].got
    BY <1>1 DEF Pastes
<1> QED
    BY <1>2, <1>3

(* The branch on the channel takes the codes in their order.               *)
LEMMA ReceiveKeepsFresh ==
    ASSUME TypeOK, FreshInv, ReceiveExit \/ ReceiveCopy \/ ReceiveClear
    PROVE  FreshInv'
<1>1. channel # <<>> /\ channel' = Tail(channel) /\ UNCHANGED << pastes, clicks >>
    BY DEF ReceiveExit, ReceiveCopy, ReceiveClear, Receive
<1>2. /\ Head(channel) \in Messages /\ channel' \in Seq(Messages)
      /\ Len(channel') = Len(channel) - 1
      /\ \A i \in 1 .. Len(channel') : channel'[i] = channel[i + 1]
    BY <1>1, HeadTailProperties DEF TypeOK
<1>3. /\ DOMAIN channel = 1 .. Len(channel) /\ Len(channel) \in Nat
      /\ DOMAIN channel' = 1 .. Len(channel')
    BY <1>2, LenProperties DEF TypeOK
<1>4. \A i \in DOMAIN channel' :
          i \in Nat /\ i + 1 \in DOMAIN channel /\ channel'[i] = channel[i + 1]
    BY <1>2, <1>3
<1>5. \A i \in DOMAIN channel : channel[i].code \in Nat
  <2>1. \A i \in DOMAIN channel : channel[i] \in Messages
    BY <1>3, ElementOfSeq DEF TypeOK
  <2> QED
    BY <2>1 DEF Messages
<1>6. \A i, j \in DOMAIN channel' :
          i < j /\ channel'[i].kind = "copy" /\ channel'[j].kind = "copy"
              => channel'[i].code < channel'[j].code
    BY <1>4 DEF FreshInv, ChannelInOrder
<1>7. CASE ReceiveCopy
  <2>1. 1 \in DOMAIN channel /\ Head(channel) = channel[1]
    BY <1>1, <1>3 DEF TypeOK
  <2>2. /\ channel[1].kind = "copy"
        /\ copied' = channel[1].code /\ clipboard_data' = channel[1].code
    BY <1>7, <2>1 DEF ReceiveCopy, Receive, CopyDispatch
  <2>3. copied < copied' /\ copied' <= clicks /\ copied' \in Nat
    BY <1>5, <2>1, <2>2 DEF FreshInv, ChannelInOrder
  <2>4. \A i \in DOMAIN channel' : channel'[i].kind = "copy" =>
            copied' < channel'[i].code /\ channel'[i].code <= clicks'
    BY <1>1, <1>4, <2>1, <2>2 DEF FreshInv, ChannelInOrder
  <2>5. ChannelInOrder'
    BY <1>1, <1>6, <2>3, <2>4 DEF ChannelInOrder
  <2>6. SourceServesCopied'
    BY <2>2, <2>3 DEF SourceServesCopied, TypeOK, None
  <2>7. FloorsReached' /\ PastesAreFresh'
    BY <1>1, <2>3, PastesKept DEF TypeOK
  <2> QED
    BY <2>5, <2>6, <2>7 DEF FreshInv
<1>8. CASE ReceiveExit \/ ReceiveClear
  <2>1. copied' = copied
    BY <1>8 DEF ReceiveExit, ReceiveClear, user
  <2>2. ChannelInOrder'
    BY <1>1, <1>4, <1>6, <2>1 DEF FreshInv, ChannelInOrder
  <2>3. SourceServesCopied'
    BY <1>8, <2>1
       DEF ReceiveExit, ReceiveClear, ClearDispatch, FreshInv,
           SourceServesCopied
  <2>4. FloorsReached' /\ PastesAreFresh'
    BY <1>1, <2>1, PastesKept DEF TypeOK
  <2> QED
    BY <2>2, <2>3, <2>4 DEF FreshInv
<1> QED
    BY <1>7, <1>8

(* Answering a paste from a source that the client holds.                  *)
LEMMA DispatchKeepsFresh ==
    ASSUME TypeOK, FreshInv, WaylandDispatch
    PROVE  FreshInv'
<1> USE DEF Dispatch, wayland_data
<1>1. UNCHANGED << channel, clicks, copied >>
    BY DEF WaylandDispatch, GlobalSeat, GlobalManager, SourceSend,
           SourceCancelled, DeviceDataOffer, LogEvent
<1>2. ChannelInOrder'
    BY <1>1 DEF FreshInv, ChannelInOrder
<1>3. ASSUME UNCHANGED pastes PROVE FloorsReached' /\ PastesAreFresh'
    BY <1>1, <1>3, PastesKept DEF TypeOK
<1>4. CASE GlobalSeat \/ GlobalManager \/ SourceCancelled \/ DeviceDataOffer
  <2>1. UNCHANGED pastes
    BY <1>4 DEF GlobalSeat, GlobalManager, SourceCancelled, DeviceDataOffer
  <2>2. SourceServesCopied'
    BY <1>1, <1>4
       DEF GlobalSeat, GlobalManager, SourceCancelled, DeviceDataOffer,
           FreshInv, SourceServesCopied
  <2> QED
    BY <1>2, <1>3, <2>1, <2>2 DEF FreshInv
<1>5. CASE SourceSend
  <2> DEFINE e == Head(toClient)
             code == IF /\ pastes[e.arg].mime \in PlainTextTypes
                        /\ clipboard_data # None
                     THEN clipboard_data ELSE None
  <2>1. SourceServesCopied'
    BY <1>1, <1>5 DEF SourceSend, FreshInv, SourceServesCopied
  <2>2. CASE UNCHANGED pastes
    BY <1>2, <1>3, <2>1, <2>2 DEF FreshInv
  <2>3. CASE pastes' = [pastes EXCEPT ![e.arg].fd = "closed", ![e.arg].got = code]
    <3>1. clipboard_data = copied /\ copied # None
      <4>1. e.obj \in ObjectId
        <5>1. e \in Events
          BY <1>5, HeadTailProperties DEF SourceSend, TypeOK
        <5> QED
          BY <5>1 DEF Events
      <4>2. e.obj = clipboard_source_id
        BY <1>5 DEF SourceSend, Recipient
      <4> QED
        BY <4>1, <4>2 DEF FreshInv, SourceServesCopied, ObjectId
    <3>2. pastes[e.arg].mime \in PlainTextTypes => code = copied
      BY <3>1
    <3> HIDE DEF e, code
    <3>3. FloorsReached'
      BY <1>1, <2>3, AnswerFields DEF FreshInv, FloorsReached
    <3>4. \A i \in DOMAIN pastes : pastes[i].floor \in Nat
      <4>1. \A i \in DOMAIN pastes : pastes[i] \in Pastes
        BY LenProperties, ElementOfSeq DEF TypeOK
      <4> QED
        BY <4>1 DEF Pastes
    <3>5. ASSUME NEW i \in DOMAIN pastes, pastes'[i].fd = "closed",
                 pastes[i].mime \in PlainTextTypes
          PROVE  pastes'[i].got # None /\ pastes'[i].got >= pastes[i].floor
      <4>1. CASE pastes'[i].got = copied
        BY <3>1, <3>4, <4>1 DEF FreshInv, FloorsReached, TypeOK
      <4>2. CASE pastes[i].fd = "closed" /\ pastes'[i].got = pastes[i].got
        BY <3>5, <4>2 DEF FreshInv, PastesAreFresh
      <4>3. \/ pastes'[i].got = code /\ i = e.arg
            \/ pastes[i].fd = "closed" /\ pastes'[i].got = pastes[i].got
        BY <2>3, <3>5, AnswerFields
      <4> QED
        BY <3>2, <3>5, <4>1, <4>2, <4>3
    <3>6. PastesAreFresh'
      BY <2>3, <3>5, AnswerFields DEF PastesAreFresh
    <3> QED
      BY <1>2, <2>1, <3>3, <3>6 DEF FreshInv
  <2> QED
    BY <1>5, <2>2, <2>3 DEF SourceSend
<1>6. CASE LogEvent
  <2>1. SourceServesCopied'
    BY <1>1, <1>6 DEF LogEvent, FreshInv, SourceServesCopied
  <2>2. CASE UNCHANGED pastes
    BY <1>2, <1>3, <2>1, <2>2 DEF FreshInv
  <2>3. ASSUME NEW k, pastes' = [pastes EXCEPT ![k].fd = "leaked"]
        PROVE  FloorsReached' /\ PastesAreFresh'
    BY <1>1, <2>3, AnswerFields DEF FreshInv, FloorsReached, PastesAreFresh
  <2> QED
    BY <1>2, <1>6, <2>1, <2>2, <2>3 DEF LogEvent, FreshInv
<1> QED
    BY <1>4, <1>5, <1>6 DEF WaylandDispatch

(* A code that is chosen queues behind all others.                         *)
LEMMA SendKeepsFresh ==
    ASSUME TypeOK, FreshInv, SendCopy \/ SendExit \/ SendClear
    PROVE  FreshInv'
<1>1. /\ UNCHANGED << clipboard_source_id, clipboard_data, copied, pastes >>
      /\ clicks' \in Nat /\ clicks <= clicks'
  <2>1. clicks' = clicks \/ clicks' = clicks + 1
    BY DEF SendCopy, SendExit, SendClear, SendOther, user
  <2>2. UNCHANGED << clipboard_source_id, clipboard_data, copied, pastes >>
    BY DEF SendCopy, SendExit, SendClear, SendOther, wayland_data, user
  <2> QED
    BY <2>1, <2>2 DEF TypeOK
<1>2. PICK m \in Messages :
          /\ channel' = Append(channel, m)
          /\ m.kind = "copy" => clicks < m.code /\ m.code = clicks'
  <2>1. CASE SendCopy
    <3>1. [kind |-> "copy", code |-> clicks + 1] \in Messages
      BY DEF TypeOK, Messages
    <3>2. clicks < clicks + 1
      BY DEF TypeOK
    <3> QED
      BY <2>1, <3>1, <3>2 DEF SendCopy
  <2>2. ASSUME NEW kind \in {"exit", "clear"}, SendOther(kind)
        PROVE  \E m \in Messages :
                  /\ channel' = Append(channel, m)
                  /\ m.kind = "copy" => clicks < m.code /\ m.code = clicks'
    <3>1. [kind |-> kind, code |-> None] \in Messages
      BY DEF Messages, None
    <3> QED
      BY <2>2, <3>1 DEF SendOther
  <2> QED
    BY <2>1, <2>2 DEF SendExit, SendClear
<1>3. /\ channel' \in Seq(Messages) /\ Len(channel') = Len(channel) + 1
      /\ \A i \in 1 .. Len(channel) : channel'[i] = channel[i]
      /\ channel'[Len(channel) + 1] = m
    BY <1>2, AppendProperties DEF TypeOK
<1>4. /\ Len(channel) \in Nat /\ DOMAIN channel = 1 .. Len(channel)
      /\ DOMAIN channel' = 1 .. Len(channel) + 1
    BY <1>3, LenProperties DEF TypeOK
<1>5. \A i \in DOMAIN channel' :
          \/ i \in DOMAIN channel /\ channel'[i] = channel[i]
          \/ i = Len(channel) + 1 /\ channel'[i] = m
    BY <1>3, <1>4
<1>6. \A i \in DOMAIN channel : channel[i].code \in Nat
  <2>1. \A i \in DOMAIN channel : channel[i] \in Messages
    BY <1>4, ElementOfSeq DEF TypeOK
  <2> QED
    BY <2>1 DEF Messages
<1>7. ChannelInOrder'
  <2>1. \A i \in DOMAIN channel' : channel'[i].kind = "copy" =>
            copied' < channel'[i].code /\ channel'[i].code <= clicks'
    BY <1>1, <1>2, <1>5, <1>6 DEF FreshInv, ChannelInOrder, TypeOK
  <2>2. ASSUME NEW i \in DOMAIN channel', NEW j \in DOMAIN channel', i < j,
               channel'[i].kind = "copy", channel'[j].kind = "copy"
        PROVE  channel'[i].code < channel'[j].code
    <3>1. i \in DOMAIN channel /\ channel'[i] = channel[i]
      BY <1>4, <1>5, <2>2
    <3>2. CASE j \in DOMAIN channel /\ channel'[j] = channel[j]
      BY <2>2, <3>1, <3>2 DEF FreshInv, ChannelInOrder
    <3>3. CASE channel'[j] = m
      <4>1. channel[i].code <= clicks /\ clicks < m.code
        BY <1>2, <2>2, <3>1, <3>3 DEF FreshInv, ChannelInOrder
      <4>2. m.code \in Nat
        BY DEF Messages
      <4> QED
        BY <1>6, <3>1, <3>3, <4>1, <4>2 DEF TypeOK
    <3> QED
      BY <1>5, <3>2, <3>3
  <2>3. copied' <= clicks'
    BY <1>1 DEF FreshInv, ChannelInOrder, TypeOK
  <2> QED
    BY <2>1, <2>2, <2>3 DEF ChannelInOrder
<1>8. SourceServesCopied'
    BY <1>1 DEF FreshInv, SourceServesCopied
<1>9. FloorsReached' /\ PastesAreFresh'
    BY <1>1, PastesKept DEF TypeOK
<1> QED
    BY <1>7, <1>8, <1>9 DEF FreshInv

(* The compositor and other clients do not touch the codes.                *)
LEMMA OthersKeepFresh ==
    ASSUME TypeOK, FreshInv,
           \/ Server \/ ServerSeatLost \/ OtherClientCopies
           \/ \E iface \in Interfaces : ServerAnnounce(iface)
           \/ \E mime \in PasteTypes : OtherClientPastes(mime)
           \/ \E i \in DOMAIN pastes : ReaderVanishes(i)
           \/ UNCHANGED vars
    PROVE  FreshInv'
<1> USE DEF wayland_data, user
<1>1. UNCHANGED << channel, clicks, copied, clipboard_source_id, clipboard_data >>
    BY DEF Server, ServerCreate, ServerBind, ServerOffer, ServerSetSelection,
           ServerDestroy, ServerRead, ServerSeatLost, OtherClientCopies,
           ServerAnnounce, OtherClientPastes, ReaderVanishes, vars
<1>2. ChannelInOrder' /\ SourceServesCopied'
    BY <1>1 DEF FreshInv, ChannelInOrder, SourceServesCopied
<1>3. CASE UNCHANGED pastes
  <2>1. FloorsReached' /\ PastesAreFresh'
    BY <1>1, <1>3, PastesKept DEF TypeOK
  <2> QED
    BY <1>2, <2>1 DEF FreshInv
<1>4. ASSUME NEW mime \in PasteTypes, OtherClientPastes(mime) PROVE FreshInv'
  <2> DEFINE p == [mime |-> mime, fd |-> "open", got |-> None, gone |-> FALSE,
                   floor |-> copied]
  <2>1. p \in Pastes /\ pastes' = Append(pastes, p)
    BY <1>4 DEF OtherClientPastes, Pastes, TypeOK, None
  <2>2. p.fd = "open" /\ p.floor = copied
    OBVIOUS
  <2> HIDE DEF p
  <2>3. /\ pastes' \in Seq(Pastes) /\ Len(pastes') = Len(pastes) + 1
        /\ \A i \in 1 .. Len(pastes) : pastes'[i] = pastes[i]
        /\ pastes'[Len(pastes) + 1] = p
    BY <2>1, AppendProperties DEF TypeOK
  <2>4. /\ Len(pastes) \in Nat /\ DOMAIN pastes = 1 .. Len(pastes)
        /\ DOMAIN pastes' = 1 .. Len(pastes) + 1
    BY <2>3, LenProperties DEF TypeOK
  <2>5. \A i \in DOMAIN pastes' :
            \/ i \in DOMAIN pastes /\ pastes'[i] = pastes[i]
            \/ pastes'[i] = p
    BY <2>3, <2>4
  <2>6. FloorsReached'
    <3>1. copied <= copied' /\ \A i \in DOMAIN pastes : pastes[i].floor <= copied
      BY <1>1 DEF FreshInv, FloorsReached, TypeOK
    <3> QED
      BY <1>1, <2>2, <2>5, <3>1 DEF FloorsReached
  <2>7. PastesAreFresh'
    BY <2>2, <2>5 DEF FreshInv, PastesAreFresh
  <2> QED
    BY <1>2, <2>6, <2>7 DEF FreshInv
<1>5. ASSUME NEW i \in DOMAIN pastes, ReaderVanishes(i) PROVE FreshInv'
  <2>1. pastes' = [pastes EXCEPT ![i].gone = TRUE]
    BY <1>5 DEF ReaderVanishes
  <2>2. \A j \in DOMAIN pastes :
            /\ pastes'[j].floor = pastes[j].floor
            /\ pastes'[j].mime = pastes[j].mime
            /\ pastes'[j].fd = pastes[j].fd
            /\ pastes'[j].got = pastes[j].got
    <3>1. \A j \in DOMAIN pastes : pastes[j] \in Pastes
      BY LenProperties, ElementOfSeq DEF TypeOK
    <3> QED
      BY <2>1, <3>1 DEF Pastes
  <2>3. FloorsReached' /\ PastesAreFresh'
    BY <1>1, <2>1, <2>2 DEF FreshInv, FloorsReached, PastesAreFresh
  <2> QED
    BY <1>2, <2>3 DEF FreshInv
<1> QED
    BY <1>3, <1>4, <1>5
       DEF Server, ServerCreate, ServerBind, ServerOffer, ServerSetSelection,
           ServerDestroy, ServerRead, ServerSeatLost, OtherClientCopies,
           ServerAnnounce, vars

(* Every step preserves FreshInv.                                          *)
LEMMA FreshStep == TypeOK /\ FreshInv /\ [Next]_vars => FreshInv'
<1> SUFFICES ASSUME TypeOK, FreshInv, [Next]_vars PROVE FreshInv'
    OBVIOUS
<1> QED
    BY ReceiveKeepsFresh, DispatchKeepsFresh, SendKeepsFresh, OthersKeepFresh
       DEF Next

(* A paste of a plain-text type that the loop has answered was answered    *)
(* with a code, and with none older than the newest code that the loop had *)
(* accepted when the paste was requested: takeovers, cancellations and     *)
(* newer codes may come in between in any number and order.                *)
THEOREM PastesFresh == Spec => []PastesAreFresh
<1>1. FreshInv => PastesAreFresh
    BY DEF FreshInv
<1> QED
    BY <1>1, FreshInitially, FreshStep, ClipboardTypeCorrect, PTL DEF Spec

-----------------------------------------------------------------------------
(* The refinement.                                                         *)

mapped == << copied, ProvidedCode, Answers >>

Images == [type : {"plain", "other"}, floor : Nat, got : Nat,
           fd : {"open", "closed", "leaked"}]

(* What a step does to the pastes, it does to their images.                *)
LEMMA AnswersKept ==
    ASSUME UNCHANGED pastes PROVE UNCHANGED Answers
    BY DEF Answers, Answer

(* The pastes are a sequence of records of pastes.                         *)
LEMMA PasteFields ==
    ASSUME TypeOK
    PROVE  /\ \A i \in DOMAIN pastes : pastes[i] \in Pastes
           /\ pastes = [i \in DOMAIN pastes |-> pastes[i]]
           /\ DOMAIN pastes = 1 .. Len(pastes) /\ Len(pastes) \in Nat
<1>1. pastes \in Seq(Pastes)
    BY DEF TypeOK
<1> QED
    BY <1>1, LenProperties, ElementOfSeq

(* Answering a paste answers its image.                                    *)
LEMMA AnswersClosed ==
    ASSUME TypeOK, NEW k, NEW code \in Nat,
           pastes' = [pastes EXCEPT ![k].fd = "closed", ![k].got = code]
    PROVE  \/ UNCHANGED Answers
           \/ /\ k \in DOMAIN Answers
              /\ Answers' = [Answers EXCEPT ![k] = Promise!Answered(@, code)]
<1>1. CASE k \in DOMAIN pastes
  <2>1. \A i \in DOMAIN pastes : pastes[i] \in Pastes
    BY PasteFields
  <2>2. DOMAIN pastes' = DOMAIN pastes
    OBVIOUS
  <2>3. \A i \in DOMAIN pastes : i # k => Answer(pastes'[i]) = Answer(pastes[i])
    BY DEF Answer
  <2>4. Answer(pastes'[k]) = Promise!Answered(Answer(pastes[k]), code)
    <3>1. /\ pastes'[k].mime = pastes[k].mime
          /\ pastes'[k].floor = pastes[k].floor
          /\ pastes'[k].got = code /\ pastes'[k].fd = "closed"
      BY <1>1, <2>1 DEF Pastes
    <3> QED
      BY <3>1 DEF Answer, Promise!Answered
  <2> QED
    BY <1>1, <2>2, <2>3, <2>4 DEF Answers
<1>2. CASE k \notin DOMAIN pastes
  <2>1. pastes' = pastes
    BY <1>2, PasteFields
  <2> QED
    BY <2>1, AnswersKept
<1> QED
    BY <1>1, <1>2

(* A paste that is abandoned abandons its image.                           *)
LEMMA AnswersLeaked ==
    ASSUME TypeOK, NEW k, pastes' = [pastes EXCEPT ![k].fd = "leaked"]
    PROVE  \/ UNCHANGED Answers
           \/ /\ k \in DOMAIN Answers
              /\ Answers' = [Answers EXCEPT ![k].fd = "leaked"]
<1>1. CASE k \in DOMAIN pastes
  <2>1. \A i \in DOMAIN pastes : pastes[i] \in Pastes
    BY PasteFields
  <2>2. DOMAIN pastes' = DOMAIN pastes
    OBVIOUS
  <2>3. \A i \in DOMAIN pastes : i # k => Answer(pastes'[i]) = Answer(pastes[i])
    BY DEF Answer
  <2>4. Answer(pastes'[k]) = [Answer(pastes[k]) EXCEPT !.fd = "leaked"]
    BY <1>1, <2>1 DEF Answer, Pastes
  <2> QED
    BY <1>1, <2>2, <2>3, <2>4 DEF Answers
<1>2. CASE k \notin DOMAIN pastes
  <2>1. pastes' = pastes
    BY <1>2, PasteFields
  <2> QED
    BY <2>1, AnswersKept
<1> QED
    BY <1>1, <1>2

(* The images of a sequence of pastes are a sequence as long.              *)
LEMMA ImagesOfPastes ==
    ASSUME NEW q \in Seq(Pastes)
    PROVE  /\ [i \in DOMAIN q |-> Answer(q[i])] \in Seq(Images)
           /\ Len([i \in DOMAIN q |-> Answer(q[i])]) = Len(q)
           /\ DOMAIN q = 1 .. Len(q)
<1>1. DOMAIN q = 1 .. Len(q) /\ Len(q) \in Nat
    BY LenProperties
<1>2. \A i \in 1 .. Len(q) : Answer(q[i]) \in Images
  <2>1. \A i \in 1 .. Len(q) : q[i] \in Pastes
    BY ElementOfSeq
  <2> QED
    BY <2>1 DEF Answer, Pastes, Images
<1> DEFINE f == [i \in 1 .. Len(q) |-> Answer(q[i])]
<1> HIDE DEF Images
<1>3. f \in [1 .. Len(q) -> Images]
    BY <1>2
<1> QED
    BY <1>1, <1>3

(* A new paste appends its image.                                          *)
LEMMA AnswersAppended ==
    ASSUME TypeOK, NEW p \in Pastes, pastes' = Append(pastes, p)
    PROVE  Answers' = Append(Answers, Answer(p))
<1>1. /\ pastes' \in Seq(Pastes) /\ Len(pastes') = Len(pastes) + 1
      /\ \A i \in 1 .. Len(pastes) : pastes'[i] = pastes[i]
      /\ pastes'[Len(pastes) + 1] = p
      /\ pastes \in Seq(Pastes) /\ Len(pastes) \in Nat
  <2>1. pastes \in Seq(Pastes)
    BY DEF TypeOK
  <2> QED
    BY <2>1, AppendProperties, LenProperties
<1>2. /\ Answers \in Seq(Images) /\ Len(Answers) = Len(pastes)
      /\ DOMAIN pastes = 1 .. Len(pastes)
    BY <1>1, ImagesOfPastes DEF Answers
<1>3. /\ Answers' \in Seq(Images) /\ Len(Answers') = Len(pastes) + 1
      /\ DOMAIN pastes' = 1 .. Len(pastes) + 1
      /\ Answers' = [i \in DOMAIN pastes' |-> Answer(pastes'[i])]
  <2>1. Answers' = [i \in DOMAIN pastes' |-> Answer(pastes'[i])]
    BY DEF Answers, Answer
  <2> QED
    BY <1>1, <2>1, ImagesOfPastes
<1>4. Answer(p) \in Images
    BY DEF Answer, Pastes, Images
<1>5. /\ Append(Answers, Answer(p)) \in Seq(Images)
      /\ Len(Append(Answers, Answer(p))) = Len(pastes) + 1
      /\ \A i \in 1 .. Len(pastes) :
            Append(Answers, Answer(p))[i] = Answers[i]
      /\ Append(Answers, Answer(p))[Len(pastes) + 1] = Answer(p)
    BY <1>2, <1>4, AppendProperties
<1>6. \A i \in 1 .. Len(pastes) : Answers'[i] = Answers[i]
    BY <1>1, <1>2, <1>3 DEF Answers
<1>7. Answers'[Len(pastes) + 1] = Answer(p)
    BY <1>1, <1>3
<1>8. \A i \in 1 .. Len(pastes) + 1 :
          Answers'[i] = Append(Answers, Answer(p))[i]
  <2>1. \A i \in 1 .. Len(pastes) + 1 :
            i \in 1 .. Len(pastes) \/ i = Len(pastes) + 1
    BY <1>1
  <2> QED
    BY <1>5, <1>6, <1>7, <2>1
<1> QED
    BY <1>3, <1>5, <1>8, SeqEqual

-----------------------------------------------------------------------------
(* The steps.                                                              *)

(* Initial states map to initial states.                                   *)
LEMMA MappedInitially == Init => Promise!Init
    BY DEF Init, Promise!Init, ProvidedCode, Answers, Promise!Nothing, None

(* Steps that accept no code and touch no paste only publish or withdraw:  *)
(* what is provided is the newest code or nothing.                         *)
LEMMA OnlyProvided ==
    ASSUME TypeOK, FreshInv, TypeOK', FreshInv', UNCHANGED << copied, pastes >>
    PROVE  [Promise!Next]_mapped
<1>1. UNCHANGED Answers
    BY AnswersKept
<1>2. ProvidedCode' = None \/ (ProvidedCode' = copied' /\ copied' # None)
    BY DEF ProvidedCode, FreshInv, SourceServesCopied
<1>3. CASE ProvidedCode' = None
    BY <1>1, <1>3 DEF Promise!Next, Promise!Withdraw, Promise!Nothing, None
<1>4. CASE ProvidedCode' = copied' /\ copied' # None
    BY <1>1, <1>4 DEF Promise!Next, Promise!Publish, Promise!Nothing, None
<1> QED
    BY <1>2, <1>3, <1>4

(* Accepting a code maps to Accept.                                        *)
LEMMA ReceiveCopyMapped ==
    ASSUME TypeOK, FreshInv, TypeOK', FreshInv', ReceiveCopy
    PROVE  [Promise!Next]_mapped
<1>1. UNCHANGED pastes /\ copied' = Head(channel).code
      /\ clipboard_data' = copied' /\ UNCHANGED selection
      /\ channel # <<>> /\ Head(channel).kind = "copy"
    BY DEF ReceiveCopy, Receive, CopyDispatch, compositor
<1>2. copied' > copied
  <2>1. /\ 1 \in DOMAIN channel /\ Head(channel) = channel[1]
        /\ channel[1] \in Messages
    <3>1. /\ channel \in Seq(Messages) /\ channel # <<>>
          /\ DOMAIN channel = 1 .. Len(channel) /\ Len(channel) \in Nat
      BY <1>1, LenProperties DEF TypeOK
    <3> QED
      BY <3>1, ElementOfSeq
  <2>2. copied < channel[1].code
    BY <1>1, <2>1 DEF FreshInv, ChannelInOrder
  <2>3. channel[1].code \in Nat
    BY <2>1 DEF Messages
  <2> QED
    BY <1>1, <2>1, <2>2, <2>3 DEF TypeOK
<1>3. copied' \in Nat
    BY DEF TypeOK
<1>4. ProvidedCode' = copied' \/ (ProvidedCode = None /\ ProvidedCode' = None)
  <2>1. CASE clipboard_source_id # None
    <3>1. UNCHANGED clipboard_source_id
      BY <2>1 DEF ReceiveCopy, CopyDispatch
    <3> QED
      BY <1>1, <3>1 DEF ProvidedCode
  <2>2. CASE clipboard_source_id = None
    BY <1>1, <2>2 DEF ProvidedCode
  <2> QED
    BY <2>1, <2>2
<1>5. UNCHANGED Answers
    BY <1>1, AnswersKept
<1> QED
    BY <1>2, <1>3, <1>4, <1>5
       DEF Promise!Next, Promise!Accept, Promise!Nothing, None

(* Serving a paste maps to AnswerPaste.                                    *)
LEMMA SourceSendMapped ==
    ASSUME TypeOK, FreshInv, SourceSend
    PROVE  [Promise!Next]_mapped
<1> DEFINE e == Head(toClient)
           writes == /\ pastes[e.arg].mime \in PlainTextTypes
                     /\ clipboard_data # None
           code == IF writes THEN clipboard_data ELSE None
<1>1. UNCHANGED << copied, ProvidedCode >>
    BY DEF SourceSend, Dispatch, wayland_data, compositor, ProvidedCode
<1>2. CASE UNCHANGED pastes
    BY <1>1, <1>2, AnswersKept DEF mapped
<1>3. CASE pastes' = [pastes EXCEPT ![e.arg].fd = "closed", ![e.arg].got = code]
  <2>1. clipboard_data = copied /\ copied # None
    <3>1. e \in Events
      BY HeadTailProperties DEF SourceSend, Dispatch, TypeOK
    <3>2. e.obj \in ObjectId
      BY <3>1 DEF Events
    <3>3. e.obj = clipboard_source_id
      BY DEF SourceSend, Dispatch, Recipient
    <3> QED
      BY <3>2, <3>3 DEF FreshInv, SourceServesCopied, ObjectId
  <2>2. code \in Nat
    BY DEF TypeOK, None
  <2>3. \/ UNCHANGED Answers
        \/ /\ e.arg \in DOMAIN Answers
           /\ Answers' = [Answers EXCEPT ![e.arg] = Promise!Answered(@, code)]
    <3> HIDE DEF e, code
    <3> QED
      BY <1>3, <2>2, AnswersClosed
  <2>4. ASSUME e.arg \in DOMAIN Answers
        PROVE  code \in IF Answers[e.arg].type = "plain"
                        THEN (Answers[e.arg].floor .. copied) \ {None}
                        ELSE {None}
    <3>1. e.arg \in DOMAIN pastes
      BY <2>4 DEF Answers
    <3>2. pastes[e.arg] \in Pastes /\ pastes[e.arg].floor <= copied
      BY <3>1, PasteFields DEF FreshInv, FloorsReached
    <3>3. /\ Answers[e.arg].type = "plain" <=> pastes[e.arg].mime \in PlainTextTypes
          /\ Answers[e.arg].floor = pastes[e.arg].floor
      BY <3>1 DEF Answers, Answer
    <3>4. pastes[e.arg].floor \in Nat
      BY <3>2 DEF Pastes
    <3>5. copied \in Nat /\ copied # None
      BY <2>1 DEF TypeOK
    <3>6. CASE pastes[e.arg].mime \in PlainTextTypes
      <4>1. code = copied
        BY <2>1, <3>6
      <4> QED
        BY <3>2, <3>3, <3>4, <3>5, <3>6, <4>1
    <3>7. CASE pastes[e.arg].mime \notin PlainTextTypes
      BY <3>3, <3>7
    <3> QED
      BY <3>6, <3>7
  <2> QED
    <3> HIDE DEF e, code
    <3>1. CASE UNCHANGED Answers
      BY <1>1, <3>1 DEF mapped
    <3>2. CASE /\ e.arg \in DOMAIN Answers
               /\ Answers' = [Answers EXCEPT ![e.arg] = Promise!Answered(@, code)]
      BY <1>1, <2>4, <3>2
         DEF Promise!Next, Promise!AnswerPaste, Promise!Nothing, None
    <3> QED
      BY <2>3, <3>1, <3>2
<1> QED
    BY <1>2, <1>3 DEF SourceSend

(* An unhandled event abandons a paste or maps to a stutter.               *)
LEMMA LogEventMapped ==
    ASSUME TypeOK, FreshInv, LogEvent
    PROVE  [Promise!Next]_mapped
<1>1. UNCHANGED << copied, ProvidedCode >>
    BY DEF LogEvent, Dispatch, wayland_data, compositor, ProvidedCode
<1>2. CASE UNCHANGED pastes
    BY <1>1, <1>2, AnswersKept DEF mapped
<1>3. ASSUME NEW k, pastes' = [pastes EXCEPT ![k].fd = "leaked"]
      PROVE  [Promise!Next]_mapped
    BY <1>1, <1>3, AnswersLeaked
       DEF mapped, Promise!Next, Promise!AbandonPaste
<1> QED
    BY <1>2, <1>3 DEF LogEvent

(* Another client's request of a paste maps to RequestPaste.               *)
LEMMA PasteMapped ==
    ASSUME TypeOK, NEW mime \in PasteTypes, OtherClientPastes(mime)
    PROVE  [Promise!Next]_mapped
<1> DEFINE p == [mime |-> mime, fd |-> "open", got |-> None, gone |-> FALSE,
                 floor |-> copied]
<1>1. UNCHANGED << copied, ProvidedCode >>
    BY DEF OtherClientPastes, user, wayland_data, compositor, ProvidedCode
<1>2. p \in Pastes /\ pastes' = Append(pastes, p)
    BY DEF OtherClientPastes, Pastes, TypeOK, None
<1>3. /\ Answer(p) = Promise!NewPaste(Answer(p).type)
      /\ Answer(p).type \in {"plain", "other"}
    BY DEF Answer, Promise!NewPaste, Promise!Nothing, None
<1> HIDE DEF p
<1>4. Answers' = Append(Answers, Answer(p))
    BY <1>2, AnswersAppended
<1> QED
    BY <1>1, <1>3, <1>4 DEF Promise!Next, Promise!RequestPaste

(* A reader that vanishes maps to a stutter.                               *)
LEMMA ReaderVanishesMapped ==
    ASSUME TypeOK, NEW i \in DOMAIN pastes, ReaderVanishes(i)
    PROVE  UNCHANGED mapped
<1>1. UNCHANGED << copied, ProvidedCode >>
    BY DEF ReaderVanishes, user, wayland_data, compositor, ProvidedCode
<1>2. \A j \in DOMAIN pastes : pastes[j] \in Pastes
    BY PasteFields
<1>3. pastes' = [pastes EXCEPT ![i].gone = TRUE]
    BY DEF ReaderVanishes
<1>4. /\ DOMAIN pastes' = DOMAIN pastes
      /\ \A j \in DOMAIN pastes : Answer(pastes'[j]) = Answer(pastes[j])
    BY <1>2, <1>3 DEF Answer, Pastes
<1>5. UNCHANGED Answers
    BY <1>4 DEF Answers
<1> QED
    BY <1>1, <1>5 DEF mapped

(* Every step maps to a step or a stutter.                                 *)
LEMMA MappedStep ==
    ASSUME TypeOK, FreshInv, TypeOK', FreshInv', [Next]_vars
    PROVE  [Promise!Next]_mapped
<1>1. CASE ReceiveExit \/ ReceiveClear
  <2>1. UNCHANGED << copied, pastes >>
    BY <1>1 DEF ReceiveExit, ReceiveClear, Receive, user
  <2> QED
    BY <2>1, OnlyProvided
<1>2. CASE GlobalSeat \/ GlobalManager \/ SourceCancelled \/ DeviceDataOffer
  <2>1. UNCHANGED << copied, pastes >>
    BY <1>2 DEF GlobalSeat, GlobalManager, SourceCancelled, DeviceDataOffer,
                Dispatch
  <2> QED
    BY <2>1, OnlyProvided
<1>3. CASE \/ SendCopy \/ SendExit \/ SendClear \/ Server
           \/ ServerSeatLost \/ OtherClientCopies
           \/ \E iface \in Interfaces : ServerAnnounce(iface)
           \/ UNCHANGED vars
  <2>1. UNCHANGED << copied, pastes >>
    BY <1>3 DEF SendCopy, SendExit, SendClear, SendOther, Server, ServerCreate,
                ServerBind, ServerOffer, ServerSetSelection, ServerDestroy,
                ServerRead, ServerSeatLost, OtherClientCopies, ServerAnnounce,
                user, vars
  <2> QED
    BY <2>1, OnlyProvided
<1>4. CASE \E i \in DOMAIN pastes : ReaderVanishes(i)
    BY <1>4, ReaderVanishesMapped
<1> QED
    BY <1>1, <1>2, <1>3, <1>4, ReceiveCopyMapped, SourceSendMapped,
       LogEventMapped, PasteMapped DEF Next, WaylandDispatch

(* The clipboard loop implements the selection it promises: what other     *)
(* clients can paste is the newest code accepted or nothing, and no paste  *)
(* is answered with a code that had been replaced when it was requested,   *)
(* whatever takeovers, cancellations and clearings come in between.        *)
THEOREM ClipboardImplementsSelection == Spec => SelectionPromised
<1>1. TypeOK /\ TypeOK' /\ FreshInv /\ FreshInv' /\ [Next]_vars
          => [Promise!Next]_<< copied, ProvidedCode, Answers >>
    BY MappedStep DEF mapped
<1>2. Spec => []FreshInv
    BY FreshInitially, FreshStep, ClipboardTypeCorrect, PTL DEF Spec
<1> QED
    BY <1>1, <1>2, MappedInitially, ClipboardTypeCorrect, PTL
       DEF Spec, SelectionPromised, Promise!Spec

=============================================================================
