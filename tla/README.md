# A TLA+ model of one-true-pairing

one-true-pairing is a tray icon for time-based one-time passwords. It lists the
secrets of a keyring in a menu over D-Bus; a click computes the code of an
account and offers it as the Wayland selection. These modules model what is hard
about that program: a start that depends on services that come and go, two
message-driven halves, concurrent handlers around an asynchronous lock, a
clipboard protocol in which both ends act without waiting for each other, and
the bytes on its way from a secret to a code and from a request to the socket.
Line numbers are in `PROJECT.json`, which maps every definition to the code it
stands for.

## The system

| part | source | state | operations | interacts with |
|---|---|---|---|---|
| clipboard loop | `one-true-pairing/src/main.rs` | `WaylandData`, the receiving end of the channel | `copy_dispatch`, `clear_dispatch`, `wayland_dispatch`, exit | channel from the menu; Wayland socket |
| tray menu | `one-true-pairing/src/notifier/mod.rs` | map label -> path under a `RwLock`, revision counter | `event`, `get_layout`, property getters | panel (D-Bus calls and signals); session; channel |
| secret session | `one-true-pairing/src/secrets/mod.rs` | connection, paths, algorithm, behind the `RwLock` `SECRET_SESSION` | `new`, `get_secrets`, `get_secret`, `drop_connection` | secrets service |
| transport encryption | `secrets/crypto.rs`, `secrets/dh.rs` | keys | key agreement, decoding | session |
| one-time passwords | `totp.rs` | none | URL and base32 decoding, HOTP, TOTP | menu |
| bus names, icon | `dbus_utils.rs`, `notifier/proxies.rs`, `main.rs` | none | waiting for a name, registering at hosts | bus |
| Wayland connection | `whale-land/src/connection.rs`, `socket-fd-ext` | id counter, socket locks | sending and receiving packets with descriptors | loop; compositor |
| Wayland packets | `whale-land/src/packet.rs`, `fixed.rs` | none | argument encoding and decoding | connection |
| protocol bindings | `whale-land/src/protocol` | none | generated (de)serialisers | loop |
| generator | `wlproto` | none | XML to Rust, at build time | none |

The menu's handlers are tasks that zbus starts per call; they and the main task
share `SECRET_SESSION`, a FIFO channel of `ClipboardMessage`s and the D-Bus
connection. The main task owns `WaylandData` alone and is driven by
`tokio::select!`. What makes each part correct:

* start: an owner of a name is never missed; the strongest algorithm that the
  service accepts is used and both sides derive the same key; the start does not
  hang by itself; a panel with a host has the icon.
* menu: no change of the map goes unannounced; a click resolves to the account
  displayed; an Update reflects the keyring, but for labels that cannot be read; the
  last choice wins; calls return, even beside a handler that panics.
* session and shutdown: nobody uses the connection after it is dropped; Exit
  ends the program.
* passwords: the code is that of RFC 4226 for the key and the settings that were
  enrolled, however the URL spells them, and no URL makes it panic.
* clipboard loop: every request is legal when the compositor reads it; events
  reach the branch of their own object; the client's idea of who owns the
  selection agrees with the compositor's up to what is in flight; a paste gets
  a code no older than when it was asked for; a chosen code is published; codes,
  pastes and Exit are all dealt with.
* connection: packets are read whole whatever the fragments and the
  interruptions, and descriptors reach the message they belong to.
* packets, bindings, generator: decoding inverts encoding for every request and
  event; reading stays within the packet; the bindings are what the generator
  makes of the protocol.

`PROJECT.json` lists under `hazards` the places where these can go wrong.

## Modules

    Startup -> SecretTransport            one run of the program: its start ...
    Notifier, Totp                        ... its menu, from a click to a code ...
    Clipboard => Selection                ... and its loop, which implements Selection
    WaylandStream => PacketChannel        what Clipboard takes for granted below it:
    Codec -> Packet, WaylandCore,           whole packets, and arguments that
             ExtDataControl -> Wlproto      survive the wire

(`->` extends, `=>` is shown to implement.)

* `Startup` - `main` from the D-Bus connection to the loop, one step per await:
  `SubscribeToOwner`, `QueryOwner` and `NextOwner` are `wait_for_object`, used
  for the secrets service and for the icon watcher; `AlgorithmRefused` to
  `GetSecrets` are `SecretSession::new` and the first `get_secrets`, each
  call failing when its owner or its object is gone; `CheckVersion`,
  `RegisterIcon`, `ListenForHosts` and `NewHost` register the icon, the last one
  in the loop. The service, its user, the collections, the watcher and the hosts
  (external) come, go and answer at any moment. `missed` records the two signals
  that may be sent before the code listens to them: the completion of a prompt
  and a host between registration and subscription.
* `SecretTransport` - the two `CryptoAlgorithm`s and the key agreement, over any
  small group: private keys as they are drawn, numbers as digits with and
  without leading zeros (`ToBeBytes`, `FromBeSlice`), what each algorithm takes
  for a valid output.
* `Notifier` - the handlers of the menu as tasks with one step per await, the
  session's lock (derived from where the tasks are suspended), the map, the
  panel that fetches one layout after each announcement, the keyring that the
  user edits, and main's shutdown. `ReadLabel` reads the label of one item or
  skips it, as the code does on any error of the service, whether or not the item
  still exists; `skipped` records what the last Update skipped. `Panic` is an
  `expect` that fails in `get_secrets` or on a secret that is not UTF-8: the
  executor of `zbus` (async-executor 1.13.3, by `Cargo.lock`) catches a panic in
  the task it polls, so that this handler ends with its guard and its reference
  dropped and without a reply (`"panicked"`), while the others go on
  (`HandlersPanic` says whether this may happen). A task holds a reference to the
  connection from the call to its reply or panic; `DropConnection` and `EndMain`
  are `drop_connection` and the end of `graceful_shutdown`.
* `Totp` - from a decoded secret to the digits copied: `ReadProperty` is one
  round of the loop over the properties of the URL, then `DecodeSecret`,
  `ResolveAlgorithm`, `Hash` (any bytes) and `CopyCode`. `Urldecode`, base 32
  and the truncation work on bytes and bits, as the code does. `IsUtf8` is what
  `from_utf8` accepts, in full: the lengths of characters, with nothing overlong,
  no surrogate and nothing past the last code point. `Encode32` and
  `Escaped` are the issuer's side (external; RFC 4648 and RFC 3986), against
  which decoding is checked.
* `Clipboard` - the main loop with `WaylandData`, from the moment `get_registry`
  is sent. Each handler runs to completion on the one main task and is one
  action: `ReceiveCopy`, `ReceiveClear`, `ReceiveExit` for the branch on the
  channel, `GlobalSeat`, `GlobalManager`, `SourceSend`, `SourceCancelled`,
  `DeviceDataOffer` and `LogEvent` for the branches of `wayland_dispatch`. The
  variables have the names of the fields. The packets a handler sends are
  appended to `toServer` and read one by one by the compositor (`Server...`,
  external), which appends events to `toClient`; other clients copy
  (`OtherClientCopies`) and paste (`OtherClientPastes`) at any time. The
  compositor reads only what its protocol allows (`Legal`); a request that is
  not legal stays at the head of the queue and violates `RequestsLegal`.
* `Selection` - what the loop promises the desktop, with no Wayland in it: codes
  are accepted, each newer than the last; what other clients can paste is the
  newest one or nothing; an answered paste has a code that was the newest at some
  moment since it was requested. `Promise` in `Clipboard` is its refinement
  mapping: what is provided is the code of the source that is both ours and
  selected.
* `PacketChannel` - the abstract channel that `Clipboard` assumes: the packets
  sent are received whole, once, in order, each with its own descriptors, until
  the client loses its place (`Safety`), and those that are due are received.
* `WaylandStream` - `recv_packet` over a stream socket, called anew in each round
  of `select!`. The unit is the 32-bit word. `RecvFirst`, `RecvHeader`,
  `ReadSize`, `HeaderError`, `RecvEmptyPayload`, `RecvPayload` and
  `ReturnPacket` are its steps; `Suspend` is a read that would block, and
  `TakeOther` another branch of `select!`, which drops the future with what it
  holds (`Restart`). A read that finds data does not suspend, so only a future
  that found the socket empty is dropped. The compositor (external) flushes any
  prefix of its buffer, with the queued descriptors on the first word. A header
  read from the wrong offset is an error or announces any size.
* `Packet` - `Packet` and `PacketReader`: each push and read function, the
  header, alignment, the errors and the one subtraction that may underflow.
* `WaylandCore`, `ExtDataControl` - every request and event of the generated
  bindings, in the four forms the code has of each: handler, proxy, and the two
  structures of arguments.
* `Wlproto` - how the generator turns requests and events of the XML into those
  forms.
* `Codec` - one packet from its arguments to its arguments, through every
  encoder and every decoder that the bindings have for it, with the compositor's
  liberties: strings left out, events newer than the bindings, payloads read out
  of place. An argument's value is chosen as it is pushed, from what its type
  allows (`Arguments`; `push_str` asserts that a string holds no NUL).
  `BindingsAssumption` says of the tables of procedures that the lists which
  encode and decode an interface's packets agree and that opcodes are less than
  `Byte`.
* `MCStartup`, `MCNotifier`, `MCTotp`, `MCClipboard`, `MCWaylandStream`, `MCCodec`
  - the instances that TLC checks.
* `StartupProofs`, `NotifierProofs`, `TotpProofs`, `StreamProofs`, `CodecProofs`
  and, for the loop, `ClipboardProofs` and `ProtocolProofs` - theorems and proofs.
* `Elementary` - lemmas that several of them share: quotients and remainders,
  parts of sequences, induction over a set, recursive functions.

Operators headed "Mutated form" are not part of the model: each is a plausible
bug, and `PROJECT.json` says which definition it stands in for and which
property then fails.

Abstractions. In `Clipboard` and `Notifier` a one-time code is the number of the
click it answers (so "newer" has a meaning), a label is its rank in the
`BTreeMap`, a descriptor is the number of the paste, and `None` is id 0. The
loop's branch for a closed channel is left out (main keeps a sender, so it never
closes). `IdsAssumption` keeps the 32-bit counter below the compositor's range of
ids, which the program would reach after 2^32 codes. Events on menu entries that
only log (separator, ids out of range, other event kinds) and properties that
only read change no state and are left out. In `SecretTransport` HKDF is
injective and AES gives the text back to who has the key and the vector and bad
padding to everybody else. In `Packet` a byte has `Byte` values. In `Totp` an
HMAC may have any bytes of its length; the prefix of the URL, its label and the
clock are left out.

## Runs

| run | question | bounds |
|---|---|---|
| `startup` | Does the start notice owners, agree on keys, never hang by itself, and keep its icon? | the group modulo 23, numbers of 3 digits in base 4, 2 starts of each owner, 1 deleted of 2 collections, 2 unread signals |
| `notifier` | Are the connection, the displayed layout, clicks and Updates right under every interleaving? Are calls answered, and what can keep main from ending? | 2 tasks, 3 calls, 1 edit, 3 items of which 2 share a label, labels that cannot be read, panics, fairness |
| `notifier_exit` | violation: does Exit end the program? | 2 tasks, 3 calls, 2 items |
| `notifier_stale` | violation: is the code that of the account displayed? | 2 tasks, 4 calls, 1 edit, 2 items |
| `totp` | Is the code that of the key and settings enrolled, for every spelling? | URLs of up to 2 of 112 properties, keys of 0 to 11 bytes, names of characters of 1 to 4 bytes and names that are no UTF-8, HMACs with each offset |
| `clipboard` | Is the protocol kept, is ownership tracked, are codes published, is `Selection` implemented? | 3 codes, 2 copies by others, 1 paste, 3 globals, Exit |
| `clipboard_clear` | Is the protocol kept with `Clear` (handled but never sent), a lost seat, readers that vanish? | 2 codes, 1 copy, 1 paste, 2 globals, 1 seat lost |
| `clipboard_live` | Is everything dealt with under fair polling? | 2 codes, 1 copy, 1 paste, 2 globals |
| `stream` | Does `recv_packet` implement `PacketChannel` until it loses its place, what makes it lose it, and are other branches taken? | 2 packets of 3 shapes, any fragments, mixed descriptors, 2 interruptions, end of file |
| `stream_bare` | violation: does every packet arrive? | 1 packet |
| `stream_cancel` | violation: is the place in the stream kept? | 2 packets, 1 interruption |
| `codec` | Do all encoders and decoders of all messages agree, within bounds, and does the generator make them? | bytes of 16 values, arguments at the edges, payloads misread by 1 or 2 words |

Why the bounds suffice. The start has at most two waits, each against an owner
that may already be there, leave and return, so two starts contain every order of
announcement, query and subscription; 23 is the smallest safe prime whose keys
have one, two or three digits in base 4, so leading zeros occur. The interesting
histories of the clipboard are made of a code with no source, a code on a live
source and a code on a source whose cancellation is in flight, followed by
another; three codes and two takeovers contain each pair of them. Three globals
allow a duplicate of each kind in any order. In the menu every interaction is
between two handlers, or a handler and main; three calls allow a fetch, an Update
and a click, two Updates and a fetch, or Exit with two others, and every Update may
change the map, because labels may fail to be read. On the stream two packets put
every pair of shapes (no payload, a descriptor, a longer payload) next to each
other, cut at every word and interrupted twice. Of the packets what matters is
the length of strings and arrays modulo 4 and the largest that fits; with bytes
of 16 values the 16-bit size is 255 and both sides of the limit are reached. Keys
of 0 to 11 bytes have each number of base 32 characters modulo 8, twice. The
proofs cover every value of the bounds. Deadlock is not checked: the program
stops on Exit, and the environment stops at its bounds.

Fairness: the main task is polled wherever it can go on, and nothing is assumed
of the bus, the services and the user (`Startup`); the executor polls ready
tasks, also after one has panicked, and the bus and the secrets service answer,
if only with an error, since the code waits without a timeout (`Notifier`); `tokio::select!` polls its branches in random order, so a
branch that stays ready is taken, and the compositor reads its socket
(`Clipboard`); the main task goes on wherever `recv_packet` can, another branch
that is ready is taken, and the compositor flushes what it wrote
(`WaylandStream`). Users, other clients, the announcement of globals, the sending
of packets and the closing of the connection are not assumed to happen.

## What the code does not do

The violation runs are listed with their lines under `findings`: Exit during
another call stops main and the handler on each other's lock; a click on a layout
that an Update has replaced copies another account's code; a future dropped by
`select!` within a packet loses the place in the stream; an event without
arguments is returned only when the next one arrives. Each has a counterpart that
holds and marks the exact window: `StuckOnlyOnSessionLock`, `ClickResolves`,
`FramingKeptUntilDrop` and `ChannelImplemented`.

Six more properties are stated in the modules, have no run of their own and do
not hold; each can be added to a configuration to see the counterexample.

* `RacedCopyPublished`: a code accepted while the cancellation of our source is
  unread is stored on that source and dropped with it.
* `EarlyCopyPublished`: a code accepted before the compositor has announced seat
  and manager is stored, and nothing publishes it when the device arrives.
  (`CopyPublished` holds for every code but those of these two.)
* `NeverPanics` (with `ReadersVanish`): the write to the pipe of a paste whose
  reader has gone fails, and the `expect` ends the program.
* `OverlappedUpdateComplete`: of two Updates under way at once, the one with the
  older search result may be stored last.
* `LastClickWins`: the codes of two clicks are copied in the order in which their
  secrets come back.
* `DescriptorsMatch` (with `MixesDescriptors`): descriptors arrive with the first
  byte of their flush, not with the packet whose argument they are; and a read of
  an empty payload at such a byte makes the kernel close them.

Two behaviours are excluded by the premise of a property that holds. The start
that misses the answer to its prompt waits for ever (`StartupProgresses` counts it
as waiting for its user), and a service that restarts between the two attempts
gets a plain text session although it accepts the stronger algorithm
(`StrongestAlgorithm`). Besides, `set_session_output` says that on `false` "the
client should try another algorithm" (`secrets/crypto.rs:31`), while
`secrets/mod.rs:46` panics; `OutputInvalid` models the panic.

## Proofs

For every number of tasks, items, labels, calls and edits (assuming
`LabelsAssumption`: finitely many items, each with a label; and
`CallsAssumption`), `NotifierProofs` proves:

* `NotifierTypeCorrect`: `TypeOK`, inductive as it stands; `InsertType`,
  `DisplayedType` and `NthType` are the facts about maps it rests on.
* `ConnectionPresent`: `NoUseAfterDrop`. It is not inductive. `SessionInv` adds
  why it holds: before main drops the connection it is present; while main waits
  under the write guard no task is inside a read guard, since the guard was
  granted without readers and none passes a writer; and when main has ended no
  task is left, because `graceful_shutdown` waited for them.
* `DisplayedLayoutCurrent`: `LayoutCurrent`, from `LayoutInv`: the panel fetches
  one layout at a time, and whenever what it shows or is about to be sent
  differs from the map, an announcement is pending or about to be sent.
* `CurrentClicksResolve`: `ClickResolves`, from `ClickInv`: nobody knows of more
  writes of the map than there were, and a layout that was read, is displayed or
  was clicked on since the last write is that map, entry by entry.
* `LoneUpdateComplete`: `UpdateComplete`, from `UpdateInv`: while nothing overlaps
  the last Update, at most one task is inside an Update, and the map it has made
  lists (`Lists`) the items of the keyring but for those it has yet to ask for and
  those it could not read. `InsertLists` is the step: inserting an item adds it
  and no other, also when it replaces one with the same label.

For every id space, every set of MIME types and every bound, `ClipboardProofs`
proves:

* `ClipboardTypeCorrect`: `TypeOK`, inductive as it stands. It says that no packet
  names the null object although every field of `WaylandData` may be null;
  `ObtainType`, `PublishType` and `AnnouncementType` are the facts about packets
  it rests on.
* `PastesFresh`: `PastesAreFresh`, from `FreshInv`: codes wait in the channel in
  the order in which they were chosen; while the client holds a source, what
  that source serves is the code accepted last; and no paste asks for a code
  newer than that. The second part is what a `cancelled` or `Clear` between the
  request and the answer could break, so it must be carried along.

* `ClipboardImplementsSelection`: under the same invariants initial states of
  `Clipboard` map to initial states of `Selection`, and each step maps to a step
  or a stutter. `FreshInv` is what makes `SourceSend` an `AnswerPaste`: the code
  written is between the floor of the paste and the newest.

`ProtocolProofs` proves, for the same constants, what the runs `clipboard` and
`clipboard_clear` check of both directions of the socket:

* `RequestsAlwaysLegal`, `DispatchAlwaysSound`, `OwnershipAlwaysTracked`, together
  `ProtocolAlwaysKept`, and `CopyAlwaysPublished`. All rest on `WireInv`, which
  is inductive together with `TypeOK` and `FreshInv`, and which none of its
  parts would be alone:
  `RequestsInv` says of each unread request that it is legal once those before it
  are read, so that reading one leaves the rest legal; that in turn needs that
  what `WaylandData` names exists when everything is read (`ObjectsKnown`), and
  that the next id is new, which needs a count of the ids taken (`IdsCounted`);
  `SelectionInv` says where the newest source is - to be selected, selected, or
  its cancellation on the way - and that every other source of ours is being
  destroyed; `EventsInv` says what each unread event is about, which the
  compositor's future depends on; `ClaimInv` carries an undisputed copy to the
  moment when both ends have read everything.
* `DescriptorsKept`: `NoDescriptorLeak`, if nothing sends `Clear` (the program has
  no sender of it): every `send` on the way is for the source that is held, and
  no destroy request is on the way.

`ProtocolProofs` begins with the lemmas: what appending or reading a request or an event
leaves true of those that wait, in terms of the objects, ids and sources that
they create, use and destroy. The one assumption on a bound is `IdsAssumption`:
the counter stays below the compositor's ids as long as fewer than about 2^32
codes are copied.

For any shapes of packets and any number of packets and interruptions,
`StreamProofs` proves:

* `StreamTypeCorrect`: `StreamTypeOK`, and `FramingAlwaysKept`:
  `FramingKeptUntilDrop`, from `StreamInv`: the words in the compositor's buffer
  and in the socket follow each other without gap or repetition up to the place
  where the compositor goes on to write (`WordsInv`); what the future holds
  belongs to its phase (`BuffersInv`); and until a future is dropped within a
  packet, what it holds is the beginning of the next packet to be returned, and
  the first word in the socket is the one that follows (`PlaceKept`).
* `StreamImplementsChannel`: each step of `WaylandStream` is a step of
  `PacketChannel` or a stutter. `FdsInv` adds the descriptors: those of a packet
  wait with it in the buffer, come with its first word, and are held by the
  future that has begun it, unless a flush mixed them up. What makes a
  descriptor come with the first of the words flushed is an argument by a least
  number, since induction theorems cannot be instantiated.

For every group, every list of collections, and any number of owners, hosts and
losses, `StartupProofs` proves:

* `OwnerAlwaysNoticed`: `OwnerNotMissed`, from `OwnerInv`: from the subscription on
  main listens to the name it waits for, so that an owner found missing by the
  query is announced later.
* `StrongestAlgorithmUsed`: `StrongestAlgorithm`, from `AlgorithmInv`: the plain
  algorithm is at the head of the list only because this instance of the service
  refused the other one, or because another instance was there before.
* `IconStaysRegistered`: `IconKept`, from `IconInv`: once main is subscribed, a host
  without the icon has a signal unread.
* `SessionKeysAlwaysAgree`: `SessionKeysAgree`, for every odd modulus, generator,
  base and width in which the numbers of the group fit (`WidthAssumption`).
  `SessionInv` says that an open session is in plain text or both sides have its
  key. That the two keys are one when the session is opened is arithmetic:
  `PowerProduct` and `KeysCommute` (powers of powers modulo `Prime`), `DigitsRecovered` (a number comes back from its digits) and
  `PadStripped` (padding puts back the leading zeros that the service strips).
* `StartupTypeCorrect`: `StartupTypeOK`.

For any URLs of any number of properties and for every HMAC of the right length,
`TotpProofs` proves:

* `HotpNeverPanics`: `NoPanicInHotp`, from `ArgumentsInv`: the number of digits and
  the period that were let through are those that `hotp` asserts, and an HMAC of
  at least 20 bytes has four after each offset of four bits.
* `CodeAlwaysHotp`: `CodeIsHotp`. The code computes with bytes and remainders,
  `CodeIsHotp` with the bits of the HMAC; that both take the same number is that
  the bits of a byte are its digits in base 2, and that the number of a sequence
  of digits is recovered from its parts (`DigitNext`, `BitStringFacts`).
* `TypesKept`: `TotpTypeOK`: whatever text they are given, the decoders return
  bytes, or nothing.
* `UrlAlwaysApplied`: `UrlApplied` (`KeyRecovered` and `SettingsApplied`), if every
  property of `Properties` is `Decoded`: the last property of each name counts,
  whatever comes before it. `SecretInv` says of an unfinished URL which secret
  will be decoded.
* `IssuedIsDecoded`: `EachPropertyDecoded`, and with it `IssuedIsApplied`:
  `UrlApplied`, if every property is `Issued`: its secret is the base 32, in small
  letters or capitals, of any key, or it is not base 32 at all; its issuer is any
  bytes, which are to be assigned if they are UTF-8 and passed over if not; both
  are escaped, with any set of bytes sent plain that has no percent and no plus;
  and the other values are as they were meant. All properties
  of `MCTotp` are of this form. Decoding goes chunk by chunk: eight characters
  hold the bits of five bytes, and the last chunk those of what is left, after as
  many bits are tossed as the encoder filled in (`KeyBack`); each byte comes back
  from its one or three characters (`EscapedBack`).

For every even number `Byte` of values of a byte from 16 on, any object id, any
arguments of the right type (`CodecAssumption`) and any way of misreading a
payload, `CodecProofs` proves:

* `ArgumentsComeBack`: `RoundTrip`, `PacketsAccepted`: `WellFormedAccepted`,
  `PacketsDelimited`: `Delimited`, `ReadingInBounds`: `ReaderInBounds`, and
  `CodecTypes`: `CodecTypeOK`. They follow from `CodecInv`. Of any payload,
  `PacketInv` says that the reader is within it, because each read function
  returns there (`ReadArgFacts`), and `CallInv` that what was read has its type.
  `WireInv` says that the first two words on the socket name the object, the
  length and the opcode, also after the payload was exchanged for another part of
  the stream. `PlaceInv`, of a client that kept its place, says that the arguments
  are laid one after the other in the payload and among the descriptors, that the
  reader is at the end of the last one read, and that what was read is what was
  written; a step of reading keeps it because each kind of argument can be read
  back from where it is laid (`ReadBack`), and a step of writing because pushing
  leaves alone what was laid before (`LaidMore`). Below that are lemmas on words
  and their four bytes, on two's complement, and on the rounding up to words.

  `BindingsAssumption`, about the tables of procedures, is used as a fact. It
  contains no constant but `Byte`, and TLC evaluates it on the tables as they are
  in `WaylandCore` and `ExtDataControl`; for a larger `Byte` it says less.

Apart from `IdsAssumption` no proof uses the value of a bound.

Only model-checked:

* Liveness under fairness and `ENABLED`, which are out of the prover's reach:
  `StartupProgresses`, the liveness of the menu and of the loop,
  `OthersTakenWhileOpen`, `EveryPacketArrives`, and of `ChannelImplemented` the
  part that packets that are due are received.
* `Regenerated`: the generator's output is compared with the tables of the
  bindings, entry by entry; there is nothing in it that varies with a constant.

The library's induction theorems take an operator as a parameter, which the
provers cannot instantiate. Where a proof needs induction (the powers and digits
of `StartupProofs`, the chunks and escapes of `TotpProofs`, the first word of a
flush in `StreamProofs`), the statement is that a set of numbers is empty, and
the argument is the least number of it (`Induct`); that a recursive function satisfies its defining equation is proved
from that too (`Recursion`).

## Not modelled

The floats of `fixed.rs`; enums, descriptions and the text of the generator's
output; its XML reader; the D-Bus proxies and the property getters of the icon,
which declare or return constants; ciphers, hashes and the random generator;
logging and command-line options; the prefix and the label of the URL and the
clock. `send_packet` has one caller at a time that no other future drops, so the
interleaving of sends is not modelled; neither are the event handlers of the
connection, which the program does not register, nor the wrap of the id counter.

Left to do: the menu's channel joined to the loop, for the order of choices from
the click to the paste; and the queue of requests of `Clipboard` joined to
`Codec`, so that one model spans a code and its bytes.
