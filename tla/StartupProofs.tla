--------------------------- MODULE StartupProofs ---------------------------
(***************************************************************************)
(* Proofs about Startup, for any services, collections, groups and bounds: *)
(* the start never misses an owner, does not fall back to plain text by    *)
(* itself, agrees on a key with the secrets service, and keeps its icon in *)
(* the panel.                                                              *)
(***************************************************************************)
EXTENDS Startup, Elementary

-----------------------------------------------------------------------------
(* What the steps of main do outside wait_for_object, and what the others  *)
(* do, to the variables that the invariants are about.                     *)

(* The steps of main other than those of wait_for_object.                  *)
Elsewhere ==
    \/ AlgorithmRefused \/ AlgorithmAccepted \/ OutputInvalid
    \/ ListCollections \/ ReadCollectionLabel
    \/ CheckLocked \/ RequestUnlock
    \/ TriggerPrompt \/ ReceiveCompleted \/ AwaitPrompt
    \/ GetSecrets \/ ServeMenu \/ ConnectWayland
    \/ CheckVersion \/ RegisterIcon \/ ListenForHosts \/ NewHost

(* None of them waits for an owner or reads the changes of owners.         *)
LEMMA ElsewhereLeavesBus ==
    ASSUME Elsewhere
    PROVE  /\ pc \notin Names /\ UNCHANGED << bus_vars, waiting, accepted, host, missed >>
           /\ pc' # "secrets" /\ (pc' = "open session" => pc = "open session")
           /\ \/ AlgorithmRefused \/ AlgorithmAccepted
              \/ UNCHANGED << trying, algo >> /\ pc' # "open session"
           /\ \/ RegisterIcon \/ ListenForHosts \/ NewHost
              \/ /\ pc' \notin {"listen hosts", "loop"}
                 /\ pc \notin {"loop", "panicked"}
                 /\ UNCHANGED << item, new_host_stream, subscribed >>
<1> USE DEF Goto, Panic, Call, Call0, RegisterItem, Names, bus_vars,
            service_vars, session_vars, icon_vars
<1>1. CASE AlgorithmRefused
    BY <1>1 DEF AlgorithmRefused
<1>2. CASE AlgorithmAccepted
    BY <1>2 DEF AlgorithmAccepted
<1>3. CASE OutputInvalid
    BY <1>3 DEF OutputInvalid
<1>4. CASE ListCollections
    BY <1>4 DEF ListCollections
<1>5. CASE ReadCollectionLabel
    BY <1>5 DEF ReadCollectionLabel
<1>6. CASE CheckLocked
    BY <1>6 DEF CheckLocked
<1>7. CASE RequestUnlock
    BY <1>7 DEF RequestUnlock
<1>8. CASE TriggerPrompt
    BY <1>8 DEF TriggerPrompt
<1>9. CASE ReceiveCompleted
    BY <1>9 DEF ReceiveCompleted
<1>10. CASE AwaitPrompt
    BY <1>10 DEF AwaitPrompt
<1>11. CASE GetSecrets
    BY <1>11 DEF GetSecrets
<1>12. CASE ServeMenu
    BY <1>12 DEF ServeMenu
<1>13. CASE ConnectWayland
    BY <1>13 DEF ConnectWayland
<1>14. CASE CheckVersion
    BY <1>14 DEF CheckVersion
<1>15. CASE RegisterIcon
    BY <1>15 DEF RegisterIcon
<1>16. CASE ListenForHosts
    BY <1>16 DEF ListenForHosts
<1>17. CASE NewHost
    BY <1>17 DEF NewHost
<1> QED
    BY <1>1, <1>2, <1>3, <1>4, <1>5, <1>6, <1>7, <1>8, <1>9, <1>10, <1>11,
       <1>12, <1>13, <1>14, <1>15, <1>16, <1>17 DEF Elsewhere

-----------------------------------------------------------------------------
(* Owners.                                                                 *)

(* While main waits for an owner it listens to that name, from before it   *)
(* asks; elsewhere it does not wait.                                       *)
OwnerInv ==
    /\ owner \in [Names -> Nat] /\ starts \in [Names -> Nat]
    /\ changes \in Seq(BOOLEAN)
    /\ waiting \in {"subscribe", "query", "await"}
    /\ pc \notin Names => waiting = "subscribe"
    /\ pc \in Names /\ waiting # "subscribe" => listening = pc
    /\ OwnerNotMissed

(* Signals and starts are counted.                                         *)
LEMMA CountFacts ==
    ASSUME NEW n \in Nat
    PROVE  /\ n + 1 \in Nat /\ n + 1 # 0 /\ (n > 0 => n - 1 \in Nat)
           /\ n # 0 => n + 1 \notin {0, 1}
OBVIOUS

(* What Append does to a sequence, whatever its elements are.              *)
LEMMA AppendFacts ==
    ASSUME NEW S, NEW s \in Seq(S), NEW x \in S
    PROVE  /\ Append(s, x) \in Seq(S)
           /\ \A i \in DOMAIN s : /\ i \in DOMAIN Append(s, x)
                                   /\ Append(s, x)[i] = s[i]
           /\ Len(s) + 1 \in DOMAIN Append(s, x)
           /\ Append(s, x)[Len(s) + 1] = x
OBVIOUS

(* A change that was appended is the last one, or was there before.        *)
LEMMA AnnouncedLast ==
    ASSUME NEW s \in Seq(BOOLEAN)
    PROVE  \E last \in DOMAIN Append(s, TRUE) : Append(s, TRUE)[last]
<1>1. Len(s) + 1 \in DOMAIN Append(s, TRUE)
    OBVIOUS
<1>2. Append(s, TRUE)[Len(s) + 1]
    OBVIOUS
<1> QED
    BY <1>1, <1>2, Zenon

(* What Tail leaves of a sequence.                                         *)
LEMMA TailFacts ==
    ASSUME NEW S, NEW s \in Seq(S), s # <<>>
    PROVE  /\ Tail(s) \in Seq(S)
           /\ \A i \in DOMAIN s : i # 1 => /\ i - 1 \in DOMAIN Tail(s)
                                            /\ Tail(s)[i - 1] = s[i]
           /\ \A j \in DOMAIN Tail(s) : /\ j + 1 \in DOMAIN s
                                         /\ Tail(s)[j] = s[j + 1]
           /\ 1 \in DOMAIN s /\ Head(s) = s[1]
OBVIOUS

(* Initially main has not begun to wait.                                   *)
LEMMA OwnerInit == Init => OwnerInv
BY DEF Init, OwnerInv, OwnerNotMissed, Names, Nobody

(* A step of wait_for_object, with which main leaves the name only for     *)
(* `next`.                                                                 *)
LEMMA WaitKeepsOwner ==
    ASSUME OwnerInv, NEW name \in Names, NEW next, next \notin Names,
           WaitForObject(name, next)
    PROVE  OwnerInv'
<1> USE DEF OwnerInv, OwnerNotMissed, Present, WaitForObject
<1>0. << >> \in Seq(BOOLEAN)
    OBVIOUS
<1>1. CASE SubscribeToOwner
  <2>1. /\ pc = name /\ UNCHANGED << pc, owner, starts >>
        /\ listening' = pc /\ changes' = <<>> /\ waiting' = "query"
    BY <1>1 DEF SubscribeToOwner
  <2> QED
    BY <1>0, <2>1, Zenon
<1>2. CASE QueryOwner(next)
  <2>1. CASE Present(pc)
    <3>1. /\ pc' = next /\ UNCHANGED << owner, starts >>
          /\ changes' = <<>> /\ waiting' = "subscribe"
      BY <1>2, <2>1 DEF QueryOwner, Found
    <3> QED
      BY <1>0, <3>1, Zenon
  <2>2. CASE ~Present(pc)
    <3>1. /\ waiting = "query" /\ waiting' = "await"
          /\ UNCHANGED << pc, owner, starts, changes, listening >>
      BY <1>2, <2>2 DEF QueryOwner
    <3> QED
      BY <2>2, <3>1, Zenon
  <2> QED
    BY <2>1, <2>2
<1>3. CASE NextOwner(next)
  <2>1. CASE Head(changes)
    <3>1. /\ pc' = next /\ UNCHANGED << owner, starts >>
          /\ changes' = <<>> /\ waiting' = "subscribe"
      BY <1>3, <2>1 DEF NextOwner, Found
    <3> QED
      BY <1>0, <3>1, Zenon
  <2>2. CASE ~Head(changes)
    <3>1. /\ changes' = Tail(changes) /\ changes # <<>>
          /\ UNCHANGED << pc, waiting, listening, owner, starts >>
      BY <1>3, <2>2 DEF NextOwner
    <3>2. changes' \in Seq(BOOLEAN)
      BY <3>1, TailFacts, Zenon
    <3>3. ASSUME NEW i \in DOMAIN changes, changes[i]
          PROVE  \E j \in DOMAIN changes' : changes'[j]
      <4>1. i # 1
        BY <2>2, <3>1, <3>3, TailFacts, Zenon
      <4>2. i - 1 \in DOMAIN changes' /\ changes'[i - 1] = changes[i]
        BY <3>1, <3>3, <4>1, TailFacts, Zenon
      <4> QED
        BY <3>3, <4>2, Zenon
    <3> QED
      BY <3>1, <3>2, <3>3
  <2> QED
    BY <2>1, <2>2
<1> QED
    BY <1>1, <1>2, <1>3

(* The rest of main.                                                       *)
LEMMA ElsewhereKeepsOwner ==
    ASSUME OwnerInv, Elsewhere
    PROVE  OwnerInv'
BY ElsewhereLeavesBus DEF OwnerInv, OwnerNotMissed, bus_vars

(* A new owner is announced to who listens.                                *)
LEMMA StartsKeepsOwner ==
    ASSUME OwnerInv, NEW name \in Names, NEW max, Starts(name, max)
    PROVE  OwnerInv'
<1>0. (starts[name] + 1 # Nobody) = TRUE
  <2>1. starts[name] + 1 # Nobody
    BY DEF Nobody, OwnerInv
  <2> QED
    BY <2>1, Zenon
<1>1. /\ owner' = [owner EXCEPT ![name] = starts[name] + 1]
      /\ starts' = [starts EXCEPT ![name] = starts[name] + 1]
      /\ changes' = IF listening = name THEN Append(changes, TRUE) ELSE changes
      /\ UNCHANGED << pc, waiting, listening >>
    BY <1>0, Zenon DEF Starts, OwnerChanges
<1>2. owner' \in [Names -> Nat] /\ starts' \in [Names -> Nat]
    BY <1>1 DEF OwnerInv
<1>3. changes' \in Seq(BOOLEAN)
    BY <1>1, AppendFacts, Zenon DEF OwnerInv
<1>4. OwnerNotMissed'
  <2> SUFFICES ASSUME pc \in Names, waiting = "await", owner'[pc] # Nobody
               PROVE  \E i \in DOMAIN changes' : changes'[i]
    BY <1>1 DEF OwnerNotMissed, Present
  <2>1. listening = pc
    BY DEF OwnerInv
  <2>2. CASE name = pc
    <3>1. changes' = Append(changes, TRUE) /\ changes \in Seq(BOOLEAN)
      BY <1>1, <2>1, <2>2, Zenon DEF OwnerInv
    <3>2. \E last \in DOMAIN Append(changes, TRUE) :
              Append(changes, TRUE)[last]
      BY <3>1, AnnouncedLast
    <3> QED
      BY <3>1, <3>2, Zenon
  <2>3. CASE name # pc
    BY <1>1, <2>1, <2>3 DEF OwnerInv, OwnerNotMissed, Present
  <2> QED
    BY <2>2, <2>3
<1> QED
    BY <1>1, <1>2, <1>3, <1>4 DEF OwnerInv

(* An owner that leaves makes nobody miss one.                             *)
LEMMA LeavingKeepsOwner ==
    ASSUME OwnerInv, NEW name \in Names, OwnerChanges(name, Nobody),
           UNCHANGED starts
    PROVE  OwnerInv'
<1>1. /\ owner' = [owner EXCEPT ![name] = 0]
      /\ changes' = IF listening = name THEN Append(changes, FALSE) ELSE changes
      /\ UNCHANGED << pc, waiting, listening, starts >>
    BY DEF OwnerChanges, Nobody
<1>2. owner' \in [Names -> Nat]
    BY <1>1 DEF OwnerInv
<1>3. changes' \in Seq(BOOLEAN)
    BY <1>1, AppendFacts, Zenon DEF OwnerInv
<1>4. OwnerNotMissed'
  <2> SUFFICES ASSUME pc \in Names, waiting = "await", owner'[pc] # Nobody
               PROVE  \E i \in DOMAIN changes' : changes'[i]
    BY <1>1 DEF OwnerNotMissed, Present
  <2>1. listening = pc /\ name # pc
    BY <1>1 DEF OwnerInv, Nobody
  <2> QED
    BY <1>1, <2>1 DEF OwnerInv, OwnerNotMissed, Present
<1> QED
    BY <1>1, <1>2, <1>3, <1>4 DEF OwnerInv

(* Every step preserves OwnerInv.                                          *)
LEMMA OwnerStep == OwnerInv /\ [Next]_vars => OwnerInv'
<1> SUFFICES ASSUME OwnerInv, [Next]_vars PROVE OwnerInv'
    OBVIOUS
<1>0. ASSUME UNCHANGED << bus_vars, pc, waiting >> PROVE OwnerInv'
    BY <1>0 DEF OwnerInv, OwnerNotMissed, Present, bus_vars
<1>1. CASE WaitForObject("secrets", "open session")
    BY <1>1, WaitKeepsOwner DEF Names
<1>2. CASE WaitForObject("watcher", "version")
    BY <1>2, WaitKeepsOwner DEF Names
<1>3. CASE Elsewhere
    BY <1>3, ElsewhereKeepsOwner
<1>4. CASE ServiceStarts
    BY <1>4, StartsKeepsOwner DEF ServiceStarts, Names
<1>5. CASE ServiceExits
    BY <1>5, LeavingKeepsOwner DEF ServiceExits, Names
<1>6. CASE \E c \in existing : CollectionDeleted(c)
    BY <1>6, <1>0 DEF CollectionDeleted
<1>7. CASE \E answer \in {"completed", "dismissed"} : AnswerPrompt(answer)
    BY <1>7, <1>0 DEF AnswerPrompt
<1>8. CASE WatcherStarts
    BY <1>8, StartsKeepsOwner DEF WatcherStarts, Names
<1>9. CASE WatcherExits
    BY <1>9, LeavingKeepsOwner DEF WatcherExits, Names
<1>10. CASE HostRegisters
    BY <1>10, <1>0 DEF HostRegisters
<1>11. CASE HostLeaves
    BY <1>11, <1>0 DEF HostLeaves
<1>12. CASE UNCHANGED vars
    BY <1>12, <1>0 DEF vars
<1> QED
    BY <1>1, <1>2, <1>3, <1>4, <1>5, <1>6, <1>7, <1>8, <1>9, <1>10, <1>11,
       <1>12 DEF Next, Main, Desktop, Elsewhere

(* However the owners of the two names come and go, wait_for_object never  *)
(* awaits one that is there unannounced.                                   *)
THEOREM OwnerAlwaysNoticed == Spec => []OwnerNotMissed
<1>1. OwnerInv => OwnerNotMissed
    BY DEF OwnerInv
<1> QED
    BY <1>1, OwnerInit, OwnerStep, PTL DEF Spec

-----------------------------------------------------------------------------
(* The algorithm.                                                          *)

(* An owner has been announced.                                            *)
Announced == \E i \in DOMAIN changes : changes[i]

(* The weaker algorithm is left to try only because the service that is    *)
(* there refused the stronger, or one that was there before it failed.     *)
AlgorithmInv ==
    /\ trying \in {Algorithms, << Plain >>, <<>>}
    /\ pc = "secrets" => trying = Algorithms /\ algo = "none"
    /\ pc = "open session" => trying # <<>>
    /\ Present("secrets") \/ pc # "secrets" => starts["secrets"] # 0
    /\ listening = "secrets" /\ Announced => starts["secrets"] # 0
    /\ trying = << Plain >> /\ starts["secrets"] = 1 /\ Present("secrets") =>
           Dh \notin accepted
    /\ StrongestAlgorithm

(* The lists of algorithms that are left to try.                           *)
LEMMA TryingFacts ==
    /\ Algorithms # << Plain >> /\ Algorithms # <<>> /\ << Plain >> # <<>>
    /\ Tail(Algorithms) = << Plain >> /\ Tail(<< Plain >>) = <<>>
    /\ Head(Algorithms) = Dh /\ Head(<< Plain >>) = Plain
    /\ ~(Len(<< Plain >>) > 1) /\ Dh # Plain /\ Plain # "none"
BY DEF Algorithms, Dh, Plain

(* Nothing has been announced in no changes.                               *)
LEMMA NothingAnnounced ==
    ASSUME NEW s, s = <<>>
    PROVE  ~ \E i \in DOMAIN s : s[i]
<1>1. DOMAIN s = {}
    OBVIOUS
<1> QED
    BY <1>1, Zenon

(* Initially nothing was tried.                                            *)
LEMMA AlgorithmInit == Init => AlgorithmInv
<1> SUFFICES ASSUME Init PROVE AlgorithmInv
    OBVIOUS
<1>1. ~Announced
    BY NothingAnnounced, Zenon DEF Init, Announced
<1> QED
    BY <1>1, TryingFacts DEF Init, AlgorithmInv, StrongestAlgorithm, Present,
       Names, Nobody

(* While main waits for the service, an owner that it finds has started.   *)
LEMMA WaitKeepsAlgorithm ==
    ASSUME OwnerInv, AlgorithmInv, NEW name \in Names,
           NEW next \in {"open session", "version"}, WaitForObject(name, next),
           next = "open session" => name = "secrets"
    PROVE  AlgorithmInv'
<1>1. /\ pc = name /\ pc' \in {name, next}
      /\ UNCHANGED << owner, starts, accepted, trying, algo >>
    BY DEF WaitForObject, SubscribeToOwner, QueryOwner, NextOwner, Found,
           service_vars, session_vars
<1>2. CASE changes' = <<>>
  <2>1. ~Announced'
    BY <1>2, NothingAnnounced, Zenon DEF Announced
  <2>2. pc' # pc => starts["secrets"] # 0
    <3>1. CASE waiting = "await" /\ Head(changes) /\ changes # <<>>
      <4>1. Announced
        BY <3>1, TailFacts, Zenon DEF Announced, OwnerInv
      <4> QED
        BY <1>1, <3>1, <4>1 DEF AlgorithmInv, OwnerInv
    <3>2. CASE ~(waiting = "await" /\ Head(changes) /\ changes # <<>>)
      BY <1>1, <3>2 DEF WaitForObject, SubscribeToOwner, QueryOwner, NextOwner,
         Found, AlgorithmInv, OwnerInv, Names
    <3> QED
      BY <3>1, <3>2
  <2>3. trying # <<>> \/ pc' # "open session"
    BY <1>1, TryingFacts DEF AlgorithmInv, Names
  <2> QED
    BY <1>1, <2>1, <2>2, <2>3 DEF AlgorithmInv, StrongestAlgorithm, Present, Names
<1>3. CASE changes' # <<>> /\ UNCHANGED changes
  <2>1. Announced' <=> Announced
    BY <1>3 DEF Announced
  <2>2. pc' = pc /\ listening' = listening
    BY <1>3 DEF WaitForObject, SubscribeToOwner, QueryOwner, NextOwner, Found
  <2> QED
    BY <1>1, <2>1, <2>2 DEF AlgorithmInv, StrongestAlgorithm, Present
<1>4. CASE changes # <<>> /\ changes' = Tail(changes)
  <2>1. Announced' => Announced
    BY <1>4, TailFacts, Zenon DEF Announced, OwnerInv
  <2>2. (pc' = pc /\ listening' = listening) \/ changes' = <<>>
    BY <1>4 DEF WaitForObject, SubscribeToOwner, QueryOwner, NextOwner, Found
  <2> QED
    BY <1>1, <1>2, <2>1, <2>2 DEF AlgorithmInv, StrongestAlgorithm, Present
<1> QED
    BY <1>2, <1>3, <1>4 DEF WaitForObject, SubscribeToOwner, QueryOwner,
       NextOwner, Found

(* The rest of main: an attempt is the only step that matters.             *)
LEMMA ElsewhereKeepsAlgorithm ==
    ASSUME OwnerInv, AlgorithmInv, Elsewhere
    PROVE  AlgorithmInv'
<1>0. /\ pc \notin Names /\ UNCHANGED << bus_vars, accepted >>
      /\ pc' # "secrets" /\ (Announced' <=> Announced)
    BY ElsewhereLeavesBus DEF Announced, bus_vars
<1> USE <1>0 DEF AlgorithmInv, StrongestAlgorithm, Present, Names, bus_vars
<1>1. CASE AlgorithmRefused
  <2>1. /\ pc = "open session" /\ trying' = Tail(trying) /\ algo' = algo
        /\ Present("secrets") => Head(trying) \notin accepted
        /\ pc' = "open session" => Len(trying) > 1
    BY <1>1 DEF AlgorithmRefused, Goto, Panic
  <2>2. CASE trying = Algorithms
    BY <2>1, <2>2, TryingFacts
  <2>3. CASE trying = << Plain >>
    <3>1. trying' = <<>> /\ ~(Len(trying) > 1)
      BY <2>1, <2>3, TryingFacts, Zenon
    <3>2. pc' # "open session"
      BY <2>1, <3>1, Zenon
    <3> QED
      BY <2>1, <3>1, <3>2, TryingFacts, Zenon
  <2> QED
    BY <2>1, <2>2, <2>3
<1>2. CASE AlgorithmAccepted
  <2>1. /\ pc = "open session" /\ UNCHANGED trying /\ algo' = Head(trying)
        /\ Present("secrets") /\ pc' = "collections"
    BY <1>2 DEF AlgorithmAccepted, Goto
  <2>2. CASE trying = Algorithms
    BY <2>1, <2>2, TryingFacts
  <2>3. CASE trying = << Plain >>
    BY <2>1, <2>3, TryingFacts
  <2> QED
    BY <2>1, <2>2, <2>3
<1>3. CASE UNCHANGED << trying, algo >> /\ pc' # "open session"
    BY <1>3
<1> QED
    BY <1>1, <1>2, <1>3, ElsewhereLeavesBus

(* Of the others, only a service that starts or exits matters.             *)
LEMMA DesktopKeepsAlgorithm ==
    ASSUME OwnerInv, AlgorithmInv, Desktop
    PROVE  AlgorithmInv'
<1> USE DEF AlgorithmInv, StrongestAlgorithm, Present, Names, Nobody
<1>0. ASSUME UNCHANGED << bus_vars, pc, accepted, trying, algo >>
      PROVE  AlgorithmInv'
    BY <1>0 DEF bus_vars, Announced
<1>1. CASE ServiceStarts
  <2>1. /\ starts' = [starts EXCEPT !["secrets"] = @ + 1]
        /\ UNCHANGED << pc, accepted, trying, algo >>
    BY <1>1 DEF ServiceStarts, Starts, OwnerChanges, session_vars
  <2>2. starts["secrets"] \in Nat /\ starts'["secrets"] = starts["secrets"] + 1
    BY <2>1 DEF OwnerInv
  <2>3. CASE pc = "secrets"
    BY <2>1, <2>2, <2>3, TryingFacts
  <2>4. CASE pc # "secrets"
    <3>1. starts["secrets"] # 0
      BY <2>4
    <3>2. starts'["secrets"] \notin {0, 1}
      BY <2>2, <3>1, CountFacts, Zenon
    <3> QED
      BY <2>1, <2>4, <3>2, Zenon
  <2> QED
    BY <2>3, <2>4
<1>2. CASE ServiceExits
  <2>1. /\ Present("secrets") /\ owner' = [owner EXCEPT !["secrets"] = 0]
        /\ UNCHANGED << starts, pc, accepted, trying, algo >>
    BY <1>2 DEF ServiceExits, OwnerChanges, session_vars
  <2> QED
    BY <2>1 DEF OwnerInv
<1>3. CASE WatcherStarts \/ WatcherExits
  <2>1. /\ owner'["secrets"] = owner["secrets"]
        /\ starts'["secrets"] = starts["secrets"]
        /\ UNCHANGED << listening, pc, accepted, trying, algo >>
    BY <1>3 DEF WatcherStarts, WatcherExits, Starts, OwnerChanges, session_vars,
                OwnerInv
  <2>2. listening = "secrets" => changes' = changes
    BY <1>3 DEF WatcherStarts, WatcherExits, Starts, OwnerChanges
  <2>3. listening = "secrets" => (Announced' <=> Announced)
    BY <2>2 DEF Announced
  <2> QED
    BY <2>1, <2>3
<1>4. CASE \E c \in existing : CollectionDeleted(c)
    BY <1>4, <1>0 DEF CollectionDeleted, session_vars
<1>5. CASE \E answer \in {"completed", "dismissed"} : AnswerPrompt(answer)
    BY <1>5, <1>0 DEF AnswerPrompt
<1>6. CASE HostRegisters \/ HostLeaves
    BY <1>6, <1>0 DEF HostRegisters, HostLeaves, service_vars, session_vars
<1> QED
    BY <1>1, <1>2, <1>3, <1>4, <1>5, <1>6 DEF Desktop

(* Every step preserves AlgorithmInv.                                      *)
LEMMA AlgorithmStep == OwnerInv /\ AlgorithmInv /\ [Next]_vars => AlgorithmInv'
<1> SUFFICES ASSUME OwnerInv, AlgorithmInv, [Next]_vars PROVE AlgorithmInv'
    OBVIOUS
<1>1. CASE WaitForObject("secrets", "open session")
    BY <1>1, WaitKeepsAlgorithm DEF Names
<1>2. CASE WaitForObject("watcher", "version")
    BY <1>2, WaitKeepsAlgorithm DEF Names
<1>3. CASE Elsewhere
    BY <1>3, ElsewhereKeepsAlgorithm
<1>4. CASE Desktop
    BY <1>4, DesktopKeepsAlgorithm
<1>5. CASE UNCHANGED vars
    BY <1>5 DEF vars, bus_vars, service_vars, session_vars, AlgorithmInv,
                StrongestAlgorithm, Announced, Present
<1> QED
    BY <1>1, <1>2, <1>3, <1>4, <1>5 DEF Next, Main, Elsewhere

(* The start falls back to plain text only when the service refused the    *)
(* stronger algorithm, unless it was restarted between the attempts.       *)
THEOREM StrongestAlgorithmUsed == Spec => []StrongestAlgorithm
<1>1. AlgorithmInv => StrongestAlgorithm
    BY DEF AlgorithmInv
<1> QED
    BY <1>1, OwnerInit, OwnerStep, AlgorithmInit, AlgorithmStep, PTL DEF Spec

-----------------------------------------------------------------------------
(* The icon.                                                               *)

(* Between the registration and the subscription the icon is registered or *)
(* a host was missed; main is subscribed in its loop.                      *)
IconInv ==
    /\ new_host_stream \in Nat
    /\ subscribed => pc \in {"loop", "panicked"}
    /\ pc = "loop" => subscribed
    /\ pc = "listen hosts" /\ host => item \/ "host" \in missed
    /\ IconKept

(* Initially main is not subscribed.                                       *)
LEMMA IconInit == Init => IconInv
BY DEF Init, IconInv, IconKept

(* Every step preserves IconInv.                                           *)
LEMMA IconStep == IconInv /\ [Next]_vars => IconInv'
<1> SUFFICES ASSUME IconInv, [Next]_vars PROVE IconInv'
    OBVIOUS
<1> USE DEF IconInv, IconKept
<1>0. ASSUME UNCHANGED << pc, host, item, new_host_stream, subscribed, missed >>
      PROVE  IconInv'
    BY <1>0
<1>1. CASE \/ WaitForObject("secrets", "open session")
           \/ WaitForObject("watcher", "version")
  <2>1. /\ pc \in Names /\ pc' \in Names \cup {"open session", "version"}
        /\ UNCHANGED << icon_vars, missed >>
    BY <1>1 DEF WaitForObject, SubscribeToOwner, QueryOwner, NextOwner, Found,
                Names
  <2> QED
    BY <2>1 DEF icon_vars, Names
<1>2. CASE Elsewhere
  <2>1. UNCHANGED << host, missed >>
    BY <1>2, ElsewhereLeavesBus
  <2>2. CASE RegisterIcon
    BY <2>1, <2>2 DEF RegisterIcon, RegisterItem, Call0, Goto, Panic
  <2>3. CASE ListenForHosts
    <3>1. /\ pc = "listen hosts" /\ pc' = "loop" /\ subscribed' = TRUE
          /\ UNCHANGED << item, new_host_stream >>
      BY <2>3 DEF ListenForHosts, Call0, Goto
    <3> QED
      BY <2>1, <3>1, Zenon
  <2>4. CASE NewHost
    <3>1. /\ pc = "loop" /\ UNCHANGED subscribed
          /\ \/ pc' = "loop" /\ item' = TRUE
             \/ pc' = "panicked"
      BY <2>4 DEF NewHost, RegisterItem, Call0, Goto, Panic
    <3>2. new_host_stream' \in Nat
      BY <2>4, CountFacts, Zenon DEF NewHost
    <3> QED
      BY <2>1, <3>1, <3>2, Zenon
  <2>5. CASE /\ pc' \notin {"listen hosts", "loop"}
             /\ pc \notin {"loop", "panicked"}
             /\ UNCHANGED << item, new_host_stream, subscribed >>
    BY <2>1, <2>5, <1>2, ElsewhereLeavesBus
  <2> QED
    BY <1>2, <2>2, <2>3, <2>4, <2>5, ElsewhereLeavesBus
<1>3. CASE ServiceStarts
    BY <1>3, <1>0 DEF ServiceStarts, Starts, OwnerChanges
<1>4. CASE ServiceExits
    BY <1>4, <1>0 DEF ServiceExits, OwnerChanges
<1>5. CASE \E c \in existing : CollectionDeleted(c)
    BY <1>5, <1>0 DEF CollectionDeleted, icon_vars
<1>6. CASE \E answer \in {"completed", "dismissed"} : AnswerPrompt(answer)
  <2>1. /\ UNCHANGED << pc, host, item, new_host_stream, subscribed >>
        /\ "host" \in missed' <=> "host" \in missed
    <3>1. missed' = missed \/ missed' = missed \cup {"prompt"}
      BY <1>6, Zenon DEF AnswerPrompt
    <3>2. "host" \in missed' <=> "host" \in missed
      BY <3>1
    <3> QED
      BY <1>6, <3>2, Zenon DEF AnswerPrompt, icon_vars
  <2> QED
    BY <2>1, Zenon
<1>7. CASE WatcherStarts
    BY <1>7, <1>0 DEF WatcherStarts, Starts, OwnerChanges
<1>8. CASE WatcherExits
    BY <1>8 DEF WatcherExits, OwnerChanges
<1>9. CASE HostRegisters
  <2>1. host' = TRUE /\ UNCHANGED << pc, item, subscribed >>
    BY <1>9 DEF HostRegisters
  <2>2. CASE subscribed
    <3>1. new_host_stream' = new_host_stream + 1 /\ missed' = missed
      BY <1>9, <2>2, Zenon DEF HostRegisters
    <3>2. new_host_stream' \in Nat /\ new_host_stream' # 0
      BY <3>1, CountFacts, Zenon
    <3> QED
      BY <2>1, <2>2, <3>1, <3>2, Zenon
  <2>3. CASE ~subscribed
    <3>1. /\ new_host_stream' = new_host_stream
          /\ missed' = IF pc = "listen hosts" THEN missed \cup {"host"}
                                              ELSE missed
      BY <1>9, <2>3, Zenon DEF HostRegisters
    <3>2. pc = "listen hosts" => "host" \in missed'
      BY <3>1
    <3> QED
      BY <2>1, <2>3, <3>1, <3>2, Zenon
  <2> QED
    BY <2>2, <2>3
<1>10. CASE HostLeaves
    BY <1>10 DEF HostLeaves
<1>11. CASE UNCHANGED vars
    BY <1>11, <1>0 DEF vars, icon_vars
<1> QED
    BY <1>1, <1>2, <1>3, <1>4, <1>5, <1>6, <1>7, <1>8, <1>9, <1>10, <1>11
       DEF Next, Main, Desktop, Elsewhere

(* However watchers and hosts come and go, once the signals are read a     *)
(* panel with a host has the icon, unless main missed the host's signal.   *)
THEOREM IconStaysRegistered == Spec => []IconKept
<1>1. IconInv => IconKept
    BY DEF IconInv
<1> QED
    BY <1>1, IconInit, IconStep, PTL DEF Spec

-----------------------------------------------------------------------------
(* Types.                                                                  *)

(* What StartupTypeOK says beyond OwnerInv and AlgorithmInv.               *)
ServiceTypes ==
    /\ pc \in Steps /\ listening \in Names \cup {Nowhere}
    /\ accepted \subseteq {Dh, Plain}
    /\ existing \subseteq DOMAIN LabelOf /\ locked \subseteq existing
    /\ prompt \in {"none", "created", "shown", "answered", "gone"}
    /\ session_path \in Nat /\ algo \in {"none", Dh, Plain}
    /\ collection_path \in DOMAIN LabelOf \cup {Nowhere}
    /\ completion \in {"none", "listening", "completed", "dismissed"}
    /\ missed \subseteq {"prompt", "host"}

IconTypes == host \in BOOLEAN /\ item \in BOOLEAN /\ subscribed \in BOOLEAN

(* Initially the state is well typed.                                      *)
LEMMA TypesInit == Init => ServiceTypes /\ IconTypes
<1> SUFFICES ASSUME Init PROVE ServiceTypes /\ IconTypes
    OBVIOUS
<1>1. ServiceTypes
    BY DEF Init, ServiceTypes, Steps, Names, Nobody, Nowhere
<1>2. IconTypes
    BY Zenon DEF Init, IconTypes
<1> QED
    BY <1>1, <1>2

(* The panel's variables are Boolean.                                      *)
LEMMA IconTypesStep == IconTypes /\ [Next]_vars => IconTypes'
<1> SUFFICES ASSUME IconTypes, [Next]_vars PROVE IconTypes'
    OBVIOUS
<1> USE DEF IconTypes
<1>1. CASE \/ WaitForObject("secrets", "open session")
           \/ WaitForObject("watcher", "version")
    BY <1>1, Zenon DEF WaitForObject, icon_vars
<1>2. CASE Elsewhere
  <2>1. UNCHANGED host
    BY <1>2, ElsewhereLeavesBus, Zenon
  <2>2. CASE RegisterIcon \/ NewHost
    BY <2>1, <2>2, Zenon DEF RegisterIcon, NewHost, RegisterItem
  <2>3. CASE ListenForHosts
    BY <2>1, <2>3, Zenon DEF ListenForHosts
  <2>4. CASE UNCHANGED << item, subscribed >>
    BY <2>1, <2>4, Zenon
  <2> QED
    BY <1>2, <2>2, <2>3, <2>4, ElsewhereLeavesBus, Zenon
<1>3. CASE ServiceStarts \/ WatcherStarts
    BY <1>3, Zenon DEF ServiceStarts, WatcherStarts, Starts, OwnerChanges
<1>4. CASE ServiceExits \/ WatcherExits
    BY <1>4, Zenon DEF ServiceExits, WatcherExits, OwnerChanges
<1>5. CASE \/ \E c \in existing : CollectionDeleted(c)
           \/ \E answer \in {"completed", "dismissed"} : AnswerPrompt(answer)
    BY <1>5, Zenon DEF CollectionDeleted, AnswerPrompt, icon_vars
<1>6. CASE HostRegisters \/ HostLeaves
    BY <1>6, Zenon DEF HostRegisters, HostLeaves
<1>7. CASE UNCHANGED vars
    BY <1>7, Zenon DEF vars, icon_vars
<1> QED
    BY <1>1, <1>2, <1>3, <1>4, <1>5, <1>6, <1>7, Zenon
       DEF Next, Main, Desktop, Elsewhere

(* The steps of main outside wait_for_object.                              *)
LEMMA ElsewhereTypes ==
    ASSUME OwnerInv, AlgorithmInv, ServiceTypes, Elsewhere
    PROVE  ServiceTypes'
<1> USE DEF ServiceTypes, Steps, Names, Goto, Panic, Call, Call0, bus_vars,
            service_vars, session_vars
<1>1. CASE AlgorithmRefused
    BY <1>1 DEF AlgorithmRefused
<1>2. CASE AlgorithmAccepted
    BY <1>2 DEF AlgorithmAccepted, OwnerInv
<1>3. CASE OutputInvalid
    BY <1>3 DEF OutputInvalid
<1>4. CASE ListCollections
    BY <1>4 DEF ListCollections
<1>5. CASE ReadCollectionLabel
    BY <1>5 DEF ReadCollectionLabel
<1>6. CASE CheckLocked
    BY <1>6 DEF CheckLocked
<1>7. CASE RequestUnlock
    BY <1>7 DEF RequestUnlock
<1>8. CASE TriggerPrompt
    BY <1>8 DEF TriggerPrompt
<1>9. CASE ReceiveCompleted
    BY <1>9 DEF ReceiveCompleted
<1>10. CASE AwaitPrompt
    BY <1>10 DEF AwaitPrompt
<1>11. CASE GetSecrets
    BY <1>11 DEF GetSecrets
<1>12. CASE ServeMenu
    BY <1>12 DEF ServeMenu
<1>13. CASE ConnectWayland
    BY <1>13 DEF ConnectWayland
<1>14. CASE CheckVersion
    BY <1>14 DEF CheckVersion
<1>15. CASE RegisterIcon
    BY <1>15 DEF RegisterIcon, RegisterItem
<1>16. CASE ListenForHosts
    BY <1>16 DEF ListenForHosts
<1>17. CASE NewHost
    BY <1>17 DEF NewHost, RegisterItem
<1> QED
    BY <1>1, <1>2, <1>3, <1>4, <1>5, <1>6, <1>7, <1>8, <1>9, <1>10, <1>11,
       <1>12, <1>13, <1>14, <1>15, <1>16, <1>17 DEF Elsewhere

(* Every step keeps the types.                                             *)
LEMMA ServiceTypesStep ==
    OwnerInv /\ AlgorithmInv /\ ServiceTypes /\ [Next]_vars => ServiceTypes'
<1> SUFFICES ASSUME OwnerInv, AlgorithmInv, ServiceTypes, [Next]_vars
             PROVE  ServiceTypes'
    OBVIOUS
<1> USE DEF ServiceTypes, service_vars, session_vars
<1>1. CASE \/ WaitForObject("secrets", "open session")
           \/ WaitForObject("watcher", "version")
  <2>1. PICK name \in Names, next \in {"open session", "version"} :
               WaitForObject(name, next)
    BY <1>1 DEF Names
  <2>2. /\ pc = name
        /\ UNCHANGED << accepted, existing, locked, prompt, session_path, algo,
                        collection_path, completion, missed >>
    BY <2>1 DEF WaitForObject
  <2>3. pc' \in Steps /\ listening' \in Names \cup {Nowhere}
    <3>1. CASE SubscribeToOwner
      BY <2>2, <3>1 DEF SubscribeToOwner
    <3>2. CASE QueryOwner(next)
      BY <3>2 DEF QueryOwner, Found, Steps
    <3>3. CASE NextOwner(next)
      BY <3>3 DEF NextOwner, Found, Steps
    <3> QED
      BY <2>1, <3>1, <3>2, <3>3 DEF WaitForObject
  <2> QED
    BY <2>2, <2>3
<1>2. CASE Elsewhere
    BY <1>2, ElsewhereTypes
<1>3. CASE ServiceStarts \/ WatcherStarts
    BY <1>3 DEF ServiceStarts, WatcherStarts, Starts, OwnerChanges
<1>4. CASE ServiceExits \/ WatcherExits
    BY <1>4 DEF ServiceExits, WatcherExits, OwnerChanges
<1>5. CASE \E c \in existing : CollectionDeleted(c)
    BY <1>5 DEF CollectionDeleted, bus_vars
<1>6. CASE \E answer \in {"completed", "dismissed"} : AnswerPrompt(answer)
    BY <1>6 DEF AnswerPrompt, bus_vars
<1>7. CASE HostRegisters \/ HostLeaves
    BY <1>7 DEF HostRegisters, HostLeaves, bus_vars
<1>8. CASE UNCHANGED vars
    BY <1>8 DEF vars, bus_vars
<1> QED
    BY <1>1, <1>2, <1>3, <1>4, <1>5, <1>6, <1>7, <1>8
       DEF Next, Main, Desktop, Elsewhere

(* The state of the start is well typed, whatever the bus and the service  *)
(* do.                                                                     *)
THEOREM StartupTypeCorrect == Spec => []StartupTypeOK
<1>1. OwnerInv /\ ServiceTypes /\ IconTypes /\ IconInv => StartupTypeOK
  <2> SUFFICES ASSUME OwnerInv, ServiceTypes, IconTypes, IconInv
               PROVE  StartupTypeOK
    OBVIOUS
  <2>1. {host, item, subscribed} \subseteq BOOLEAN
    BY Zenon DEF IconTypes
  <2> QED
    BY <2>1, Zenon DEF OwnerInv, ServiceTypes, IconInv, StartupTypeOK
<1>2. Init => OwnerInv /\ AlgorithmInv /\ ServiceTypes /\ IconTypes /\ IconInv
    BY OwnerInit, AlgorithmInit, TypesInit, IconInit
<1>3. OwnerInv /\ AlgorithmInv /\ ServiceTypes /\ IconTypes /\ IconInv
          /\ [Next]_vars
      => (OwnerInv /\ AlgorithmInv /\ ServiceTypes /\ IconTypes /\ IconInv)'
    BY OwnerStep, AlgorithmStep, ServiceTypesStep, IconTypesStep, IconStep
<1> QED
    BY <1>1, <1>2, <1>3, PTL DEF Spec

-----------------------------------------------------------------------------
(* Arithmetic.                                                             *)

(* A factor may be reduced before the product is.                          *)
LEMMA ReduceFactor ==
    ASSUME NEW d \in Nat \ {0}, NEW a \in Int, NEW c \in Int
    PROVE  ((a % d) * c) % d = (a * c) % d
<1> DEFINE q == a \div d
           r == a % d
           k == (r * c) \div d
           m == (r * c) % d
<1>1. /\ q \in Int /\ r \in Int /\ a = d * q + r
    BY DivMod
<1>2. r * c \in Int
    BY <1>1
<1>3. k \in Int /\ m \in 0 .. d - 1 /\ r * c = d * k + m
    BY <1>2, DivMod
<1> HIDE DEF q, r, k, m
<1>4. a * c = d * (q * c + k) + m
  <2>1. a * c = (d * q) * c + r * c
    BY <1>1
  <2>2. (d * q) * c = d * (q * c)
    BY <1>1
  <2>3. d * (q * c + k) = d * (q * c) + d * k
    BY <1>1, <1>3
  <2> QED
    BY <1>1, <1>3, <2>1, <2>2, <2>3
<1>5. q * c + k \in Int
    BY <1>1, <1>3
<1>6. (a * c) % d = m
    BY <1>3, <1>4, <1>5, DivModUnique
<1> QED
    BY <1>6 DEF m, r

-----------------------------------------------------------------------------
(* The group.                                                              *)

(* What GroupAssumption says of the modulus.                               *)
LEMMA Modulus == /\ Prime \in Nat \ {0} /\ 1 \in 0 .. Prime - 1
                 /\ Generator \in 0 .. Prime - 1
    BY GroupAssumption

(* Powers.                                                                 *)
LEMMA PowerFacts ==
    ASSUME NEW b \in 0 .. Prime - 1
    PROVE  /\ Power[b] \in [Nat -> 0 .. Prime - 1] /\ Power[b][0] = 1
           /\ \A e \in Nat : Power[b][e + 1] = (Power[b][e] * b) % Prime
<1> DEFINE G == 0 .. Prime - 1
           F == [e \in Nat |-> [v \in G |-> (v * b) % Prime]]
           Def(pow) == pow = [e \in Nat |-> IF e = 0 THEN 1
                                            ELSE (pow[e - 1] * b) % Prime]
<1>1. \A v \in G : (v * b) % Prime \in G
  <2>1. TAKE v \in G
  <2>2. v * b \in Int
    BY Modulus
  <2> QED
    BY <2>2, Modulus, DivMod
<1>2. F \in [Nat -> [G -> G]] /\ 1 \in G
    BY <1>1, Modulus
<1> HIDE DEF G, F
<1>3. PICK f : /\ f \in [Nat -> G] /\ f[0] = 1
               /\ \A e \in Nat : f[e + 1] = F[e][f[e]]
  <2>1. F \in StepsOn(G)
    BY <1>2 DEF StepsOn
  <2>2. PICK f : Follows(f, G, 1, F)
    BY <1>2, <2>1, Recursion
  <2> QED
    BY <2>2 DEF Follows
<1>4. \A e \in Nat : f[e + 1] = (f[e] * b) % Prime
    BY <1>3 DEF F
<1>5. Def(f)
  <2>1. ASSUME NEW e \in Nat
        PROVE  f[e] = IF e = 0 THEN 1 ELSE (f[e - 1] * b) % Prime
    <3>1. CASE e = 0
      BY <1>3, <3>1
    <3>2. CASE e # 0
      <4>1. e - 1 \in Nat /\ (e - 1) + 1 = e
        BY <3>2
      <4> QED
        BY <1>4, <3>2, <4>1
    <3> QED
      BY <3>1, <3>2
  <2> QED
    BY <1>3, <2>1
<1>6. Power[b] = CHOOSE pow : Def(pow)
    BY DEF Power
<1>7. Def(Power[b])
    BY <1>5, <1>6
<1> DEFINE p == Power[b]
<1>8. p = [e \in Nat |-> IF e = 0 THEN 1 ELSE (p[e - 1] * b) % Prime]
    BY <1>7
<1> HIDE DEF p
<1>9. p[0] = 1 /\ \A e \in Nat : p[e + 1] = (p[e] * b) % Prime
  <2>1. p[0] = 1
    BY <1>8
  <2>2. ASSUME NEW e \in Nat PROVE p[e + 1] = (p[e] * b) % Prime
    <3>1. e + 1 \in Nat /\ e + 1 # 0 /\ (e + 1) - 1 = e
      OBVIOUS
    <3> QED
      BY <1>8, <3>1
  <2> QED
    BY <2>1, <2>2
<1>10. \A e \in Nat : p[e] \in G
  <2> DEFINE T == { e \in Nat : p[e] \in G }
  <2>1. 0 \in T
    BY <1>2, <1>9
  <2>2. \A e \in T : e + 1 \in T
    BY <1>1, <1>9
  <2>3. T = Nat
    <3> HIDE DEF T
    <3>1. T \subseteq Nat
      BY DEF T
    <3> QED
      BY <2>1, <2>2, <3>1, Induct
  <2> QED
    BY <2>3
<1>11. p \in [Nat -> G]
    BY <1>8, <1>10
<1> QED
    BY <1>9, <1>11 DEF p, G

(* A power of a sum.                                                       *)
LEMMA PowerSum ==
    ASSUME NEW b \in 0 .. Prime - 1, NEW m \in Nat, NEW n \in Nat
    PROVE  Power[b][m + n] = (Power[b][m] * Power[b][n]) % Prime
<1> DEFINE p == Power[b]
           T == { k \in Nat : p[m + k] = (p[m] * p[k]) % Prime }
<1>1. /\ p \in [Nat -> 0 .. Prime - 1] /\ p[0] = 1
      /\ \A e \in Nat : p[e + 1] = (p[e] * b) % Prime
    BY PowerFacts
<1> HIDE DEF p
<1>2. 0 \in T
  <2>1. p[m] \in 0 .. Prime - 1
    BY <1>1
  <2>2. p[m] * 1 = p[m] /\ Prime * 0 + p[m] = p[m]
    BY <2>1, Modulus
  <2>3. p[m] % Prime = p[m]
    BY <2>1, <2>2, DivModUnique, Modulus
  <2> QED
    BY <1>1, <2>2, <2>3
<1>3. ASSUME NEW k \in T PROVE k + 1 \in T
  <2>1. p[m] \in Int /\ p[k] \in Int /\ b \in Int /\ k \in Nat /\ m + k \in Nat
    BY <1>1
  <2>2. p[m + (k + 1)] = (p[m + k] * b) % Prime
    <3>1. m + (k + 1) = (m + k) + 1
      BY <2>1
    <3> QED
      BY <1>1, <2>1, <3>1
  <2>3. p[m + k] = (p[m] * p[k]) % Prime
    OBVIOUS
  <2>4. p[m] * p[k] \in Int /\ p[k] * b \in Int
    BY <2>1
  <2>5. (p[m + k] * b) % Prime = ((p[m] * p[k]) * b) % Prime
    BY <2>1, <2>3, <2>4, ReduceFactor, Modulus
  <2>6. (p[m] * p[k]) * b = (p[k] * b) * p[m]
    BY <2>1
  <2>7. ((p[k] * b) * p[m]) % Prime = (((p[k] * b) % Prime) * p[m]) % Prime
    BY <2>1, <2>4, ReduceFactor, Modulus
  <2>8. p[k + 1] = (p[k] * b) % Prime /\ p[k + 1] \in Int
    BY <1>1, <2>1
  <2>9. p[k + 1] * p[m] = p[m] * p[k + 1]
    BY <2>1, <2>8
  <2>10. p[m + (k + 1)] = (p[m] * p[k + 1]) % Prime
    BY <2>2, <2>5, <2>6, <2>7, <2>8, <2>9
  <2> QED
    BY <2>1, <2>10
<1>4. T = Nat
  <2> HIDE DEF T
  <2>1. T \subseteq Nat
    BY DEF T
  <2> QED
    BY <1>2, <1>3, <2>1, Induct
<1> QED
    BY <1>4 DEF p

(* A power of a power.                                                     *)
LEMMA PowerProduct ==
    ASSUME NEW b \in 0 .. Prime - 1, NEW m \in Nat, NEW n \in Nat
    PROVE  Power[Power[b][m]][n] = Power[b][m * n]
<1> DEFINE p == Power[b]
           c == p[m]
           s == Power[c]
           T == { k \in Nat : s[k] = p[m * k] }
<1>1. p \in [Nat -> 0 .. Prime - 1] /\ p[0] = 1
    BY PowerFacts
<1>2. c \in 0 .. Prime - 1
    BY <1>1
<1>3. /\ s \in [Nat -> 0 .. Prime - 1] /\ s[0] = 1
      /\ \A e \in Nat : s[e + 1] = (s[e] * c) % Prime
    BY <1>2, PowerFacts
<1>4. \A k \in Nat : m * k \in Nat /\ p[m * k + m] = (p[m * k] * c) % Prime
  <2>1. TAKE k \in Nat
  <2>2. m * k \in Nat
    OBVIOUS
  <2> QED
    BY <2>2, PowerSum
<1> HIDE DEF p, c, s
<1>5. 0 \in T
  <2>1. m * 0 = 0
    OBVIOUS
  <2> QED
    BY <1>1, <1>3, <2>1
<1>6. ASSUME NEW k \in T PROVE k + 1 \in T
  <2>1. m * (k + 1) = m * k + m
    OBVIOUS
  <2>2. s[k + 1] = (p[m * k] * c) % Prime
    BY <1>3
  <2> QED
    BY <1>4, <2>1, <2>2
<1>7. T = Nat
  <2> HIDE DEF T
  <2>1. T \subseteq Nat
    BY DEF T
  <2> QED
    BY <1>5, <1>6, <2>1, Induct
<1> QED
    BY <1>7 DEF s, c, p

(* Both sides arrive at the same element.                                  *)
LEMMA KeysCommute ==
    ASSUME NEW x \in Nat, NEW y \in Nat
    PROVE  Power[PublicKey(y)][x] = Power[PublicKey(x)][y]
<1>1. x * y = y * x
    OBVIOUS
<1> QED
    BY <1>1, PowerProduct, Modulus DEF PublicKey

-----------------------------------------------------------------------------
(* Digits.                                                                 *)

(* What GroupAssumption says of the digits.                                *)
LEMMA DigitFacts == Base \in Nat \ {0, 1} /\ Width \in Nat \ {0}
    BY GroupAssumption

(* The weights of the digits.                                              *)
LEMMA WeightFacts ==
    /\ Weight \in [Nat -> Nat \ {0}] /\ Weight[0] = 1
    /\ \A n \in Nat : Weight[n + 1] = Base * Weight[n]
<1> DEFINE G == Nat \ {0}
           F == [n \in Nat |-> [v \in G |-> Base * v]]
           Def(w) == w = [n \in Nat |-> IF n = 0 THEN 1 ELSE Base * w[n - 1]]
<1>1. \A v \in G : Base * v \in G
    BY DigitFacts
<1>2. F \in [Nat -> [G -> G]] /\ 1 \in G
    BY <1>1
<1> HIDE DEF G, F
<1>3. PICK f : /\ f \in [Nat -> G] /\ f[0] = 1
               /\ \A n \in Nat : f[n + 1] = F[n][f[n]]
  <2>1. F \in StepsOn(G)
    BY <1>2 DEF StepsOn
  <2>2. PICK f : Follows(f, G, 1, F)
    BY <1>2, <2>1, Recursion
  <2> QED
    BY <2>2 DEF Follows
<1>4. \A n \in Nat : f[n + 1] = Base * f[n]
    BY <1>3 DEF F
<1>5. Def(f)
  <2>1. ASSUME NEW n \in Nat
        PROVE  f[n] = IF n = 0 THEN 1 ELSE Base * f[n - 1]
    <3>1. CASE n = 0
      BY <1>3, <3>1
    <3>2. CASE n # 0
      <4>1. n - 1 \in Nat /\ (n - 1) + 1 = n
        BY <3>2
      <4> QED
        BY <1>4, <3>2, <4>1
    <3> QED
      BY <3>1, <3>2
  <2> QED
    BY <1>3, <2>1
<1>6. Weight = CHOOSE w : Def(w)
    BY DEF Weight
<1>7. Def(Weight)
    BY <1>5, <1>6
<1>8. Weight = [n \in Nat |-> IF n = 0 THEN 1 ELSE Base * Weight[n - 1]]
    BY <1>7
<1>9. Weight[0] = 1 /\ \A n \in Nat : Weight[n + 1] = Base * Weight[n]
  <2>1. Weight[0] = 1
    BY <1>8
  <2>2. ASSUME NEW n \in Nat PROVE Weight[n + 1] = Base * Weight[n]
    <3>1. n + 1 \in Nat /\ n + 1 # 0 /\ (n + 1) - 1 = n
      OBVIOUS
    <3> QED
      BY <1>8, <3>1
  <2> QED
    BY <2>1, <2>2
<1>10. \A n \in Nat : Weight[n] \in G
  <2> DEFINE T == { n \in Nat : Weight[n] \in G }
  <2>1. 0 \in T
    BY <1>2, <1>9
  <2>2. \A n \in T : n + 1 \in T
    BY <1>1, <1>9
  <2>3. T = Nat
    <3> HIDE DEF T
    <3>1. T \subseteq Nat
      BY DEF T
    <3> QED
      BY <2>1, <2>2, <3>1, Induct
  <2> QED
    BY <2>3
<1> QED
    BY <1>8, <1>9, <1>10 DEF G

(* A sequence of digits.                                                   *)
Digits == Seq(0 .. Base - 1)

(* Its length and its digits.                                              *)
LEMMA DigitTypes ==
    ASSUME NEW bytes \in Digits
    PROVE  /\ Len(bytes) \in Nat
           /\ \A i \in 1 .. Len(bytes) : bytes[i] \in 0 .. Base - 1
<1> DEFINE D == 0 .. Base - 1
<1>1. bytes \in Seq(D)
    BY DEF Digits
<1> HIDE DEF D
<1>2. Len(bytes) \in Nat /\ \A i \in 1 .. Len(bytes) : bytes[i] \in D
    BY <1>1
<1> QED
    BY <1>2 DEF D

(* The number that the first digits make.                                  *)
Prefixes(bytes, number) ==
    /\ number \in [0 .. Len(bytes) -> Nat] /\ number[0] = 0
    /\ \A i \in 0 .. Len(bytes) - 1 :
           number[i + 1] = number[i] * Base + bytes[i + 1]

(* from_be_slice takes the digits one after the other.                     *)
LEMMA FromBeSliceFacts ==
    ASSUME NEW bytes \in Digits
    PROVE  \E number : /\ Prefixes(bytes, number)
                       /\ FromBeSlice(bytes) = number[Len(bytes)]
<1> DEFINE n == Len(bytes)
           F == [i \in Nat |-> [v \in Nat |->
                     IF i < n THEN v * Base + bytes[i + 1] ELSE 0]]
           Def(num) == num = [i \in 0 .. n |-> IF i = 0 THEN 0
                                  ELSE num[i - 1] * Base + bytes[i]]
<1>1. n \in Nat /\ \A i \in 1 .. n : bytes[i] \in 0 .. Base - 1
    BY Zenon, DigitTypes
<1>2. F \in [Nat -> [Nat -> Nat]]
  <2>1. ASSUME NEW i \in Nat, NEW v \in Nat, i < n
        PROVE  v * Base + bytes[i + 1] \in Nat
    <3>1. i + 1 \in 1 .. n
      BY <1>1, <2>1
    <3>2. v * Base \in Nat
      BY DigitFacts
    <3> QED
      BY <1>1, <3>1, <3>2, DigitFacts
  <2> HIDE DEF n
  <2> QED
    BY <2>1
<1> HIDE DEF n, F
<1>3. PICK f : /\ f \in [Nat -> Nat] /\ f[0] = 0
               /\ \A i \in Nat : f[i + 1] = F[i][f[i]]
  <2>1. F \in StepsOn(Nat)
    BY <1>2 DEF StepsOn
  <2>2. PICK f : Follows(f, Nat, 0, F)
    BY <2>1, Recursion
  <2> QED
    BY <2>2 DEF Follows
<1>4. \A i \in Nat : i < n => f[i + 1] = f[i] * Base + bytes[i + 1]
    BY <1>3 DEF F
<1> DEFINE g == [i \in 0 .. n |-> f[i]]
<1>5. Def(g)
  <2>1. ASSUME NEW i \in 0 .. n
        PROVE  g[i] = IF i = 0 THEN 0 ELSE g[i - 1] * Base + bytes[i]
    <3>1. CASE i = 0
      BY <1>1, <1>3, <3>1
    <3>2. CASE i # 0
      <4>1. i - 1 \in Nat /\ (i - 1) + 1 = i /\ i - 1 < n /\ i - 1 \in 0 .. n
        BY <1>1, <3>2
      <4> QED
        BY <1>4, <3>2, <4>1
    <3> QED
      BY <3>1, <3>2
  <2> QED
    BY <2>1
<1> HIDE DEF g
<1> DEFINE number == CHOOSE num : Def(num)
<1>6. Def(number)
    BY <1>5
<1>7. FromBeSlice(bytes) = number[n]
    BY DEF FromBeSlice, n
<1> HIDE DEF number
<1>8. number = [i \in 0 .. n |-> IF i = 0 THEN 0
                                 ELSE number[i - 1] * Base + bytes[i]]
    BY <1>6
<1>9. /\ number[0] = 0
      /\ \A i \in 0 .. n - 1 : number[i + 1] = number[i] * Base + bytes[i + 1]
  <2>1. number[0] = 0
    BY <1>1, <1>8
  <2>2. ASSUME NEW i \in 0 .. n - 1
        PROVE  number[i + 1] = number[i] * Base + bytes[i + 1]
    <3>1. i + 1 \in 0 .. n /\ i + 1 # 0 /\ (i + 1) - 1 = i
      BY <1>1
    <3> QED
      BY <1>8, <3>1
  <2> QED
    BY <2>1, <2>2
<1>10. \A i \in 0 .. n : number[i] = f[i]
  <2> DEFINE T == { i \in Nat : i <= n => number[i] = f[i] }
  <2>1. 0 \in T
    BY <1>3, <1>9
  <2>2. ASSUME NEW i \in T PROVE i + 1 \in T
    BY <1>1, <1>4, <1>9
  <2>3. T = Nat
    <3> HIDE DEF T
    <3>1. T \subseteq Nat
      BY DEF T
    <3> QED
      BY <2>1, <2>2, <3>1, Induct
  <2> QED
    BY <1>1, <2>3
<1>11. number \in [0 .. n -> Nat]
  <2>1. \A i \in 0 .. n : number[i] \in Nat
    BY <1>1, <1>3, <1>10
  <2>2. DOMAIN number = 0 .. n /\ number = [i \in DOMAIN number |-> number[i]]
    BY <1>8
  <2> QED
    BY <2>1, <2>2
<1>12. Prefixes(bytes, number)
    BY <1>9, <1>11 DEF Prefixes, n
<1> QED
    BY <1>7, <1>12 DEF n

(* The bytes of a number.                                                  *)
LEMMA ToBeBytesFacts ==
    ASSUME NEW n \in Nat
    PROVE  /\ ToBeBytes(n) \in Digits /\ Len(ToBeBytes(n)) = Width
           /\ \A i \in 1 .. Width :
                  ToBeBytes(n)[i] = (n \div Weight[Width - i]) % Base
<1> DEFINE D == 0 .. Base - 1
           b == [i \in 1 .. Width |-> (n \div Weight[Width - i]) % Base]
<1>1. ASSUME NEW i \in 1 .. Width PROVE b[i] \in D
  <2>1. Width - i \in Nat
    BY DigitFacts
  <2>2. Weight[Width - i] \in Nat \ {0}
    BY <2>1, WeightFacts
  <2>3. n \div Weight[Width - i] \in Int
    BY <2>2
  <2>4. Base \in Nat \ {0}
    BY DigitFacts
  <2> QED
    BY <2>3, <2>4, DivMod
<1> HIDE DEF D
<1>2. b \in [1 .. Width -> D] /\ Width \in Nat
    BY <1>1, DigitFacts
<1>3. b \in Seq(D) /\ Len(b) = Width
  <2> HIDE DEF b
  <2> QED
    BY <1>2
<1> QED
    BY <1>3 DEF ToBeBytes, Digits, D

(* A number that fits is the number of its bytes.                          *)
LEMMA DigitsRecovered ==
    ASSUME NEW n \in 0 .. Weight[Width] - 1
    PROVE  FromBeSlice(ToBeBytes(n)) = n
<1> DEFINE b == ToBeBytes(n)
<1>1. n \in Nat /\ n < Weight[Width] /\ Weight[Width] \in Nat \ {0}
    BY WeightFacts, DigitFacts
<1>2. /\ b \in Digits /\ Len(b) = Width
      /\ \A i \in 1 .. Width : b[i] = (n \div Weight[Width - i]) % Base
    BY <1>1, ToBeBytesFacts
<1> HIDE DEF b
<1>3. PICK number : Prefixes(b, number) /\ FromBeSlice(b) = number[Width]
    BY <1>2, FromBeSliceFacts
<1>4. /\ number[0] = 0
      /\ \A i \in 0 .. Width - 1 : number[i + 1] = number[i] * Base + b[i + 1]
    BY <1>2, <1>3 DEF Prefixes
<1> DEFINE T == { i \in Nat : i <= Width => number[i] = n \div Weight[Width - i] }
<1>5. 0 \in T
  <2>1. n \div Weight[Width] = 0
    <3>1. (Weight[Width] * 0 + n) \div Weight[Width] = 0
      BY <1>1, DivModUnique
    <3>2. Weight[Width] * 0 + n = n
      BY <1>1
    <3> QED
      BY <3>1, <3>2
  <2>2. Width - 0 = Width
    BY DigitFacts
  <2> QED
    BY <1>4, <2>1, <2>2
<1>6. ASSUME NEW i \in T PROVE i + 1 \in T
  <2> SUFFICES ASSUME i + 1 <= Width
               PROVE  number[i + 1] = n \div Weight[Width - (i + 1)]
    OBVIOUS
  <2> DEFINE k == Width - (i + 1)
             q == n \div Weight[k]
  <2>1. k \in Nat /\ k + 1 = Width - i /\ i + 1 \in 1 .. Width
        /\ i \in 0 .. Width - 1 /\ i <= Width
    BY DigitFacts
  <2>2. Weight[k] \in Nat \ {0} /\ Weight[k + 1] = Base * Weight[k]
        /\ Base \in Nat \ {0}
    BY <2>1, WeightFacts, DigitFacts
  <2>3. n \div Weight[k + 1] = q \div Base
    <3>1. Base * Weight[k] = Weight[k] * Base
      BY <2>2
    <3> QED
      BY <1>1, <2>2, <3>1, DivDiv
  <2>4. number[i] = q \div Base
    BY <2>1, <2>3
  <2>5. b[i + 1] = q % Base
    BY <1>2, <2>1
  <2>6. number[i + 1] = (q \div Base) * Base + (q % Base)
    BY <1>4, <2>1, <2>4, <2>5
  <2>7. q \in Int
    BY <1>1, <2>2
  <2> HIDE DEF q
  <2>8. q = Base * (q \div Base) + (q % Base) /\ q \div Base \in Int
    BY <2>2, <2>7, DivMod
  <2>9. number[i + 1] = q
    BY <2>2, <2>6, <2>8
  <2> QED
    BY <2>9 DEF q
<1>7. T = Nat
  <2> HIDE DEF T
  <2>1. T \subseteq Nat
    BY DEF T
  <2> QED
    BY <1>5, <1>6, <2>1, Induct
<1>8. number[Width] = n \div Weight[Width - Width]
    BY <1>7, DigitFacts
<1>9. Weight[Width - Width] = 1
  <2>1. Width - Width = 0
    BY DigitFacts
  <2> QED
    BY <2>1, WeightFacts
<1>10. n \div 1 = n
    BY <1>1
<1> QED
    BY <1>3, <1>8, <1>9, <1>10 DEF b

(* Digits are numbers.                                                     *)
LEMMA DigitsAreNumbers ==
    ASSUME NEW bytes \in Digits PROVE bytes \in Seq(Nat)
<1> DEFINE D == 0 .. Base - 1
<1>1. D \subseteq Nat
    BY DigitFacts
<1>2. bytes \in Seq(D)
    BY DEF Digits
<1> HIDE DEF D
<1> QED
    BY <1>1, <1>2, SeqOfMore

(* Bytes of full width are left as they are.                               *)
LEMMA PadFull ==
    ASSUME NEW bytes \in Digits, Len(bytes) = Width
    PROVE  Pad(bytes) = bytes
<1>1. bytes \in Seq(Nat)
    BY DigitsAreNumbers
<1> DEFINE zeros == [i \in 1 .. Width - Len(bytes) |-> 0]
<1>2. zeros \in Seq(Nat) /\ Len(zeros) = 0
  <2>1. Width - Len(bytes) = 0
    BY DigitFacts
  <2>2. zeros \in [1 .. 0 -> Nat]
    BY <2>1
  <2> HIDE DEF zeros
  <2> QED
    BY <2>2
<1> HIDE DEF zeros
<1>3. zeros \o bytes = bytes
    BY <1>1, <1>2
<1> QED
    BY <1>3 DEF Pad, zeros

(* The zeros that the service leaves away come back.                       *)
LEMMA PadStripped ==
    ASSUME NEW bytes \in Digits, Len(bytes) = Width
    PROVE  /\ Pad(Stripped(bytes)) = bytes /\ Len(Stripped(bytes)) <= Width
           /\ Stripped(bytes) \in Digits
<1> DEFINE first == { i \in DOMAIN bytes : \A j \in 1 .. i - 1 : bytes[j] = 0 }
           start == CHOOSE i \in first : \A j \in first : j <= i
<1>1. bytes \in Seq(Nat) /\ DOMAIN bytes = 1 .. Width
  <2>1. bytes \in Seq(Nat)
    BY DigitsAreNumbers
  <2> QED
    BY <2>1
<1>2. \E i \in first : \A j \in first : j <= i
  <2> DEFINE Unseen(k) == \A i \in first : i + k <= Width
             T == { k \in Nat : Unseen(k) }
  <2>1. first \subseteq 1 .. Width /\ 1 \in first
    BY <1>1, DigitFacts
  <2> HIDE DEF first
  <2>2. SUFFICES ASSUME \A i \in first : \E j \in first : ~ (j <= i)
                 PROVE  FALSE
    OBVIOUS
  <2>3. 0 \in T
    BY <2>1, DigitFacts
  <2>4. ASSUME NEW k \in T PROVE k + 1 \in T
    <3>1. ASSUME NEW i \in first PROVE i + (k + 1) <= Width
      <4>1. PICK j \in first : ~ (j <= i)
        BY <2>2
      <4>2. j + k <= Width /\ i \in Nat /\ j \in Nat
        BY <2>1
      <4> QED
        BY <4>1, <4>2, DigitFacts
    <3> QED
      BY <3>1
  <2>5. T = Nat
    <3> HIDE DEF T
    <3>1. T \subseteq Nat
      BY DEF T
    <3> QED
      BY <2>3, <2>4, <3>1, Induct
  <2>6. Width \in T
    BY <2>5, DigitFacts
  <2>7. 1 + Width <= Width
    BY <2>1, <2>6
  <2> QED
    BY <2>7, DigitFacts
<1>3. start \in first
    BY <1>2
<1>4. Stripped(bytes) = SubSeq(bytes, start, Width)
    BY DEF Stripped
<1> HIDE DEF start
<1>5. start \in 1 .. Width /\ \A j \in 1 .. start - 1 : bytes[j] = 0
    BY <1>1, <1>3
<1> DEFINE s == SubSeq(bytes, start, Width)
           zeros == [i \in 1 .. start - 1 |-> 0]
<1>6. /\ s \in Seq(Nat) /\ Len(s) = Width - start + 1
      /\ \A i \in 1 .. Len(s) : s[i] = bytes[start + i - 1]
    BY <1>1, <1>5, DigitFacts
<1>7. zeros \in Seq(Nat) /\ Len(zeros) = start - 1
      /\ \A i \in 1 .. start - 1 : zeros[i] = 0
  <2>1. zeros \in [1 .. start - 1 -> Nat] /\ start - 1 \in Nat
    BY <1>5, DigitFacts
  <2>2. \A i \in 1 .. start - 1 : zeros[i] = 0
    OBVIOUS
  <2> HIDE DEF zeros
  <2> QED
    BY <2>1, <2>2
<1>8. Pad(s) = zeros \o s
  <2>1. Width - Len(s) = start - 1
    BY <1>5, <1>6, DigitFacts
  <2> QED
    BY <2>1 DEF Pad
<1>9. s \in Digits
  <2> DEFINE D == 0 .. Base - 1
  <2>1. bytes \in Seq(D)
    BY DEF Digits
  <2> HIDE DEF D
  <2>2. s \in Seq(D)
    BY <1>1, <1>5, <2>1, DigitFacts
  <2> QED
    BY <2>2 DEF D, Digits
<1> HIDE DEF s, zeros
<1>10. zeros \o s = bytes
  <2>1. /\ zeros \o s \in Seq(Nat) /\ Len(zeros \o s) = Width
        /\ \A i \in 1 .. Width :
               (zeros \o s)[i] = IF i <= start - 1 THEN zeros[i]
                                 ELSE s[i - (start - 1)]
    <3>1. /\ zeros \o s \in Seq(Nat)
          /\ Len(zeros \o s) = Len(zeros) + Len(s)
          /\ \A i \in 1 .. Len(zeros) : (zeros \o s)[i] = zeros[i]
          /\ \A i \in 1 .. Len(s) : (zeros \o s)[Len(zeros) + i] = s[i]
      <4>1. zeros \in Seq(Nat) /\ s \in Seq(Nat)
        BY <1>6, <1>7
      <4> QED
        BY <4>1, Concatenation
    <3>2. Len(zeros) + Len(s) = Width
      BY <1>5, <1>6, <1>7, DigitFacts
    <3>3. ASSUME NEW i \in 1 .. Width, ~ (i <= start - 1)
          PROVE  (zeros \o s)[i] = s[i - (start - 1)]
      <4>1. i - (start - 1) \in 1 .. Len(s)
            /\ (start - 1) + (i - (start - 1)) = i
        BY <1>5, <1>6, <3>3, DigitFacts
      <4> QED
        BY <1>7, <3>1, <4>1
    <3>4. \A i \in 1 .. Width : i <= start - 1 => i \in 1 .. start - 1
      BY <1>5, DigitFacts
    <3> QED
      BY <1>7, <3>1, <3>2, <3>3, <3>4
  <2>2. ASSUME NEW i \in 1 .. Width PROVE (zeros \o s)[i] = bytes[i]
    <3>1. CASE i <= start - 1
      BY <1>5, <1>7, <2>1, <3>1, DigitFacts
    <3>2. CASE ~ (i <= start - 1)
      <4>1. i - (start - 1) \in 1 .. Len(s)
            /\ start + (i - (start - 1)) - 1 = i
        BY <1>5, <1>6, <3>2, DigitFacts
      <4> QED
        BY <1>6, <2>1, <3>2, <4>1
    <3> QED
      BY <3>1, <3>2
  <2> DEFINE c == zeros \o s
  <2>3. c \in Seq(Nat) /\ Len(c) = Len(bytes)
        /\ \A i \in 1 .. Len(bytes) : c[i] = bytes[i]
    BY <2>1, <2>2
  <2> HIDE DEF c
  <2>4. c = bytes
    BY <1>1, <2>3
  <2> QED
    BY <2>4 DEF c
<1>11. Len(s) <= Width
    BY <1>5, <1>6, DigitFacts
<1> QED
    BY <1>4, <1>8, <1>9, <1>10, <1>11 DEF s

-----------------------------------------------------------------------------
(* The session's key.                                                      *)

(* A public number is in the group, and so it fits on the bus.             *)
LEMMA PublicKeyFits ==
    ASSUME NEW x \in Nat
    PROVE  /\ PublicKey(x) \in 0 .. Prime - 1
           /\ PublicKey(x) \in 0 .. Weight[Width] - 1
           /\ PublicKey(x) % Prime = PublicKey(x)
<1>1. PublicKey(x) \in 0 .. Prime - 1
    BY PowerFacts, Modulus DEF PublicKey
<1>2. Prime \in Nat \ {0} /\ Weight[Width] \in Nat /\ Prime <= Weight[Width]
    BY Modulus, WeightFacts, DigitFacts, WidthAssumption
<1>3. (Prime * 0 + PublicKey(x)) % Prime = PublicKey(x)
    BY <1>1, <1>2, DivModUnique
<1>4. Prime * 0 + PublicKey(x) = PublicKey(x)
    BY <1>1, <1>2
<1> QED
    BY <1>1, <1>2, <1>3, <1>4

(* What the service sends is understood, with leading zeros or without.    *)
LEMMA OutputUnderstood ==
    ASSUME NEW y \in Nat, NEW output \in ServiceOutputs(Dh, y)
    PROVE  PublicKeyFromBeBytes(output.data) = PublicKey(y)
<1> DEFINE k == PublicKey(y)
           bytes == ToBeBytes(k)
<1>1. k \in 0 .. Weight[Width] - 1 /\ k % Prime = k /\ k \in Nat
    BY PublicKeyFits
<1> HIDE DEF k
<1>2. bytes \in Digits /\ Len(bytes) = Width /\ FromBeSlice(bytes) = k
    BY <1>1, ToBeBytesFacts, DigitsRecovered
<1>3. output.data \in {bytes, Stripped(bytes)}
    BY DEF ServiceOutputs, Dh, Plain, k
<1> HIDE DEF bytes
<1>4. Pad(output.data) = bytes
    BY <1>2, <1>3, PadFull, PadStripped
<1> QED
    BY <1>1, <1>2, <1>4 DEF PublicKeyFromBeBytes, k

(* Both sides derive the same key.                                         *)
LEMMA KeysAgree ==
    ASSUME NEW x \in PrivateKeys, NEW y \in ServicePrivateKeys,
           NEW output \in ServiceOutputs(Dh, y)
    PROVE  /\ AesKey(Dh, x, output)
                  = ServiceKey(Dh, GetSessionInput(Dh, x), y)
           /\ AesKey(Dh, x, output) # NoKey
<1>1. x \in Nat
  <2>1. PICK p \in 0 .. Weight[Width] - 1 : x = p \div 2
    BY DEF PrivateKeys
  <2> QED
    BY <2>1
<1>2. y \in Nat
    BY DEF ServicePrivateKeys
<1> DEFINE kx == PublicKey(x)
           ky == PublicKey(y)
<1>3. PublicKeyFromBeBytes(output.data) = ky
    BY <1>2, OutputUnderstood
<1>4. kx \in 0 .. Weight[Width] - 1 /\ kx % Prime = kx
    BY <1>1, PublicKeyFits
<1>5. FromBeSlice(ToBeBytes(kx)) % Prime = kx
    BY <1>4, DigitsRecovered
<1>6. Power[ky][x] = Power[kx][y]
    BY <1>1, <1>2, KeysCommute
<1> HIDE DEF kx, ky
<1>7. AesKey(Dh, x, output) = Hkdf(ToBeBytes(Power[ky][x]))
    BY <1>3 DEF AesKey, DeriveSecretKey
<1>8. ServiceKey(Dh, GetSessionInput(Dh, x), y)
          = Hkdf(ToBeBytes(Power[kx][y]))
    BY <1>5 DEF ServiceKey, GetSessionInput, Dh, Plain, kx
<1>9. \A ikm : Hkdf(ikm) # NoKey
    BY DEF Hkdf, NoKey
<1> QED
    BY <1>6, <1>7, <1>8, <1>9

(* An open session is in plain text, or both sides have its key.           *)
SessionInv ==
    algo # "none" =>
        \/ algo = Plain
        \/ algo = Dh /\ aes_key = service_key /\ aes_key # NoKey

(* Such a session brings every secret through.                             *)
LEMMA SecretsDecoded == SessionInv => SessionKeysAgree
<1> SUFFICES ASSUME SessionInv, algo # "none",
                    NEW text
             PROVE  DecodeSecret(algo, aes_key,
                        EncodeSecret(algo, service_key, text))
                        = << "some", text >>
    BY DEF SessionKeysAgree
<1>1. CASE algo = Plain
  <2>1. EncodeSecret(algo, service_key, text)
            = [parameters |-> <<>>, value |-> text]
    BY <1>1 DEF EncodeSecret
  <2> QED
    BY <1>1, <2>1 DEF DecodeSecret, Dh, Plain
<1>2. CASE algo = Dh /\ aes_key = service_key /\ aes_key # NoKey
  <2> DEFINE iv == [i \in 1 .. IvLength |-> 0]
  <2>1. Len(iv) = IvLength
    <3>1. IvLength \in Nat /\ iv \in [1 .. IvLength -> Nat]
      BY GroupAssumption
    <3>2. DOMAIN iv = 1 .. IvLength
      OBVIOUS
    <3> HIDE DEF iv
    <3> QED
      BY <3>1, <3>2
  <2> HIDE DEF iv
  <2>2. EncodeSecret(algo, service_key, text)
            = [parameters |-> iv,
               value |-> [key |-> service_key, iv |-> iv, text |-> text]]
    BY <1>2 DEF EncodeSecret, Dh, Plain, iv
  <2> QED
    BY <1>2, <2>1, <2>2 DEF DecodeSecret, Dh, Plain
<1> QED
    BY <1>1, <1>2 DEF SessionInv

(* The key changes only when an algorithm is accepted.                     *)
LEMMA ElsewhereLeavesKeys ==
    ASSUME Elsewhere
    PROVE  AlgorithmAccepted \/ UNCHANGED << algo, aes_key, service_key >>
<1> USE DEF Goto, Panic, Call, Call0, RegisterItem, service_vars, session_vars
<1>1. CASE AlgorithmRefused \/ AlgorithmAccepted \/ OutputInvalid
    BY <1>1 DEF AlgorithmRefused, OutputInvalid
<1>2. CASE ListCollections \/ ReadCollectionLabel
    BY <1>2 DEF ListCollections, ReadCollectionLabel
<1>3. CASE CheckLocked
    BY <1>3 DEF CheckLocked
<1>4. CASE RequestUnlock
    BY <1>4 DEF RequestUnlock
<1>5. CASE TriggerPrompt
    BY <1>5 DEF TriggerPrompt
<1>6. CASE ReceiveCompleted \/ AwaitPrompt
    BY <1>6 DEF ReceiveCompleted, AwaitPrompt
<1>7. CASE GetSecrets
    BY <1>7 DEF GetSecrets
<1>8. CASE \/ ServeMenu \/ ConnectWayland \/ CheckVersion \/ RegisterIcon
           \/ ListenForHosts \/ NewHost
    BY <1>8 DEF ServeMenu, ConnectWayland, CheckVersion, RegisterIcon,
                ListenForHosts, NewHost
<1> QED
    BY <1>1, <1>2, <1>3, <1>4, <1>5, <1>6, <1>7, <1>8 DEF Elsewhere

(* Every step preserves SessionInv.                                        *)
LEMMA SessionStep == AlgorithmInv /\ SessionInv /\ [Next]_vars => SessionInv'
<1> SUFFICES ASSUME AlgorithmInv, SessionInv, [Next]_vars PROVE SessionInv'
    OBVIOUS
<1>0. ASSUME UNCHANGED << algo, aes_key, service_key >> PROVE SessionInv'
    BY <1>0 DEF SessionInv
<1>1. CASE \/ WaitForObject("secrets", "open session")
           \/ WaitForObject("watcher", "version")
    BY <1>0, <1>1 DEF WaitForObject, service_vars, session_vars
<1>2. CASE AlgorithmAccepted
  <2>1. Head(trying) \in {Dh, Plain}
    BY <1>2, TryingFacts DEF AlgorithmAccepted, AlgorithmInv
  <2>2. CASE Head(trying) = Plain
    BY <1>2, <2>2 DEF AlgorithmAccepted, SessionInv
  <2>3. CASE Head(trying) = Dh
    <3>1. PICK x \in PrivateKeys, y \in ServicePrivateKeys :
          \E output \in ServiceOutputs(Dh, y) :
              /\ aes_key' = AesKey(Dh, x, output)
              /\ service_key' = ServiceKey(Dh, GetSessionInput(Dh, x), y)
      BY <1>2, <2>3 DEF AlgorithmAccepted
    <3>2. aes_key' = service_key' /\ aes_key' # NoKey
      BY <3>1, KeysAgree
    <3>3. algo' = Dh
      BY <1>2, <2>3 DEF AlgorithmAccepted
    <3> QED
      BY <3>2, <3>3 DEF SessionInv
  <2> QED
    BY <2>1, <2>2, <2>3
<1>3. CASE Elsewhere /\ ~AlgorithmAccepted
    BY <1>0, <1>3, ElsewhereLeavesKeys
<1>4. CASE ServiceStarts \/ WatcherStarts
    BY <1>0, <1>4 DEF ServiceStarts, WatcherStarts, Starts, OwnerChanges,
       session_vars
<1>5. CASE ServiceExits \/ WatcherExits
    BY <1>0, <1>5 DEF ServiceExits, WatcherExits, OwnerChanges, session_vars
<1>6. CASE \/ \E c \in existing : CollectionDeleted(c)
           \/ \E answer \in {"completed", "dismissed"} : AnswerPrompt(answer)
    BY <1>0, <1>6 DEF CollectionDeleted, AnswerPrompt, session_vars
<1>7. CASE HostRegisters \/ HostLeaves
    BY <1>0, <1>7 DEF HostRegisters, HostLeaves, service_vars, session_vars
<1>8. CASE UNCHANGED vars
    BY <1>0, <1>8 DEF vars, service_vars, session_vars
<1> QED
    BY <1>1, <1>2, <1>3, <1>4, <1>5, <1>6, <1>7, <1>8
       DEF Next, Main, Desktop, Elsewhere

(* Whatever the group and the numbers that the two sides draw, and whether *)
(* or not the service leaves leading zeros away, every secret decodes to   *)
(* itself in our session.                                                  *)
THEOREM SessionKeysAlwaysAgree == Spec => []SessionKeysAgree
<1>1. Init => SessionInv
    BY DEF Init, SessionInv
<1> QED
    BY <1>1, SecretsDecoded, OwnerInit, OwnerStep, AlgorithmInit,
       AlgorithmStep, SessionStep, PTL DEF Spec

=============================================================================
