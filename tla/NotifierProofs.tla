--------------------------- MODULE NotifierProofs ---------------------------
(***************************************************************************)
(* Proofs about Notifier, for any number of tasks, items and calls: its    *)
(* state is well typed, no handler uses the session's connection after     *)
(* main has dropped it, the panel ends up displaying the current map, a    *)
(* click on a current layout resolves to the account displayed, and an     *)
(* Update that runs alone leaves the menu complete.                        *)
(***************************************************************************)
EXTENDS Notifier, FiniteSetTheorems, SequenceTheorems, TLAPS

-----------------------------------------------------------------------------
(* The maps of the menu.                                                   *)

(* Inserting an item into a map of the menu gives a map of the menu.       *)
LEMMA InsertType ==
    ASSUME NEW map \in Maps, NEW item \in Items
    PROVE  Insert(map, item) \in Maps
<1>1. PICK L \in SUBSET Labels : map \in [L -> Items]
    BY DEF Maps
<1>2. LabelOf[item] \in Labels
    BY DEF Labels
<1>3. Insert(map, item) \in [L \cup {LabelOf[item]} -> Items]
    BY <1>1 DEF Insert
<1> QED
    BY <1>1, <1>2, <1>3 DEF Maps

(* The empty map is a map of the menu.                                     *)
LEMMA NoSecretsType == NoSecrets \in Maps
<1>1. NoSecrets \in [{} -> Items]
    BY DEF NoSecrets
<1> QED
    BY <1>1 DEF Maps

(* Labels are numbers, and there are finitely many.                        *)
LEMMA LabelsType == Labels \subseteq Nat /\ IsFiniteSet(Labels)
<1>1. Labels \subseteq Nat
    BY LabelsAssumption DEF Labels
<1>2. LabelOf \in Surjection(Items, Labels)
    BY LabelsAssumption DEF Surjection, Labels
<1>3. IsFiniteSet(Labels)
    BY <1>2, LabelsAssumption, FS_Surjection
<1> QED
    BY <1>1, <1>3

(* The rank of a label in a map is a number.                               *)
LEMMA RankType ==
    ASSUME NEW map \in Maps, NEW l
    PROVE  Rank(map, l) \in Nat
<1>1. { k \in DOMAIN map : k < l } \subseteq Labels
    BY DEF Maps
<1>2. IsFiniteSet({ k \in DOMAIN map : k < l })
    BY <1>1, LabelsType, FS_Subset
<1> QED
    BY <1>2, FS_CardinalityType DEF Rank

(* A menu id of a layout displays one of the layout's labels.              *)
LEMMA DisplayedType ==
    ASSUME NEW map \in Maps, NEW id \in MenuIds(map)
    PROVE  id \in Nat /\ Displayed(map, id) \in Nat
<1>1. PICK l \in DOMAIN map : id = Rank(map, l) + 1
    BY DEF MenuIds
<1>2. Rank(map, l) \in Nat
    BY RankType
<1>3. Rank(map, l) = id - 1
    BY <1>1, <1>2
<1>4. NthLabel(map, id - 1) \in DOMAIN map
    BY <1>3 DEF NthLabel
<1>5. DOMAIN map \subseteq Nat
    BY LabelsType DEF Maps
<1> QED
    BY <1>1, <1>2, <1>4, <1>5 DEF Displayed

(* What nth() finds in a map is a path of an item.                         *)
LEMMA NthType ==
    ASSUME NEW map \in Maps, NEW n, HasNth(map, n)
    PROVE  map[NthLabel(map, n)] \in Items
<1>1. NthLabel(map, n) \in DOMAIN map
    BY DEF HasNth, NthLabel
<1> QED
    BY <1>1 DEF Maps

-----------------------------------------------------------------------------
(* The session's connection.                                               *)

(* Why no handler uses a dropped connection: the write guard waits for the *)
(* readers, no handler passes a writer that waits or holds the guard, and  *)
(* when main has ended, which graceful_shutdown delays until the last task *)
(* is done, no task is left to take the guard.                             *)
SessionInv ==
    /\ pc \in [Tasks -> PCs]
    /\ main \in {"loop", "want_write", "draining", "ended"}
    /\ main \in {"loop", "want_write"} => connection
    /\ main = "draining" => \A t \in Tasks : pc[t] \notin Reading
    /\ main = "ended" => \A t \in Tasks : pc[t] \in Free

(* A handler between two awaits of the same scope, or leaving the scope.   *)
LEMMA StepKeepsSession ==
    ASSUME SessionInv, NEW t \in Tasks, NEW from, NEW to \in PCs,
           Step(t, from, to), from \notin Free,
           to \in Reading => from \in Reading \/ SessionReadable
    PROVE  SessionInv'
<1>1. pc' \in [Tasks -> PCs]
    BY DEF SessionInv, Step
<1>2. main' = main /\ connection' = connection /\ main # "ended"
    BY DEF SessionInv, Step
<1>3. ASSUME main = "draining", NEW u \in Tasks
      PROVE  pc'[u] \notin Reading
    BY <1>3 DEF SessionInv, Step, SessionReadable
<1> QED
    BY <1>1, <1>2, <1>3 DEF SessionInv

(* A method call that begins.                                              *)
LEMMA CallKeepsSession ==
    ASSUME SessionInv, NEW t \in Tasks, NEW to \in PCs \ Reading,
           ConnectionAlive, pc' = [pc EXCEPT ![t] = to],
           UNCHANGED << main, connection >>
    PROVE  SessionInv'
<1>1. main # "ended"
    BY DEF SessionInv, ConnectionAlive, Active, Free
<1>2. pc' \in [Tasks -> PCs]
    BY DEF SessionInv
<1>3. ASSUME main = "draining", NEW u \in Tasks
      PROVE  pc'[u] \notin Reading
    BY <1>3 DEF SessionInv
<1> QED
    BY <1>1, <1>2, <1>3 DEF SessionInv

(* Every step of a handler keeps SessionInv.                               *)
LEMMA HandlerKeepsSession ==
    ASSUME SessionInv, NEW t \in Tasks, Handler(t)
    PROVE  SessionInv'
<1> USE StepKeepsSession DEF PCs, Reading, Free
<1>1. CASE Reply(t)
    BY <1>1 DEF Reply
<1>2. CASE CloneForLayout(t)
    BY <1>2 DEF CloneForLayout
<1>3. CASE LayoutReply(t)
    BY <1>3 DEF LayoutReply
<1>4. CASE LockForUpdate(t)
    BY <1>4 DEF LockForUpdate
<1>5. CASE SearchItems(t)
    BY <1>5 DEF SearchItems
<1>6. CASE \E item \in Items : ReadLabel(t, item)
    BY <1>6 DEF ReadLabel
<1>7. CASE EndSearch(t)
    BY <1>7 DEF EndSearch
<1>8. CASE StoreSecrets(t)
    BY <1>8 DEF StoreSecrets
<1>9. CASE EmitLayoutUpdated(t)
    BY <1>9 DEF EmitLayoutUpdated
<1>10. CASE CloneForClick(t)
    BY <1>10 DEF CloneForClick
<1>11. CASE LockForSecret(t)
    BY <1>11 DEF LockForSecret
<1>12. CASE CopySecret(t)
    BY <1>12 DEF CopySecret
<1>13. CASE FailSecret(t)
    BY <1>13 DEF FailSecret
<1>14. CASE Panic(t)
    BY <1>14 DEF Panic, SessionInv
<1> QED
    BY <1>1, <1>2, <1>3, <1>4, <1>5, <1>6, <1>7, <1>8, <1>9, <1>10, <1>11,
       <1>12, <1>13, <1>14 DEF Handler

(* Initially no handler runs and the connection is there.                  *)
LEMMA SessionInitially == Init => SessionInv
    BY DEF Init, SessionInv, PCs, Free

(* Every step preserves SessionInv.                                        *)
LEMMA SessionStep == SessionInv /\ [Next]_vars => SessionInv'
<1> SUFFICES ASSUME SessionInv, [Next]_vars PROVE SessionInv'
    OBVIOUS
<1>1. ASSUME NEW t \in Tasks, CallGetLayout(t) PROVE SessionInv'
    BY <1>1, CallKeepsSession DEF CallGetLayout, Call, PCs, Reading, Free
<1>2. ASSUME NEW t \in Tasks, CallUpdate(t) PROVE SessionInv'
    BY <1>2, CallKeepsSession DEF CallUpdate, Call, PCs, Reading, Free
<1>3. ASSUME NEW t \in Tasks, NEW id, CallSecret(t, id) PROVE SessionInv'
    BY <1>3, CallKeepsSession DEF CallSecret, Call, PCs, Reading, Free
<1>4. ASSUME NEW t \in Tasks, CallExit(t) PROVE SessionInv'
    BY <1>4, CallKeepsSession DEF CallExit, PCs, Reading, Free
<1>5. ASSUME NEW t \in Tasks, Handler(t) PROVE SessionInv'
    BY <1>5, HandlerKeepsSession
<1>6. CASE ReceiveCopy
    BY <1>6 DEF ReceiveCopy, SessionInv
<1>7. CASE ReceiveExit
    BY <1>7 DEF ReceiveExit, SessionInv
<1>8. CASE DropConnection
    BY <1>8 DEF DropConnection, SessionInv, Readers
<1>9. CASE EndMain
    BY <1>9 DEF EndMain, SessionInv, ConnectionAlive, Active, Free
<1>10. ASSUME NEW item \in Items, EditKeyring(item) PROVE SessionInv'
    BY <1>10 DEF EditKeyring, SessionInv
<1>11. CASE UNCHANGED vars
    BY <1>11 DEF vars, SessionInv
<1> QED
    BY <1>1, <1>2, <1>3, <1>4, <1>5, <1>6, <1>7, <1>8, <1>9, <1>10, <1>11
       DEF Next, Main

(* No handler is suspended inside get_secrets or get_secret after          *)
(* drop_connection has taken the connection: the unwraps never fail.       *)
THEOREM ConnectionPresent == Spec => []NoUseAfterDrop
<1>1. SessionInv => NoUseAfterDrop
    BY DEF SessionInv, NoUseAfterDrop, Reading, Free
<1> QED
    BY <1>1, SessionInitially, SessionStep, PTL DEF Spec

-----------------------------------------------------------------------------
(* Type correctness.                                                       *)

(* A step of a handler keeps the variables that no handler writes.         *)
LEMMA StepType ==
    ASSUME TypeOK, NEW t \in Tasks, NEW from, NEW to \in PCs, Step(t, from, to)
    PROVE  /\ main' \in {"loop", "want_write", "draining", "ended"}
           /\ connection' \in BOOLEAN /\ pc' \in [Tasks -> PCs]
           /\ keyring' \subseteq Items /\ calls' \in Nat /\ edits' \in Nat
           /\ clicks' \in Nat /\ fresh' \in {"stale", "alone", "overlapped"}
    BY DEF TypeOK, Step

(* Every step of a handler keeps the types.                                *)
LEMMA HandlerType ==
    ASSUME TypeOK, NEW t \in Tasks, Handler(t)
    PROVE  TypeOK'
<1> USE StepType DEF PCs, Reading, Free
<1>1. CASE Reply(t)
    BY <1>1 DEF Reply, TypeOK, local, menu, panel
<1>2. CASE CloneForLayout(t)
  <2>1. click \in [Tasks -> Clicks] /\ writes \in Nat
    BY DEF TypeOK
  <2>2. click' = [click EXCEPT ![t].writes = writes]
    BY <1>2 DEF CloneForLayout
  <2>3. [click[t] EXCEPT !.writes = writes] \in Clicks
    BY <2>1 DEF Clicks
  <2>4. click' \in [Tasks -> Clicks]
    BY <2>1, <2>2, <2>3
  <2> QED
    BY <1>2, <2>4 DEF CloneForLayout, TypeOK, menu, panel
<1>3. CASE LayoutReply(t)
  <2>1. shown' \in Maps /\ shownWrites' \in Nat
    BY <1>3 DEF LayoutReply, TypeOK, Clicks
  <2> QED
    BY <1>3, <2>1 DEF LayoutReply, TypeOK, local, menu
<1>4. CASE LockForUpdate(t)
    BY <1>4 DEF LockForUpdate, TypeOK, local, menu, panel
<1>5. CASE SearchItems(t)
    BY <1>5, NoSecretsType DEF SearchItems, TypeOK, menu, panel
<1>6. ASSUME NEW item \in Items, ReadLabel(t, item) PROVE TypeOK'
  <2>1. found' \in [Tasks -> Maps]
    BY <1>6, InsertType DEF ReadLabel, TypeOK
  <2> QED
    BY <1>6, <2>1 DEF ReadLabel, TypeOK, menu, panel
<1>7. CASE EndSearch(t)
    BY <1>7 DEF EndSearch, TypeOK, local, menu, panel
<1>8. CASE StoreSecrets(t)
    BY <1>8 DEF StoreSecrets, TypeOK, local, panel
<1>9. CASE EmitLayoutUpdated(t)
    BY <1>9 DEF EmitLayoutUpdated, TypeOK, local
<1>10. CASE CloneForClick(t)
  <2>1. click' \in [Tasks -> Clicks]
    <3> DEFINE n   == ActualIndex(click[t].id)
               nth == NthLabel(secret_name_to_path, n)
    <3>1. CASE ~HasNth(secret_name_to_path, n)
      BY <1>10, <3>1 DEF CloneForClick, TypeOK
    <3>2. CASE HasNth(secret_name_to_path, n)
      <4> DEFINE path == secret_name_to_path[nth]
      <4>1. path \in Items
        BY <3>2, NthType DEF TypeOK
      <4>2. click' = [click EXCEPT ![t].item = path]
        BY <1>10, <3>2 DEF CloneForClick
      <4>3. click[t] \in Clicks
        BY DEF TypeOK
      <4> HIDE DEF path, n, nth
      <4>4. [click[t] EXCEPT !.item = path] \in Clicks
        BY <4>1, <4>3 DEF Clicks
      <4> QED
        BY <4>2, <4>4 DEF TypeOK
    <3> QED
      BY <3>1, <3>2
  <2>2. \E to \in PCs : Step(t, "c_clone", to)
    BY <1>10 DEF CloneForClick
  <2> QED
    BY <1>10, <2>1, <2>2 DEF CloneForClick, TypeOK, menu, panel
<1>11. CASE LockForSecret(t)
    BY <1>11 DEF LockForSecret, TypeOK, local, menu, panel
<1>12. CASE CopySecret(t)
  <2>1. LabelOf[click[t].item] \in Nat
    BY <1>12, LabelsAssumption DEF CopySecret, TypeOK
  <2>2. click[t].label \in Nat /\ click[t].serial \in Nat
    BY DEF TypeOK, Clicks
  <2>3. channel' \in Seq(Messages)
    BY <1>12, <2>1, <2>2 DEF CopySecret, TypeOK, Messages
  <2> QED
    BY <1>12, <2>3 DEF CopySecret, TypeOK, local, menu, panel
<1>13. CASE FailSecret(t)
    BY <1>13 DEF FailSecret, TypeOK, local, menu, panel
<1>14. CASE Panic(t)
    BY <1>14 DEF Panic, TypeOK, local, menu, panel
<1> QED
    BY <1>1, <1>2, <1>3, <1>4, <1>5, <1>6, <1>7, <1>8, <1>9, <1>10, <1>11,
       <1>12, <1>13, <1>14 DEF Handler

(* A call that begins changes the task alone.                              *)
LEMMA CallType ==
    ASSUME TypeOK, NEW t \in Tasks, NEW kind, NEW to \in PCs, Call(t, kind, to)
    PROVE  /\ pc' \in [Tasks -> PCs] /\ calls' \in Nat
           /\ UNCHANGED << main, connection, channel, todo, found, menu, shown,
                           shownWrites, keyring, edits >>
    BY DEF TypeOK, Call

(* Initially the state is well typed.                                      *)
LEMMA TypeInitially == Init => TypeOK
<1> SUFFICES ASSUME Init PROVE TypeOK
    OBVIOUS
<1>1. NoClick \in Clicks
    BY DEF NoClick, Clicks
<1>2. LabelsIn(InitialKeyring) \subseteq Labels
    BY LabelsAssumption DEF LabelsIn, Labels
<1>3. secret_name_to_path \in [LabelsIn(InitialKeyring) -> Items]
    BY LabelsAssumption DEF Init
<1>4. secret_name_to_path \in Maps
    BY <1>2, <1>3 DEF Maps
<1> QED
    BY <1>1, <1>4, NoSecretsType, LabelsAssumption DEF Init, TypeOK, PCs, Free

(* Every step keeps the types.                                             *)
LEMMA TypeStep == TypeOK /\ [Next]_vars => TypeOK'
<1> SUFFICES ASSUME TypeOK, [Next]_vars PROVE TypeOK'
    OBVIOUS
<1>1. ASSUME NEW t \in Tasks, CallGetLayout(t) PROVE TypeOK'
    BY <1>1, CallType DEF CallGetLayout, TypeOK, PCs, menu
<1>2. ASSUME NEW t \in Tasks, CallUpdate(t) PROVE TypeOK'
    BY <1>2, CallType DEF CallUpdate, TypeOK, PCs, menu
<1>3. ASSUME NEW t \in Tasks, NEW id, CallSecret(t, id) PROVE TypeOK'
  <2>1. id \in Nat /\ Displayed(shown, id) \in Nat
    BY <1>3, DisplayedType DEF CallSecret, TypeOK
  <2>2. click' \in [Tasks -> Clicks]
    BY <1>3, <2>1 DEF CallSecret, TypeOK, Clicks, NoClick
  <2> QED
    BY <1>3, <2>2, CallType DEF CallSecret, TypeOK, PCs, menu
<1>4. ASSUME NEW t \in Tasks, CallExit(t) PROVE TypeOK'
  <2>1. pc' \in [Tasks -> PCs] /\ calls' \in Nat
    BY <1>4 DEF CallExit, TypeOK, PCs
  <2>2. channel' \in Seq(Messages)
    BY <1>4 DEF CallExit, TypeOK, Messages
  <2> QED
    BY <1>4, <2>1, <2>2 DEF CallExit, TypeOK, local, menu, panel
<1>5. ASSUME NEW t \in Tasks, Handler(t) PROVE TypeOK'
    BY <1>5, HandlerType
<1>6. CASE ReceiveCopy \/ ReceiveExit
  <2>1. channel' \in Seq(Messages)
    BY <1>6, HeadTailProperties DEF ReceiveCopy, ReceiveExit, TypeOK
  <2>2. main' \in {"loop", "want_write"}
    BY <1>6 DEF ReceiveCopy, ReceiveExit
  <2> QED
    BY <1>6, <2>1, <2>2
       DEF ReceiveCopy, ReceiveExit, TypeOK, local, menu, panel
<1>7. CASE DropConnection
    BY <1>7 DEF DropConnection, TypeOK, local, menu, panel
<1>8. CASE EndMain
    BY <1>8 DEF EndMain, TypeOK, local, menu, panel
<1>9. ASSUME NEW item \in Items, EditKeyring(item) PROVE TypeOK'
    BY <1>9 DEF EditKeyring, TypeOK, local, menu, panel
<1>10. CASE UNCHANGED vars
    BY <1>10 DEF vars, TypeOK, local, menu, panel
<1> QED
    BY <1>1, <1>2, <1>3, <1>4, <1>5, <1>6, <1>7, <1>8, <1>9, <1>10
       DEF Next, Main

(* The state of the menu, the session and the panel is always well typed;  *)
(* in particular every map the menu ever shows takes labels to items.      *)
THEOREM NotifierTypeCorrect == Spec => []TypeOK
    BY TypeInitially, TypeStep, PTL DEF Spec

-----------------------------------------------------------------------------
(* The layout on display.                                                  *)

(* A change of the map that has still to be announced, or whose            *)
(* announcement the panel has not yet acted on.                            *)
Due == notified \/ \E u \in Tasks : pc[u] = "u_notify"

InLayout(t) == pc[t] \in {"l_clone", "l_reply"}

(* Why the panel ends up with the current layout: it fetches one layout at *)
(* a time, and whenever what it shows, or is about to be sent, differs     *)
(* from the map, it is due to hear of a change.                            *)
LayoutInv ==
    /\ \A t, u \in Tasks : InLayout(t) /\ InLayout(u) => t = u
    /\ \A t \in Tasks :
            pc[t] = "l_reply" => found[t] = secret_name_to_path \/ Due
    /\ (\A t \in Tasks : ~InLayout(t)) =>
            shown = secret_name_to_path \/ Due

(* A step outside get_layout and the announcement that leaves the map and  *)
(* the panel alone.                                                        *)
Elsewhere(t, to) ==
    /\ pc[t] \notin {"l_clone", "l_reply", "u_notify"}
    /\ pc' = [pc EXCEPT ![t] = to]
    /\ \A u \in Tasks : u # t => found'[u] = found[u]
    /\ secret_name_to_path' = secret_name_to_path
    /\ notified' = notified /\ shown' = shown

(* A step outside the layout leaves what is due as it was.                 *)
LEMMA ElsewhereKeepsLayout ==
    ASSUME TypeOK, LayoutInv, NEW t \in Tasks,
           NEW to \in PCs \ {"l_clone", "l_reply"}, Elsewhere(t, to)
    PROVE  LayoutInv'
<1> USE DEF Elsewhere
<1>1. pc \in [Tasks -> PCs]
    BY DEF TypeOK
<1>2. \A u \in Tasks : u # t => pc'[u] = pc[u]
    BY <1>1
<1>3. pc'[t] = to
    BY <1>1
<1>4. \A u \in Tasks : InLayout(u)' <=> InLayout(u)
    BY <1>2, <1>3 DEF InLayout
<1>5. Due => Due'
    BY <1>2 DEF Due
<1>6. \A u, v \in Tasks : InLayout(u)' /\ InLayout(v)' => u = v
    BY <1>4 DEF LayoutInv
<1>7. ASSUME NEW u \in Tasks, pc'[u] = "l_reply"
      PROVE  found'[u] = secret_name_to_path' \/ Due'
    BY <1>2, <1>3, <1>5, <1>7 DEF LayoutInv
<1>8. (\A u \in Tasks : ~InLayout(u)') => shown' = secret_name_to_path' \/ Due'
    BY <1>4, <1>5 DEF LayoutInv
<1> QED
    BY <1>6, <1>7, <1>8 DEF LayoutInv

(* When a change is due after a step, only the exclusion of fetches counts.*)
LEMMA DueKeepsLayout ==
    ASSUME LayoutInv, Due', \A u \in Tasks : InLayout(u)' => InLayout(u)
    PROVE  LayoutInv'
    BY DEF LayoutInv

(* Every step of a handler keeps LayoutInv.                                *)
LEMMA HandlerKeepsLayout ==
    ASSUME TypeOK, LayoutInv, NEW t \in Tasks, Handler(t)
    PROVE  LayoutInv'
<1> USE DEF Step, local, menu, panel
<1>1. CASE Reply(t)
  <2>1. Elsewhere(t, "idle")
    BY <1>1 DEF Elsewhere, Reply
  <2> QED
    BY <2>1, ElsewhereKeepsLayout DEF PCs, Reading, Free
<1>2. CASE CloneForLayout(t)
  <2>1. \A u \in Tasks : u # t => ~InLayout(u) /\ ~InLayout(u)'
    BY <1>2 DEF CloneForLayout, LayoutInv, InLayout, TypeOK
  <2>2. InLayout(t)' /\ found'[t] = secret_name_to_path'
    BY <1>2 DEF CloneForLayout, InLayout, TypeOK
  <2> QED
    BY <2>1, <2>2 DEF LayoutInv, InLayout
<1>3. CASE LayoutReply(t)
  <2>1. \A u \in Tasks : ~InLayout(u)'
    BY <1>3 DEF LayoutReply, LayoutInv, InLayout, TypeOK
  <2>2. shown' = secret_name_to_path' \/ Due
    BY <1>3 DEF LayoutReply, LayoutInv
  <2>3. Due => Due'
    BY <1>3 DEF LayoutReply, Due, TypeOK
  <2> QED
    BY <2>1, <2>2, <2>3 DEF LayoutInv, InLayout
<1>4. CASE LockForUpdate(t)
  <2>1. Elsewhere(t, "u_search")
    BY <1>4 DEF Elsewhere, LockForUpdate
  <2> QED
    BY <2>1, ElsewhereKeepsLayout DEF PCs, Reading, Free
<1>5. CASE SearchItems(t)
  <2>1. Elsewhere(t, "u_label")
    BY <1>5 DEF Elsewhere, SearchItems, TypeOK
  <2> QED
    BY <2>1, ElsewhereKeepsLayout DEF PCs, Reading, Free
<1>6. ASSUME NEW item \in Items, ReadLabel(t, item) PROVE LayoutInv'
  <2>1. Elsewhere(t, "u_label")
    BY <1>6 DEF Elsewhere, ReadLabel, TypeOK
  <2> QED
    BY <2>1, ElsewhereKeepsLayout DEF PCs, Reading, Free
<1>7. CASE EndSearch(t)
  <2>1. Elsewhere(t, "u_write")
    BY <1>7 DEF Elsewhere, EndSearch
  <2> QED
    BY <2>1, ElsewhereKeepsLayout DEF PCs, Reading, Free
<1>8. CASE StoreSecrets(t)
  <2>1. Due'
    BY <1>8 DEF StoreSecrets, Due, TypeOK
  <2>2. \A u \in Tasks : InLayout(u)' => InLayout(u)
    BY <1>8 DEF StoreSecrets, InLayout, TypeOK
  <2> QED
    BY <2>1, <2>2, DueKeepsLayout
<1>9. CASE EmitLayoutUpdated(t)
  <2>1. Due'
    BY <1>9 DEF EmitLayoutUpdated, Due
  <2>2. \A u \in Tasks : InLayout(u)' => InLayout(u)
    BY <1>9 DEF EmitLayoutUpdated, InLayout, TypeOK
  <2> QED
    BY <2>1, <2>2, DueKeepsLayout
<1>10. CASE CloneForClick(t)
  <2>1. Elsewhere(t, "c_lock") \/ Elsewhere(t, "reply")
    BY <1>10 DEF Elsewhere, CloneForClick
  <2> QED
    BY <2>1, ElsewhereKeepsLayout DEF PCs, Reading, Free
<1>11. CASE LockForSecret(t)
  <2>1. Elsewhere(t, "c_fetch")
    BY <1>11 DEF Elsewhere, LockForSecret
  <2> QED
    BY <2>1, ElsewhereKeepsLayout DEF PCs, Reading, Free
<1>12. CASE CopySecret(t)
  <2>1. Elsewhere(t, "reply")
    BY <1>12 DEF Elsewhere, CopySecret
  <2> QED
    BY <2>1, ElsewhereKeepsLayout DEF PCs, Reading, Free
<1>13. CASE FailSecret(t)
  <2>1. Elsewhere(t, "reply")
    BY <1>13 DEF Elsewhere, FailSecret
  <2> QED
    BY <2>1, ElsewhereKeepsLayout DEF PCs, Reading, Free
<1>14. CASE Panic(t)
  <2>1. Elsewhere(t, "panicked")
    BY <1>14 DEF Elsewhere, Panic
  <2> QED
    BY <2>1, ElsewhereKeepsLayout DEF PCs, Reading, Free
<1> QED
    BY <1>1, <1>2, <1>3, <1>4, <1>5, <1>6, <1>7, <1>8, <1>9, <1>10, <1>11,
       <1>12, <1>13, <1>14 DEF Handler

(* Initially the empty map is displayed.                                   *)
LEMMA LayoutInitially == Init => LayoutInv
    BY DEF Init, LayoutInv, InLayout, Due

(* Every step preserves LayoutInv.                                         *)
LEMMA LayoutStep == TypeOK /\ LayoutInv /\ [Next]_vars => LayoutInv'
<1> SUFFICES ASSUME TypeOK, LayoutInv, [Next]_vars PROVE LayoutInv'
    OBVIOUS
<1>1. ASSUME NEW t \in Tasks, CallGetLayout(t) PROVE LayoutInv'
  <2>1. \A u \in Tasks : u # t => ~InLayout(u)'
    BY <1>1 DEF CallGetLayout, Call, InLayout, TypeOK
  <2>2. pc'[t] = "l_clone"
    BY <1>1 DEF CallGetLayout, Call, TypeOK
  <2> QED
    BY <2>1, <2>2 DEF LayoutInv, InLayout
<1>2. ASSUME NEW t \in Tasks, CallUpdate(t) PROVE LayoutInv'
  <2>1. Elsewhere(t, "u_lock")
    BY <1>2 DEF Elsewhere, Free, CallUpdate, Call, menu
  <2> QED
    BY <2>1, ElsewhereKeepsLayout DEF PCs, Reading, Free
<1>3. ASSUME NEW t \in Tasks, NEW id, CallSecret(t, id) PROVE LayoutInv'
  <2>1. Elsewhere(t, "c_clone")
    BY <1>3 DEF Elsewhere, Free, CallSecret, Call, menu
  <2> QED
    BY <2>1, ElsewhereKeepsLayout DEF PCs, Reading, Free
<1>4. ASSUME NEW t \in Tasks, CallExit(t) PROVE LayoutInv'
  <2>1. Elsewhere(t, "reply")
    BY <1>4 DEF Elsewhere, Free, CallExit, local, menu, panel
  <2> QED
    BY <2>1, ElsewhereKeepsLayout DEF PCs, Reading, Free
<1>5. ASSUME NEW t \in Tasks, Handler(t) PROVE LayoutInv'
    BY <1>5, HandlerKeepsLayout
<1>6. CASE Main \/ (\E item \in Items : EditKeyring(item)) \/ UNCHANGED vars
  <2>1. UNCHANGED << pc, found, shown, notified, secret_name_to_path >>
    BY <1>6 DEF Main, ReceiveCopy, ReceiveExit, DropConnection, EndMain,
                EditKeyring, vars, local, menu, panel
  <2> QED
    BY <2>1 DEF LayoutInv, InLayout, Due
<1> QED
    BY <1>1, <1>2, <1>3, <1>4, <1>5, <1>6 DEF Next

(* However Updates and fetches of the layout overlap, once no call is under*)
(* way and no announcement is pending the panel displays the current map.  *)
THEOREM DisplayedLayoutCurrent == Spec => []LayoutCurrent
<1>1. LayoutInv => LayoutCurrent
    BY DEF LayoutInv, LayoutCurrent, InLayout, Due, Active, Free
<1> QED
    BY <1>1, LayoutInitially, LayoutStep, NotifierTypeCorrect, PTL DEF Spec

-----------------------------------------------------------------------------
(* Clicks on the current layout.                                           *)

(* What a task that has read a layout, or was clicked on one, knows of the *)
(* map when the map has not been replaced since.                           *)
TaskCurrent(t) ==
    /\ click[t].writes <= writes
    /\ click[t].writes = writes =>
           /\ pc[t] = "l_reply" => found[t] = secret_name_to_path
           /\ pc[t] = "c_clone" =>
                  /\ click[t].id \in MenuIds(secret_name_to_path)
                  /\ click[t].label = Displayed(secret_name_to_path, click[t].id)

(* The layout on display is that of the map as it was, when it is tagged   *)
(* with the present number of writes, or is still the empty one.           *)
ClickInv ==
    /\ shownWrites <= writes
    /\ shownWrites = writes => shown = secret_name_to_path \/ shown = NoSecrets
    /\ \A t \in Tasks : TaskCurrent(t)

(* A step that leaves the map, the display and the clicks alone.           *)
LEMMA FrameKeepsClicks ==
    ASSUME TypeOK, ClickInv, NEW t \in Tasks, NEW to,
           to \notin {"l_reply", "c_clone"}, pc' = [pc EXCEPT ![t] = to],
           UNCHANGED << secret_name_to_path, writes, shown, shownWrites, click >>,
           \A u \in Tasks : u # t => found'[u] = found[u]
    PROVE  ClickInv'
<1>1. ASSUME NEW u \in Tasks PROVE TaskCurrent(u)'
  <2>1. CASE u = t
    <3>1. pc'[u] = to
      BY <2>1 DEF TypeOK
    <3> QED
      BY <3>1 DEF ClickInv, TaskCurrent
  <2>2. CASE u # t
    <3>1. pc'[u] = pc[u] /\ found'[u] = found[u]
      BY <2>2 DEF TypeOK
    <3> QED
      BY <3>1 DEF ClickInv, TaskCurrent
  <2> QED
    BY <2>1, <2>2
<1> QED
    BY <1>1 DEF ClickInv

(* A step of task t that changes its own click or the display.             *)
LEMMA OwnStepKeepsClicks ==
    ASSUME TypeOK, ClickInv, NEW t \in Tasks, NEW to,
           pc' = [pc EXCEPT ![t] = to],
           UNCHANGED << secret_name_to_path, writes >>,
           \A u \in Tasks : u # t => /\ found'[u] = found[u]
                                     /\ click'[u] = click[u],
           TaskCurrent(t)', shownWrites' <= writes,
           shownWrites' = writes => shown' = secret_name_to_path \/ shown' = NoSecrets
    PROVE  ClickInv'
<1>1. ASSUME NEW u \in Tasks, u # t PROVE TaskCurrent(u)'
  <2>1. pc'[u] = pc[u] /\ found'[u] = found[u] /\ click'[u] = click[u]
    BY <1>1 DEF TypeOK
  <2> QED
    BY <2>1 DEF ClickInv, TaskCurrent
<1> QED
    BY <1>1 DEF ClickInv

(* The steps of the handlers.                                              *)
LEMMA HandlerKeepsClicks ==
    ASSUME TypeOK, ClickInv, NEW t \in Tasks, Handler(t)
    PROVE  ClickInv'
<1> USE DEF Step, local, menu, panel
<1>1. CASE Reply(t)
    BY <1>1, FrameKeepsClicks DEF Reply
<1>2. CASE CloneForLayout(t)
  <2>1. /\ click' = [click EXCEPT ![t].writes = writes]
        /\ found' = [found EXCEPT ![t] = secret_name_to_path]
        /\ pc' = [pc EXCEPT ![t] = "l_reply"]
        /\ UNCHANGED << secret_name_to_path, writes, shown, shownWrites >>
    BY <1>2 DEF CloneForLayout
  <2>2. /\ click'[t].writes = writes /\ found'[t] = secret_name_to_path
        /\ pc'[t] = "l_reply" /\ writes \in Nat
    BY <2>1 DEF TypeOK, Clicks
  <2>3. TaskCurrent(t)'
    BY <2>1, <2>2 DEF TaskCurrent
  <2>4. \A u \in Tasks : u # t => found'[u] = found[u] /\ click'[u] = click[u]
    BY <2>1 DEF TypeOK
  <2> QED
    BY <2>1, <2>3, <2>4, OwnStepKeepsClicks DEF ClickInv
<1>3. CASE LayoutReply(t)
  <2>1. /\ pc[t] = "l_reply" /\ pc' = [pc EXCEPT ![t] = "idle"]
        /\ shown' = found[t] /\ shownWrites' = click[t].writes
        /\ UNCHANGED << secret_name_to_path, writes, found, click >>
    BY <1>3 DEF LayoutReply
  <2>2. /\ shownWrites' <= writes
        /\ shownWrites' = writes => shown' = secret_name_to_path
    BY <2>1 DEF ClickInv, TaskCurrent
  <2>3. pc'[t] = "idle"
    BY <2>1 DEF TypeOK
  <2>4. TaskCurrent(t)'
    BY <2>1, <2>3 DEF TaskCurrent, ClickInv
  <2> QED
    BY <2>1, <2>2, <2>4, OwnStepKeepsClicks
<1>4. CASE LockForUpdate(t)
    BY <1>4, FrameKeepsClicks DEF LockForUpdate
<1>5. CASE SearchItems(t)
    BY <1>5, FrameKeepsClicks DEF SearchItems, TypeOK
<1>6. CASE \E item \in Items : ReadLabel(t, item)
  <2>1. \A u \in Tasks : u # t => found'[u] = found[u]
    BY <1>6 DEF ReadLabel, TypeOK
  <2> QED
    BY <1>6, <2>1, FrameKeepsClicks DEF ReadLabel
<1>7. CASE EndSearch(t)
    BY <1>7, FrameKeepsClicks DEF EndSearch
<1>8. CASE StoreSecrets(t)
  <2>1. /\ writes' = writes + 1 /\ writes \in Nat
        /\ UNCHANGED << click, shown, shownWrites >>
    BY <1>8 DEF StoreSecrets, TypeOK
  <2>2. ASSUME NEW u \in Tasks
        PROVE  click[u].writes \in Nat /\ click[u].writes <= writes
    BY DEF ClickInv, TaskCurrent, TypeOK, Clicks
  <2>3. shownWrites \in Nat /\ shownWrites <= writes
    BY DEF ClickInv, TypeOK
  <2>4. ASSUME NEW u \in Tasks PROVE TaskCurrent(u)'
    BY <2>1, <2>2 DEF TaskCurrent
  <2> QED
    BY <2>1, <2>3, <2>4 DEF ClickInv
<1>9. CASE EmitLayoutUpdated(t)
    BY <1>9, FrameKeepsClicks DEF EmitLayoutUpdated
<1>10. CASE CloneForClick(t)
  <2>1. PICK to \in {"c_lock", "reply"} : pc' = [pc EXCEPT ![t] = to]
    BY <1>10 DEF CloneForClick
  <2>2. \A u \in Tasks : /\ click'[u].writes = click[u].writes
                         /\ u # t => click'[u] = click[u]
    <3>1. click \in [Tasks -> Clicks]
      BY DEF TypeOK
    <3>2. \/ UNCHANGED click
          \/ \E i : click' = [click EXCEPT ![t].item = i]
      BY <1>10 DEF CloneForClick
    <3>3. ASSUME NEW i, click' = [click EXCEPT ![t].item = i], NEW u \in Tasks
          PROVE  /\ click'[u].writes = click[u].writes
                 /\ u # t => click'[u] = click[u]
      BY <3>1, <3>3 DEF Clicks
    <3> QED
      BY <3>2, <3>3
  <2>3. UNCHANGED << secret_name_to_path, writes, shown, shownWrites, found >>
    BY <1>10 DEF CloneForClick
  <2>4. pc'[t] = to
    BY <2>1 DEF TypeOK
  <2>5. TaskCurrent(t)'
    BY <2>2, <2>3, <2>4 DEF TaskCurrent, ClickInv
  <2> QED
    BY <2>1, <2>2, <2>3, <2>5, OwnStepKeepsClicks DEF ClickInv
<1>11. CASE LockForSecret(t)
    BY <1>11, FrameKeepsClicks DEF LockForSecret
<1>12. CASE CopySecret(t)
    BY <1>12, FrameKeepsClicks DEF CopySecret
<1>13. CASE FailSecret(t)
    BY <1>13, FrameKeepsClicks DEF FailSecret
<1>14. CASE Panic(t)
    BY <1>14, FrameKeepsClicks DEF Panic
<1> QED
    BY <1>1, <1>2, <1>3, <1>4, <1>5, <1>6, <1>7, <1>8, <1>9, <1>10, <1>11,
       <1>12, <1>13, <1>14 DEF Handler

(* Initially nothing was clicked and nothing is displayed.                 *)
LEMMA ClicksInitially == Init => ClickInv
    BY DEF Init, ClickInv, TaskCurrent, NoClick

(* Every step preserves ClickInv.                                          *)
LEMMA ClicksStep == TypeOK /\ ClickInv /\ [Next]_vars => ClickInv'
<1> SUFFICES ASSUME TypeOK, ClickInv, [Next]_vars PROVE ClickInv'
    OBVIOUS
<1>1. ASSUME NEW t \in Tasks, CallGetLayout(t) PROVE ClickInv'
    BY <1>1, FrameKeepsClicks DEF CallGetLayout, Call, menu
<1>2. ASSUME NEW t \in Tasks, CallUpdate(t) PROVE ClickInv'
    BY <1>2, FrameKeepsClicks DEF CallUpdate, Call, menu
<1>3. ASSUME NEW t \in Tasks, NEW id, CallSecret(t, id) PROVE ClickInv'
  <2>1. /\ pc' = [pc EXCEPT ![t] = "c_clone"] /\ id \in MenuIds(shown)
        /\ click' = [click EXCEPT ![t] =
                        [id |-> id, label |-> Displayed(shown, id),
                         serial |-> clicks + 1, writes |-> shownWrites,
                         item |-> 0]]
        /\ UNCHANGED << secret_name_to_path, writes, shown, shownWrites, found >>
    BY <1>3 DEF CallSecret, Call, menu
  <2>2. shown # NoSecrets
    BY <2>1 DEF MenuIds, NoSecrets
  <2>3. /\ click'[t].id = id /\ click'[t].label = Displayed(shown, id)
        /\ click'[t].writes = shownWrites /\ pc'[t] = "c_clone"
    BY <2>1 DEF TypeOK
  <2>4. TaskCurrent(t)'
    BY <2>1, <2>2, <2>3 DEF TaskCurrent, ClickInv
  <2>5. \A u \in Tasks : u # t => click'[u] = click[u]
    BY <2>1 DEF TypeOK
  <2> QED
    BY <2>1, <2>4, <2>5, OwnStepKeepsClicks DEF ClickInv
<1>4. ASSUME NEW t \in Tasks, CallExit(t) PROVE ClickInv'
    BY <1>4, FrameKeepsClicks DEF CallExit, local, menu, panel
<1>5. ASSUME NEW t \in Tasks, Handler(t) PROVE ClickInv'
    BY <1>5, HandlerKeepsClicks
<1>6. CASE Main \/ (\E item \in Items : EditKeyring(item)) \/ UNCHANGED vars
  <2>1. UNCHANGED << pc, click, found, shown, shownWrites, writes,
                     secret_name_to_path >>
    BY <1>6 DEF Main, ReceiveCopy, ReceiveExit, DropConnection, EndMain,
                EditKeyring, vars, local, menu, panel
  <2> QED
    BY <2>1 DEF ClickInv, TaskCurrent
<1> QED
    BY <1>1, <1>2, <1>3, <1>4, <1>5, <1>6 DEF Next

(* A click on a layout that is still current resolves to the account under *)
(* which its entry was displayed, whatever Updates and fetches overlap it. *)
THEOREM CurrentClicksResolve == Spec => []ClickResolves
<1>1. TypeOK /\ ClickInv => ClickResolves
  <2> SUFFICES ASSUME TypeOK, ClickInv, NEW t \in Tasks,
                      pc[t] = "c_clone", click[t].writes = writes
               PROVE  /\ HasNth(secret_name_to_path, ActualIndex(click[t].id))
                      /\ NthLabel(secret_name_to_path, ActualIndex(click[t].id))
                             = click[t].label
    BY DEF ClickResolves
  <2>1. /\ click[t].id \in MenuIds(secret_name_to_path)
        /\ click[t].label = Displayed(secret_name_to_path, click[t].id)
    BY DEF ClickInv, TaskCurrent
  <2>2. PICK l \in DOMAIN secret_name_to_path :
                click[t].id = Rank(secret_name_to_path, l) + 1
    BY <2>1 DEF MenuIds
  <2>3. Rank(secret_name_to_path, l) \in Nat
    BY RankType DEF TypeOK
  <2>4. Rank(secret_name_to_path, l) = ActualIndex(click[t].id)
    BY <2>2, <2>3 DEF ActualIndex
  <2> QED
    BY <2>1, <2>4 DEF HasNth, Displayed, ActualIndex
<1> QED
    BY <1>1, ClicksInitially, ClicksStep, NotifierTypeCorrect, PTL DEF Spec

-----------------------------------------------------------------------------
(* Updates of the menu.                                                    *)

Updating(t) == pc[t] \in {"u_lock", "u_search", "u_label", "u_write"}

(* While nothing else overlaps the last Update: what it has found are the  *)
(* items of the keyring, but for those that it has yet to ask for and      *)
(* those that it could not read, and so is what it leaves in the map.      *)
UpdateInv ==
    fresh = "alone" =>
        /\ \A t, u \in Tasks : Updating(t) /\ Updating(u) => t = u
        /\ \A t \in Tasks : pc[t] \in {"u_lock", "u_search"} => skipped = {}
        /\ \A t \in Tasks : pc[t] = "u_label" =>
              /\ todo[t] \subseteq keyring /\ todo[t] \cap skipped = {}
              /\ Lists(found[t], keyring \ (skipped \cup todo[t]))
        /\ \A t \in Tasks :
              pc[t] = "u_write" => Lists(found[t], keyring \ skipped)
        /\ (\A t \in Tasks : ~Updating(t)) =>
              Lists(secret_name_to_path, keyring \ skipped)

(* A step of a task that is not updating, or only takes the lock.          *)
Aside(t, to) ==
    /\ pc' = [pc EXCEPT ![t] = to]
    /\ \/ ~Updating(t) /\ to \notin {"u_lock", "u_search", "u_label", "u_write"}
       \/ pc[t] = "u_lock" /\ to = "u_search"
    /\ \A u \in Tasks : u # t => found'[u] = found[u] /\ todo'[u] = todo[u]
    /\ UNCHANGED << secret_name_to_path, keyring, fresh, skipped >>

(* A step beside the Update leaves it alone.                               *)
LEMMA AsideKeepsUpdate ==
    ASSUME TypeOK, UpdateInv, NEW t \in Tasks, NEW to, Aside(t, to)
    PROVE  UpdateInv'
<1> USE DEF Aside
<1>1. pc \in [Tasks -> PCs]
    BY DEF TypeOK
<1>2. /\ \A u \in Tasks : u # t => pc'[u] = pc[u]
      /\ pc'[t] = to
    BY <1>1
<1>3. \A u \in Tasks : Updating(u)' <=> Updating(u)
    BY <1>2 DEF Updating
<1>4. \A u \in Tasks : pc'[u] \in {"u_label", "u_write"} =>
          /\ pc[u] = pc'[u] /\ found'[u] = found[u] /\ todo'[u] = todo[u]
    BY <1>2
<1>5. \A u \in Tasks : pc'[u] \in {"u_lock", "u_search"} =>
          pc[u] \in {"u_lock", "u_search"}
    BY <1>2 DEF Updating
<1> QED
    BY <1>3, <1>4, <1>5 DEF UpdateInv

(* The empty map lists no item.                                            *)
LEMMA NoneListed == Lists(NoSecrets, {})
    BY DEF Lists, NoSecrets, LabelsIn

(* With an item inserted, a map lists that item as well.                   *)
LEMMA InsertLists ==
    ASSUME NEW map, NEW S, NEW item, Lists(map, S)
    PROVE  Lists(Insert(map, item), S \cup {item})
<1>1. DOMAIN Insert(map, item) = DOMAIN map \cup {LabelOf[item]}
    BY DEF Insert
<1>2. LabelsIn(S \cup {item}) = LabelsIn(S) \cup {LabelOf[item]}
    BY DEF LabelsIn
<1>3. ASSUME NEW l \in DOMAIN Insert(map, item)
      PROVE  /\ Insert(map, item)[l] \in S \cup {item}
             /\ LabelOf[Insert(map, item)[l]] = l
    BY <1>1 DEF Insert, Lists
<1> QED
    BY <1>1, <1>2, <1>3 DEF Lists

(* The steps of the handlers.                                              *)
LEMMA HandlerKeepsUpdate ==
    ASSUME TypeOK, UpdateInv, NEW t \in Tasks, Handler(t)
    PROVE  UpdateInv'
<1> USE DEF Step, local, menu, panel
<1>1. pc \in [Tasks -> PCs] /\ found \in [Tasks -> Maps]
      /\ todo \in [Tasks -> SUBSET Items]
    BY DEF TypeOK
<1>2. CASE \/ Reply(t) \/ CloneForLayout(t) \/ LayoutReply(t)
           \/ LockForUpdate(t) \/ EmitLayoutUpdated(t) \/ CloneForClick(t)
           \/ LockForSecret(t) \/ CopySecret(t) \/ FailSecret(t)
  <2>1. CASE Reply(t)
    BY <2>1, AsideKeepsUpdate DEF Reply, Aside, Updating
  <2>2. CASE CloneForLayout(t)
    <3>1. Aside(t, "l_reply")
      BY <1>1, <2>2 DEF CloneForLayout, Aside, Updating
    <3> QED
      BY <3>1, AsideKeepsUpdate
  <2>3. CASE LayoutReply(t)
    BY <2>3, AsideKeepsUpdate DEF LayoutReply, Aside, Updating
  <2>4. CASE LockForUpdate(t)
    BY <2>4, AsideKeepsUpdate DEF LockForUpdate, Aside
  <2>5. CASE EmitLayoutUpdated(t)
    BY <2>5, AsideKeepsUpdate DEF EmitLayoutUpdated, Aside, Updating
  <2>6. CASE CloneForClick(t)
    <3>1. Aside(t, "c_lock") \/ Aside(t, "reply")
      BY <2>6 DEF CloneForClick, Aside, Updating
    <3> QED
      BY <3>1, AsideKeepsUpdate
  <2>7. CASE LockForSecret(t)
    BY <2>7, AsideKeepsUpdate DEF LockForSecret, Aside, Updating
  <2>8. CASE CopySecret(t)
    BY <2>8, AsideKeepsUpdate DEF CopySecret, Aside, Updating
  <2>9. CASE FailSecret(t)
    BY <2>9, AsideKeepsUpdate DEF FailSecret, Aside, Updating
  <2> QED
    BY <1>2, <2>1, <2>2, <2>3, <2>4, <2>5, <2>6, <2>7, <2>8, <2>9
<1>3. CASE Panic(t)
  <2>1. CASE pc[t] = "u_search"
    BY <1>3, <2>1 DEF Panic, UpdateInv
  <2>2. CASE pc[t] # "u_search"
    <3>1. Aside(t, "panicked")
      BY <1>3, <2>2 DEF Panic, Aside, Updating
    <3> QED
      BY <3>1, AsideKeepsUpdate
  <2> QED
    BY <2>1, <2>2
<1>4. ASSUME NEW to \in {"u_label", "u_write"}, Updating(t), fresh' = "alone",
             pc' = [pc EXCEPT ![t] = to],
             UNCHANGED << keyring, fresh >>,
             to = "u_label" =>
                 /\ todo'[t] \subseteq keyring /\ todo'[t] \cap skipped' = {}
                 /\ Lists(found'[t], keyring \ (skipped' \cup todo'[t])),
             to = "u_write" => Lists(found'[t], keyring \ skipped')
      PROVE  UpdateInv'
  <2>1. /\ \A u \in Tasks : u # t => pc'[u] = pc[u]
        /\ pc'[t] = to
    BY <1>1, <1>4
  <2>2. \A u \in Tasks : Updating(u)' <=> Updating(u)
    BY <1>4, <2>1 DEF Updating
  <2>3. \A u \in Tasks : u # t => ~Updating(u)
    BY <1>4 DEF UpdateInv
  <2>4. \A u \in Tasks : pc'[u] \in {"u_label", "u_write"} => u = t
    BY <2>1, <2>3 DEF Updating
  <2>5. \A u, v \in Tasks : Updating(u)' /\ Updating(v)' => u = v
    BY <2>2, <2>3
  <2>6. Updating(t)'
    BY <1>4, <2>2
  <2>7. \A u \in Tasks : pc'[u] \notin {"u_lock", "u_search"}
    BY <1>4, <2>1, <2>3 DEF Updating
  <2>8. ASSUME NEW u \in Tasks, pc'[u] = "u_label"
        PROVE  /\ todo'[u] \subseteq keyring' /\ todo'[u] \cap skipped' = {}
               /\ Lists(found'[u], keyring' \ (skipped' \cup todo'[u]))
    BY <1>4, <2>1, <2>4, <2>8
  <2>9. ASSUME NEW u \in Tasks, pc'[u] = "u_write"
        PROVE  Lists(found'[u], keyring' \ skipped')
    BY <1>4, <2>1, <2>4, <2>9
  <2> QED
    BY <2>5, <2>6, <2>7, <2>8, <2>9 DEF UpdateInv
<1>5. ASSUME fresh' # "alone" PROVE UpdateInv'
    BY <1>5 DEF UpdateInv
<1>6. CASE SearchItems(t)
  <2> SUFFICES ASSUME fresh = "alone" PROVE UpdateInv'
    BY <1>5, <1>6 DEF SearchItems
  <2>1. todo'[t] = keyring /\ found'[t] = NoSecrets
    BY <1>1, <1>6 DEF SearchItems
  <2>2. skipped' = {}
    BY <1>6 DEF SearchItems, UpdateInv
  <2>3. keyring \ (skipped' \cup todo'[t]) = {}
    BY <2>1
  <2>4. Lists(found'[t], keyring \ (skipped' \cup todo'[t]))
    BY <2>1, <2>3, NoneListed
  <2>5. Updating(t)
    BY <1>6 DEF SearchItems, Updating
  <2> QED
    BY <1>4, <1>6, <2>1, <2>2, <2>4, <2>5 DEF SearchItems
<1>7. ASSUME NEW item \in Items, ReadLabel(t, item) PROVE UpdateInv'
  <2> SUFFICES ASSUME fresh = "alone" PROVE UpdateInv'
    BY <1>5, <1>7 DEF ReadLabel
  <2> DEFINE got == keyring \ (skipped \cup todo[t])
  <2>1. /\ item \in todo[t] /\ todo[t] \subseteq keyring
        /\ todo[t] \cap skipped = {} /\ Lists(found[t], got)
    BY <1>7 DEF ReadLabel, UpdateInv
  <2>2. todo'[t] = todo[t] \ {item}
    BY <1>1, <1>7 DEF ReadLabel
  <2>3. Lists(found'[t], keyring \ (skipped' \cup todo'[t]))
    <3>1. CASE /\ item \in keyring
               /\ found' = [found EXCEPT ![t] = Insert(@, item)]
               /\ UNCHANGED skipped
      <4>1. found'[t] = Insert(found[t], item)
        BY <1>1, <3>1
      <4>2. keyring \ (skipped' \cup todo'[t]) = got \cup {item}
        BY <2>1, <2>2, <3>1
      <4> QED
        BY <2>1, <4>1, <4>2, InsertLists
    <3>2. CASE skipped' = skipped \cup {item} /\ UNCHANGED found
      <4>1. keyring \ (skipped' \cup todo'[t]) = got
        BY <2>1, <2>2, <3>2
      <4> QED
        BY <2>1, <3>2, <4>1
    <3> QED
      BY <1>7, <3>1, <3>2 DEF ReadLabel
  <2>4. todo'[t] \subseteq keyring /\ todo'[t] \cap skipped' = {}
    BY <1>7, <2>1, <2>2 DEF ReadLabel
  <2>5. Updating(t)
    BY <1>7 DEF ReadLabel, Updating
  <2> HIDE DEF got
  <2> QED
    BY <1>4, <1>7, <2>3, <2>4, <2>5 DEF ReadLabel
<1>8. CASE EndSearch(t)
  <2> SUFFICES ASSUME fresh = "alone" PROVE UpdateInv'
    BY <1>5, <1>8 DEF EndSearch
  <2>1. todo[t] = {} /\ Lists(found[t], keyring \ (skipped \cup todo[t]))
    BY <1>8 DEF EndSearch, UpdateInv
  <2>2. Lists(found'[t], keyring \ skipped')
    BY <1>8, <2>1 DEF EndSearch
  <2> QED
    BY <1>4, <1>8, <2>2 DEF EndSearch, Updating
<1>9. CASE StoreSecrets(t)
  <2> SUFFICES ASSUME fresh = "alone" PROVE UpdateInv'
    BY <1>5, <1>9 DEF StoreSecrets
  <2>1. Updating(t) /\ Lists(found[t], keyring \ skipped)
    BY <1>9 DEF StoreSecrets, UpdateInv, Updating
  <2>2. \A u \in Tasks : u # t => ~Updating(u)
    BY <2>1 DEF UpdateInv
  <2>3. \A u \in Tasks : ~Updating(u)'
    BY <1>1, <1>9, <2>2 DEF StoreSecrets, Updating
  <2>4. Lists(secret_name_to_path', keyring' \ skipped')
    BY <1>9, <2>1 DEF StoreSecrets
  <2> QED
    BY <2>3, <2>4 DEF UpdateInv, Updating
<1> QED
    BY <1>2, <1>3, <1>6, <1>7, <1>8, <1>9 DEF Handler

(* Initially nobody has asked for an Update.                               *)
LEMMA UpdateInitially == Init => UpdateInv
    BY DEF Init, UpdateInv

(* Every step preserves UpdateInv: a call for an Update that is alone is   *)
(* made when no other Update is under way.                                 *)
LEMMA UpdateStep == TypeOK /\ UpdateInv /\ [Next]_vars => UpdateInv'
<1> SUFFICES ASSUME TypeOK, UpdateInv, [Next]_vars PROVE UpdateInv'
    OBVIOUS
<1>1. pc \in [Tasks -> PCs]
    BY DEF TypeOK
<1>2. ASSUME NEW t \in Tasks, NEW kind, NEW to, Call(t, kind, to),
             to \notin {"u_lock", "u_search", "u_label", "u_write"},
             UNCHANGED << fresh, skipped >>
      PROVE  UpdateInv'
  <2>1. Aside(t, to)
    BY <1>2 DEF Call, Aside, Updating, Free, menu
  <2> QED
    BY <2>1, AsideKeepsUpdate
<1>3. ASSUME NEW t \in Tasks, CallGetLayout(t) PROVE UpdateInv'
    BY <1>2, <1>3 DEF CallGetLayout
<1>4. ASSUME NEW t \in Tasks, NEW id, CallSecret(t, id) PROVE UpdateInv'
    BY <1>2, <1>4 DEF CallSecret
<1>5. ASSUME NEW t \in Tasks, CallExit(t) PROVE UpdateInv'
  <2>1. Aside(t, "reply")
    BY <1>5 DEF CallExit, Aside, Updating, Free, local, menu
  <2> QED
    BY <2>1, AsideKeepsUpdate
<1>6. ASSUME NEW t \in Tasks, CallUpdate(t) PROVE UpdateInv'
  <2> SUFFICES ASSUME fresh' = "alone" PROVE UpdateInv'
    BY DEF UpdateInv
  <2>1. \A u \in Tasks : ~Updating(u)
    BY <1>6 DEF CallUpdate, Updating
  <2>2. /\ \A u \in Tasks : u # t => pc'[u] = pc[u]
        /\ pc'[t] = "u_lock"
    BY <1>1, <1>6 DEF CallUpdate, Call
  <2>3. /\ Updating(t)' /\ \A u \in Tasks : u # t => ~Updating(u)'
        /\ \A u \in Tasks : pc'[u] \notin {"u_label", "u_write"}
    BY <2>1, <2>2 DEF Updating
  <2>4. skipped' = {}
    BY <1>6, <2>1 DEF CallUpdate, Updating
  <2> QED
    BY <2>3, <2>4 DEF UpdateInv
<1>7. ASSUME NEW t \in Tasks, Handler(t) PROVE UpdateInv'
    BY <1>7, HandlerKeepsUpdate
<1>8. CASE Main \/ UNCHANGED vars
  <2>1. UNCHANGED << pc, todo, found, secret_name_to_path, keyring, fresh,
                     skipped >>
    BY <1>8 DEF Main, ReceiveCopy, ReceiveExit, DropConnection, EndMain, vars,
                local, menu
  <2> QED
    BY <2>1 DEF UpdateInv, Updating
<1>9. ASSUME NEW item \in Items, EditKeyring(item) PROVE UpdateInv'
    BY <1>9 DEF EditKeyring, UpdateInv
<1> QED
    BY <1>3, <1>4, <1>5, <1>6, <1>7, <1>8, <1>9 DEF Next

(* An Update that no other overlaps, the keyring being left alone, leaves  *)
(* the menu with the items of the keyring, each label with one of the      *)
(* items that bear it, except for those whose labels the service failed to *)
(* give, whatever else the panel asks for meanwhile.                       *)
THEOREM LoneUpdateComplete == Spec => []UpdateComplete
<1>1. UpdateInv => UpdateComplete
    BY DEF UpdateInv, UpdateComplete, Updating, Active, Free
<1> QED
    BY <1>1, UpdateInitially, UpdateStep, NotifierTypeCorrect, PTL DEF Spec
=============================================================================
