-------------------------- MODULE IpcManagerProofs --------------------------
(***************************************************************************)
(* Theorems about the settings and the loopback manager, for every band of *)
(* ports, every value of the settings and every length of the queue.       *)
(***************************************************************************)
EXTENDS IpcManager, SequenceTheorems, TLAPS

---------------------------------------------------------------------------
(* Settings: each path keeps the types. *)

LEMMA WindowTypes ==
  ASSUME SettingsTypeOK, OpenSettings \/ CloseSettings \/ EditDraft \/ SaveSettings
  PROVE  SettingsTypeOK'
<1> USE DEF SettingsTypeOK, Setting, writerVars
<1>1. CASE OpenSettings
  BY <1>1 DEF OpenSettings
<1>2. CASE CloseSettings
  BY <1>2 DEF CloseSettings
<1>3. CASE EditDraft
  BY <1>3 DEF EditDraft
<1>4. CASE SaveSettings
  BY <1>4 DEF SaveSettings, Saved
<1>5. QED
  BY <1>1, <1>2, <1>3, <1>4

LEMMA OtherPathTypes ==
  ASSUME SettingsTypeOK, UpdateSyncFilter \/ SaveOverlayPosition
  PROVE  SettingsTypeOK'
<1>1. CASE UpdateSyncFilter
  <2>1. draft' \in Setting /\ merged' \in Setting
    BY <1>1 DEF UpdateSyncFilter, SettingsTypeOK, Setting
  <2>2. queue' \in Seq(Setting)
    BY <1>1, <2>1, AppendProperties DEF UpdateSyncFilter, SettingsTypeOK
  <2>3. QED
    BY <1>1, <2>1, <2>2 DEF UpdateSyncFilter, SettingsTypeOK
<1>2. CASE SaveOverlayPosition
  <2>1. PICK pos \in Positions :
          /\ merged' = [merged EXCEPT !.position = pos]
          /\ disk' \in {[merged EXCEPT !.position = pos], disk}
          /\ draft' = [draft EXCEPT !.position = pos]
    BY <1>2 DEF SaveOverlayPosition
  <2>2. draft' \in Setting /\ merged' \in Setting /\ disk' \in Setting
    BY <2>1 DEF SettingsTypeOK, Setting
  <2>3. QED
    BY <1>2, <2>2 DEF SaveOverlayPosition, SettingsTypeOK, writerVars
<1>3. QED
  BY <1>1, <1>2

LEMMA WriterTypes ==
  ASSUME SettingsTypeOK, Writer
  PROVE  SettingsTypeOK'
<1>1. CASE WriterReceives
  <2>1. Head(queue) \in Setting /\ Tail(queue) \in Seq(Setting)
    BY <1>1, HeadTailProperties DEF WriterReceives, SettingsTypeOK
  <2>2. QED
    BY <1>1, <2>1 DEF WriterReceives, SettingsTypeOK
<1>2. CASE WriterFlushes
  BY <1>2 DEF WriterFlushes, HasPayload, Saved, SettingsTypeOK
<1>3. QED
  BY <1>1, <1>2 DEF Writer

LEMMA ExitTypes ==
  ASSUME SettingsTypeOK, SettingsExit
  PROVE  SettingsTypeOK'
<1>1. disk' \in Setting
  <2>1. CASE UNCHANGED disk
    BY <2>1 DEF SettingsTypeOK
  <2>2. CASE pending # NoPayload /\ Saved(pending)
    BY <2>2 DEF Saved, SettingsTypeOK
  <2>3. CASE \E k \in DOMAIN queue : Saved(queue[k])
    <3>1. PICK k \in DOMAIN queue : disk' = queue[k]
      BY <2>3 DEF Saved
    <3>2. queue[k] \in Setting
      BY ElementOfSeq, LenProperties DEF SettingsTypeOK
    <3>3. QED
      BY <3>1, <3>2
  <2>4. QED
    BY <2>1, <2>2, <2>3 DEF SettingsExit
<1>2. <<>> \in Seq(Setting)
  OBVIOUS
<1>3. QED
  BY <1>1, <1>2 DEF SettingsExit, SettingsTypeOK

LEMMA StartTypes ==
  ASSUME SettingsTypeOK, SettingsStart
  PROVE  SettingsTypeOK'
BY DEF SettingsStart, SettingsTypeOK, writerVars

---------------------------------------------------------------------------
(* Every variable keeps its type. *)

LEMMA ManagerTypes ==
  ASSUME TypeOK, Manager
  PROVE  TypeOK'
<1> USE DEF TypeOK, Step
<1>1. SettingsTypeOK' /\ taken' \subseteq Port
  BY DEF Manager, settingsVars, writerVars, SettingsTypeOK
<1>2. CASE Poll
  <2>1. merged.ipc \in Port \cup {Off}
    BY IpcAssumption DEF SettingsTypeOK, Setting
  <2>2. QED
    BY <1>1, <1>2, <2>1 DEF Poll, Wanted
<1>3. CASE Unset
  BY <1>1, <1>3 DEF Unset, SlotUnset
<1>4. CASE Erase
  BY <1>1, <1>4 DEF Erase, FileNames
<1>5. CASE Bind
  BY <1>1, <1>5 DEF Bind
<1>6. CASE Show
  BY <1>1, <1>6 DEF Show
<1>7. CASE Write
  BY <1>1, <1>7 DEF Write, FileNames
<1>8. QED
  BY <1>2, <1>3, <1>4, <1>5, <1>6, <1>7 DEF Manager

LEMMA TypeStep ==
  ASSUME TypeOK, [Next]_vars
  PROVE  TypeOK'
<1>1. CASE Manager
  BY <1>1, ManagerTypes
<1>2. CASE (Gui \/ Writer \/ SettingsStart) /\ UNCHANGED <<managerVars, taken>>
  <2>1. SettingsTypeOK
    BY DEF TypeOK
  <2>2. SettingsTypeOK'
    BY <1>2, <2>1, WindowTypes, OtherPathTypes, WriterTypes, StartTypes DEF Gui
  <2>3. QED
    BY <1>2, <2>2 DEF TypeOK, managerVars
<1>3. CASE Exit
  <2>1. SettingsTypeOK'
    BY <1>3, ExitTypes DEF Exit, TypeOK
  <2>2. QED
    BY <1>3, <2>1 DEF Exit, TypeOK, Step
<1>4. CASE \E p \in Port : PortTaken(p) \/ PortLeft(p)
  BY <1>4 DEF PortTaken, PortLeft, TypeOK, SettingsTypeOK, settingsVars, writerVars, managerVars
<1>5. CASE UNCHANGED vars
  BY <1>5 DEF vars, TypeOK, SettingsTypeOK, settingsVars, writerVars, managerVars
<1>6. QED
  BY <1>1, <1>2, <1>3, <1>4, <1>5 DEF Next

(* The settings, the manager and what it announces keep their types.        *)
THEOREM TypeCorrect == Spec => []TypeOK
<1>1. Init => TypeOK
  <2>1. <<>> \in Seq(Setting)
    OBVIOUS
  <2>2. SettingsInit => SettingsTypeOK
    BY <2>1 DEF SettingsInit, SettingsTypeOK
  <2>3. QED
    BY <2>2 DEF Init, TypeOK, Step
<1>2. TypeOK /\ [Next]_vars => TypeOK'
  BY TypeStep
<1>3. QED
  BY <1>1, <1>2, PTL DEF Spec

---------------------------------------------------------------------------
(* What is announced is served.  Between two polls it need not be, so the   *)
(* invariant says for each step of the manager what is still missing; and a *)
(* program that is down serves nothing, though its file stays.              *)

Announced ==
  /\ pc = "poll" => /\ slot = listener
                    /\ listener # Nobody /\ written => file = listener
  /\ pc \in {"unset", "erase", "bind"} => listener = Nobody
  /\ pc \in {"erase", "bind"} => slot = Nobody
  /\ pc = "write" => slot = listener

Served == Announced /\ (~up => pc = "poll" /\ listener = Nobody)

LEMMA ManagerServes ==
  ASSUME TypeOK, Served, Manager
  PROVE  Served'
<1> USE DEF Served, Announced
<1>1. up /\ up'
  BY DEF Manager, settingsVars
<1>2. CASE Poll
  BY <1>1, <1>2 DEF Poll
<1>3. CASE Unset
  BY <1>1, <1>3 DEF Unset, SlotUnset
<1>4. CASE Erase
  BY <1>1, <1>4 DEF Erase, FileNames
<1>5. CASE Bind
  BY <1>1, <1>5 DEF Bind
<1>6. CASE Show
  BY <1>1, <1>6 DEF Show
<1>7. CASE Write
  BY <1>1, <1>7 DEF Write, FileNames
<1>8. QED
  BY <1>2, <1>3, <1>4, <1>5, <1>6, <1>7 DEF Manager

LEMMA OthersKeepServed ==
  ASSUME Served, UNCHANGED managerVars, up' = up \/ up'
  PROVE  Served'
BY DEF Served, Announced, managerVars

LEMMA ServedStep ==
  ASSUME TypeOK, Served, [Next]_vars
  PROVE  Served'
<1>1. CASE Manager
  BY <1>1, ManagerServes
<1>2. CASE (Gui \/ Writer \/ SettingsStart) /\ UNCHANGED <<managerVars, taken>>
  <2>1. up' = up \/ up'
    BY <1>2 DEF Gui, OpenSettings, CloseSettings, EditDraft, SaveSettings, UpdateSyncFilter,
                SaveOverlayPosition, Writer, WriterReceives, WriterFlushes, SettingsStart
  <2>2. QED
    BY <1>2, <2>1, OthersKeepServed
<1>3. CASE Exit
  BY <1>3 DEF Exit, Served, Announced
<1>4. CASE \E p \in Port : PortTaken(p) \/ PortLeft(p)
  BY <1>4, OthersKeepServed DEF PortTaken, PortLeft, settingsVars
<1>5. CASE UNCHANGED vars
  BY <1>5, OthersKeepServed DEF vars, settingsVars
<1>6. QED
  BY <1>1, <1>2, <1>3, <1>4, <1>5 DEF Next

(* Whenever the manager sleeps, the slot names the port it serves, and so   *)
(* does the endpoint file if the last attempt to write it came through: for *)
(* any band, any edits and saves, any ports taken by others, any writes     *)
(* that failed and any number of restarts over the file of an earlier run.  *)
THEOREM EndpointServed == Spec => []EndpointIsServed
<1>1. Init => Served
  BY DEF Init, SettingsInit, Served, Announced
<1>2. TypeOK /\ Served /\ [Next]_vars => Served'
  BY ServedStep
<1>3. Served => EndpointIsServed
  BY DEF Served, Announced, EndpointIsServed
<1>4. QED
  BY <1>1, <1>2, <1>3, TypeCorrect, PTL DEF Spec
=============================================================================
