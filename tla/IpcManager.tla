----------------------------- MODULE IpcManager -----------------------------
(***************************************************************************)
(* The thread ipc-manager (run_loopback_manager in loopback.rs), which     *)
(* opens, moves and closes the loopback server as the section "ipc" of the *)
(* merged settings says and tells where it is: in bound_slot for the       *)
(* settings window, in ipc_endpoint.json for other programs.  The settings *)
(* change under it, other programs take and leave ports, the file may not  *)
(* be writable, which nobody looks at, and the program ends and starts     *)
(* again over the file it left.                                            *)
(*                                                                         *)
(* Between two steps of the thread anybody else may run.  A connection     *)
(* that is accepted is a client that arrives in SseHub.                    *)
(***************************************************************************)
EXTENDS Settings

CONSTANTS
  Off,    \* "ipc" without enabled
  Port,   \* TCP ports, in the order of the band
  Nobody  \* no listener, or the endpoint file that says so

ASSUME PortAssumption == Port \subseteq Nat
ASSUME IpcAssumption == Ipcs \subseteq Port \cup {Off}
ASSUME OffAssumption == Off \notin Port /\ Nobody \notin Port

VARIABLES
  pc,        \* the step the manager takes next
  want,      \* the settings it read in this poll
  listener,  \* the port it listens at
  slot,      \* bound_slot
  file,      \* ipc_endpoint.json
  written,   \* the last attempt to write it came through (a history)
  taken      \* ports other programs listen at

managerVars == <<pc, want, listener, slot, file, written>>
vars == <<settingsVars, managerVars, taken>>

Step == {"poll", "unset", "erase", "bind", "show", "write"}

(* read_ipc_settings *)
Wanted == merged.ipc

(* Mistake: only switching the server off closes it. *)
MovesOnlyWhenOff == listener # Nobody /\ Wanted = Off

(* The listener does not serve what the settings ask for: also when it had  *)
(* to fall back on another port, which is given up again at every poll.     *)
Moves == listener # Nobody /\ Wanted # listener

Poll ==
  /\ pc = "poll"
  /\ want' = Wanted
  /\ IF Moves
       THEN listener' = Nobody /\ pc' = "unset"
       ELSE /\ pc' = IF want' # Off /\ listener = Nobody THEN "bind" ELSE "poll"
            /\ UNCHANGED listener
  /\ UNCHANGED <<slot, file, written>>

(* Mistake: the port that is gone stays on display. *)
SlotKept == slot' = slot

SlotUnset == slot' = Nobody

Unset ==
  /\ pc = "unset"
  /\ SlotUnset
  /\ pc' = IF want = Off THEN "erase" ELSE "bind"
  /\ UNCHANGED <<want, listener, file, written>>

(* Mistake: the file is written when the server is first opened only. *)
FileKept(p) == file' = (IF file = Nobody THEN p ELSE file) /\ written' = TRUE

(* write_endpoint_file: a file beside it is renamed over it.  The directory *)
(* that cannot be made and the write or the rename that fails are ignored   *)
(* and not tried again.                                                     *)
FileNames(p) ==
  \/ file' = p /\ written' = TRUE
  \/ written' = FALSE /\ UNCHANGED file

Erase ==
  /\ pc = "erase"
  /\ FileNames(Nobody)
  /\ pc' = "poll"
  /\ UNCHANGED <<want, listener, slot>>

(* Mistake: only the wanted port will do. *)
OnlyWanted(p) == p \notin taken /\ p = want

(* bind_with_fallback: the wanted port, else the first free one.            *)
Bound(p) ==
  /\ p \notin taken
  /\ p = want \/ (want \in taken /\ \A q \in Port : q < p => q \in taken)

Bind ==
  /\ pc = "bind"
  /\ \/ \E p \in Port : Bound(p) /\ listener' = p /\ pc' = "show"
     \/ (\A p \in Port : ~Bound(p)) /\ pc' = "poll" /\ UNCHANGED listener
  /\ UNCHANGED <<want, slot, file, written>>

Show ==
  /\ pc = "show"
  /\ slot' = listener
  /\ pc' = "write"
  /\ UNCHANGED <<want, listener, file, written>>

Write ==
  /\ pc = "write"
  /\ FileNames(listener)
  /\ pc' = "poll"
  /\ UNCHANGED <<want, listener, slot>>

Manager == up /\ (Poll \/ Unset \/ Erase \/ Bind \/ Show \/ Write)
           /\ UNCHANGED <<settingsVars, taken>>

(* Other programs *)
PortTaken(p) ==
  /\ p \notin taken /\ p # listener
  /\ taken' = taken \cup {p}
  /\ UNCHANGED <<settingsVars, managerVars>>

PortLeft(p) ==
  /\ taken' = taken \ {p} /\ p \in taken
  /\ UNCHANGED <<settingsVars, managerVars>>

(* The program ends at any step: its port is free and the file stays.       *)
Exit ==
  /\ SettingsExit
  /\ pc' = "poll" /\ want' = Off /\ listener' = Nobody /\ slot' = Nobody
  /\ UNCHANGED <<file, written, taken>>

Init ==
  /\ SettingsInit
  /\ pc = "poll" /\ want = Off /\ listener = Nobody /\ slot = Nobody
  /\ file = Nobody /\ written = TRUE
  /\ taken \in SUBSET Port

Next ==
  \/ Manager
  \/ (Gui \/ Writer \/ SettingsStart) /\ UNCHANGED <<managerVars, taken>>
  \/ Exit
  \/ \E p \in Port : PortTaken(p) \/ PortLeft(p)

Spec == Init /\ [][Next]_vars

(* The two threads of the program run on; nobody else has to do anything.   *)
FairSpec == Spec /\ WF_vars(Manager)
                 /\ WF_vars(Writer /\ UNCHANGED <<managerVars, taken>>)

---------------------------------------------------------------------------
(* Every variable keeps its type. *)
TypeOK ==
  /\ SettingsTypeOK
  /\ pc \in Step
  /\ want \in Port \cup {Off}
  /\ listener \in Port \cup {Nobody} /\ slot \in Port \cup {Nobody}
  /\ file \in Port \cup {Nobody} /\ written \in BOOLEAN
  /\ taken \subseteq Port

(* Whenever the manager sleeps, what it tells is so: the slot is the port   *)
(* it serves, and while it serves one the file names it, unless the last    *)
(* attempt to write the file failed: whatever was moved or bound again,     *)
(* whichever attempts failed before and whatever file an earlier run left.  *)
EndpointIsServed ==
  up /\ pc = "poll" => /\ slot = listener
                       /\ listener # Nobody /\ written => file = listener

(* Settings that stay as they are take effect: switched off, the server     *)
(* closes; switched on at a port nobody holds, it ends up there and is      *)
(* announced there, also after it had to make do with another port.  Only   *)
(* the file may go on naming another port, when that write failed.          *)
SettingsTakeEffect ==
  /\ <>[](up /\ merged.ipc = Off) => <>[](listener = Nobody /\ slot = Nobody)
  /\ \A p \in Port :
       <>[](up /\ merged.ipc = p /\ p \notin taken)
         => <>[](listener = p /\ slot = p /\ (written => file = p))

(* With a free port in the band the server is reachable again and again,    *)
(* where the slot says and, as often as it can be written, the file.        *)
ServedDespiteConflict ==
  <>[](up /\ merged.ipc # Off /\ ~(Port \subseteq taken))
    => []<>(listener # Nobody /\ slot = listener /\ (written => file = listener))
===========================================================================
