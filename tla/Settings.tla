------------------------------ MODULE Settings ------------------------------
(***************************************************************************)
(* SharedSettings (native_app.rs) and the debounced writer                 *)
(* (settings_writer.rs): the settings in memory, the draft of the settings *)
(* window and settings.user.json, changed by three paths that do not use   *)
(* the same copy.  The Save button writes the draft, moving the overlay    *)
(* writes the merged settings with a new position, both at once; a filter  *)
(* of the sync window goes into the draft, and that into the queue of the  *)
(* writer thread.                                                          *)
(*                                                                         *)
(* A diff against settings.json merged over settings.json again is the     *)
(* setting itself, so that files and payloads are whole settings here, of  *)
(* one section per path.  The GUI is one thread: its handlers are atomic.  *)
(***************************************************************************)
EXTENDS Naturals, Sequences

CONSTANTS
  Ipcs,         \* values of the section "ipc", edited in the settings window
  Filters,      \* values of "sync_filter", edited in the sync window
  Positions,    \* values of "overlay.position", set by dragging the overlay
  MaxQueue,     \* bound on the payloads the writer has not received
  NoPayload     \* the writer holds nothing

Setting == [ipc : Ipcs, filter : Filters, position : Positions]

ASSUME PayloadAssumption == NoPayload \notin Setting

VARIABLES
  up,            \* the program runs
  windowOpen,    \* the settings window, at the frame that last looked
  draft, merged, \* SharedSettings
  disk,          \* settings.user.json over settings.json
  queue, pending \* the writer's channel, and the payload it waits with

settingsVars == <<up, windowOpen, draft, merged, disk, queue, pending>>
writerVars == <<queue, pending>>

(* save_user_settings_to_path: the file is replaced as a whole or not.      *)
Saved(s) == disk' = s

(* The frame that sees the window open copies the settings into the draft. *)
OpenSettings ==
  /\ up /\ ~windowOpen
  /\ windowOpen' = TRUE
  /\ draft' = merged
  /\ UNCHANGED <<up, merged, disk, writerVars>>

(* Closing keeps the draft, whether it was saved or not. *)
CloseSettings ==
  /\ up /\ windowOpen
  /\ windowOpen' = FALSE
  /\ UNCHANGED <<up, draft, merged, disk, writerVars>>

EditDraft ==
  /\ up /\ windowOpen
  /\ \E i \in Ipcs \ {draft.ipc} : draft' = [draft EXCEPT !.ipc = i]
  /\ UNCHANGED <<up, windowOpen, merged, disk, writerVars>>

(* The Save button: save_settings_to_paths reads back what it wrote; when   *)
(* it cannot write nothing changes.                                         *)
SaveSettings ==
  /\ up /\ windowOpen
  /\ Saved(draft)
  /\ merged' = disk'
  /\ UNCHANGED <<up, windowOpen, draft, writerVars>>

(* update_sync_filter: merged is read from the file of before the save.     *)
UpdateSyncFilter ==
  /\ up /\ Len(queue) < MaxQueue
  /\ \E f \in Filters : draft' = [draft EXCEPT !.filter = f]
  /\ merged' = disk
  /\ queue' = Append(queue, draft')
  /\ UNCHANGED <<up, windowOpen, disk, pending>>

(* save_overlay_position, when the file can be written and when not. *)
SaveOverlayPosition ==
  /\ up
  /\ \E pos \in Positions :
       LET updated == [merged EXCEPT !.position = pos]
       IN  /\ merged' = updated
           /\ disk' \in {updated, disk}
           /\ draft' = [draft EXCEPT !.position = pos]
  /\ UNCHANGED <<up, windowOpen, writerVars>>

(* run_worker: a payload that arrives within the debounce time replaces the *)
(* one held; queue_save counts on that.                                     *)
WriterReceives ==
  /\ up /\ queue # <<>>
  /\ pending' = Head(queue)
  /\ queue' = Tail(queue)
  /\ UNCHANGED <<up, windowOpen, draft, merged, disk>>

(* Mistake: the time runs out without a payload. *)
TimeIsOver == TRUE

HasPayload == pending # NoPayload

(* flush_payload, when the time is over. *)
WriterFlushes ==
  /\ up /\ HasPayload
  /\ Saved(pending) \/ UNCHANGED disk
  /\ pending' = NoPayload
  /\ UNCHANGED <<up, windowOpen, draft, merged, queue>>

(* The program ends.  The writer flushes what it was given when its channel *)
(* closes, unless the process is gone first.                                *)
SettingsExit ==
  /\ up
  /\ up' = FALSE
  /\ \/ UNCHANGED disk
     \/ pending # NoPayload /\ Saved(pending)
     \/ \E k \in DOMAIN queue : Saved(queue[k])
  /\ queue' = <<>> /\ pending' = NoPayload
  /\ windowOpen' = FALSE
  /\ UNCHANGED <<draft, merged>>

(* NativeApp::new *)
SettingsStart ==
  /\ ~up
  /\ up' = TRUE
  /\ draft' = disk /\ merged' = disk
  /\ UNCHANGED <<windowOpen, disk, writerVars>>

SettingsInit ==
  /\ up = TRUE /\ windowOpen = FALSE
  /\ disk \in Setting
  /\ draft = disk /\ merged = disk
  /\ queue = <<>> /\ pending = NoPayload

Writer == WriterReceives \/ WriterFlushes

Gui ==
  \/ OpenSettings \/ CloseSettings \/ EditDraft \/ SaveSettings
  \/ UpdateSyncFilter \/ SaveOverlayPosition

---------------------------------------------------------------------------
SettingsTypeOK ==
  /\ up \in BOOLEAN /\ windowOpen \in BOOLEAN
  /\ draft \in Setting /\ merged \in Setting /\ disk \in Setting
  /\ queue \in Seq(Setting)
  /\ pending \in Setting \cup {NoPayload}
===========================================================================
