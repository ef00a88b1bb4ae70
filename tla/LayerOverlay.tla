---------------------------- MODULE LayerOverlay ----------------------------
(***************************************************************************)
(* The overlay on Linux (linux_layer_overlay.rs): the GUI thread publishes *)
(* a snapshot per frame and wakes the thread overmax-linux-overlay, which  *)
(* keeps a layer surface on the output of the game and draws the snapshot. *)
(* The Wayland compositor is the environment: outputs come, change and go, *)
(* the game's window moves, the surface is configured, entered, left and   *)
(* closed, and events of a surface that was dropped still arrive.          *)
(*                                                                         *)
(* When the thread fails, the GUI exits.  Scales, pointer, dragging, timed  *)
(* repaints and the end of the program are left out, and no geometry       *)
(* source reports the game's rectangle.                                    *)
(***************************************************************************)
EXTENDS Naturals

CONSTANTS
  Output,     \* what the compositor may show things on
  Area,       \* logical sizes of an output
  Snapshots,  \* what the GUI may publish
  Nothing,    \* no snapshot, output, area, window, toplevel or layer
  FirstMode,  \* the outputs at the start
  MaxChanges  \* bound: what the compositor does of its own accord

Size == {"degraded", "lite", "full"}
Window == [output : Output, front : BOOLEAN, fullscreen : BOOLEAN]

LayerSurface ==
  [configured : BOOLEAN, through : BOOLEAN,
   margin : {<<>>} \cup {s.snap : s \in Snapshots} \X Area \X Size,
   shown : Snapshots \cup {Nothing}, frame : BOOLEAN]

ASSUME SnapshotAssumption ==
  \A s \in Snapshots :
    /\ s.window \in Window \cup {Nothing}
    /\ {s.fatal, s.idle, s.off, s.lite} \subseteq BOOLEAN
ASSUME FirstModeAssumption == FirstMode \in [Output -> Area \cup {Nothing}]
ASSUME MaxChangesAssumption == MaxChanges \in Nat
ASSUME NothingAssumption ==
  /\ Nothing \notin Output /\ Nothing \notin Area /\ Nothing \notin Snapshots
  /\ Nothing \notin LayerSurface

VARIABLES
  gui,     \* GUI thread: its step, PublishedSnapshots latest and last
  wake,    \* a byte is in the wake socket
  pc,      \* the step of the overlay thread
  ov,      \* its Backend
  comp,    \* the compositor: outputs and their modes, the game's outputs
  changes  \* what it did so far

vars == <<gui, wake, pc, ov, comp, changes>>

(* Snapshots *)
IsDegraded(s) == s.fatal \/ s.window = Nothing

(* idle: neither always visible nor a scene the overlay is shown in.        *)
IsHidden(s) ==
  \/ s.off
  \/ ~s.fatal /\ s.window # Nothing /\ (~s.window.front \/ s.idle)

PanelSize(s) ==
  IF IsDegraded(s) THEN "degraded" ELSE IF s.lite THEN "lite" ELSE "full"

RetainedPanelSize(size, s) == IF IsHidden(s) THEN size ELSE PanelSize(s)

UsesManualPosition(s) ==
  s.snap = "manual" \/ (s.window # Nothing /\ ~s.window.fullscreen)

(* Mistake: a corner of an output whose size is not known. *)
PanelMarginUnmeasured(s, size, area) ==
  IF UsesManualPosition(s) THEN <<>> ELSE <<s.snap, area, size>>

(* A corner of the output, or <<>>, the position of the settings.           *)
PanelMargin(s, size, area) ==
  IF UsesManualPosition(s) \/ area = Nothing THEN <<>> ELSE <<s.snap, area, size>>

(* Outputs *)
Listed(c) == {p \in Output : c.mode[p] # Nothing}

(* unique_matching_toplevel, select_committed_output                        *)
Committed(c, o) ==
  {p \in Output : /\ c.game # Nothing /\ p \in c.game
                  /\ c.game = {p} \/ p = o.target}

Overlapping(c, o) ==
  IF o.snapshot # Nothing /\ o.snapshot.window # Nothing
  THEN {o.snapshot.window.output} \cap Listed(c)
  ELSE {}

TargetOutput(c, o) ==
  LET found == IF Committed(c, o) # {} THEN Committed(c, o) ELSE Overlapping(c, o)
  IN IF found = {} THEN Nothing ELSE CHOOSE p \in found : TRUE

(* update_output_geometry *)
OutputArea(c, o) ==
  LET p == IF o.target # Nothing THEN o.target ELSE o.entered
  IN IF p = Nothing THEN Nothing ELSE c.mode[p]

(* The layer surface *)
Passthrough(o) == o.snapshot # Nothing /\ IsHidden(o.snapshot)

OwnMargin(o) ==
  IF o.snapshot = Nothing THEN <<>> ELSE PanelMargin(o.snapshot, o.size, o.area)

NewLayer(o) ==
  [configured |-> FALSE, through |-> Passthrough(o), margin |-> OwnMargin(o),
   shown |-> Nothing, frame |-> FALSE]

(* Mistake: input_passthrough stays as drop_surface left it. *)
CreatedUnnoted(c, o) ==
  LET measured == [o EXCEPT !.area = OutputArea(c, o)]
  IN [measured EXCEPT !.layer = NewLayer(measured), !.configured = FALSE,
                      !.redraw = TRUE, !.recreate = FALSE]

Created(c, o) ==
  LET measured == [o EXCEPT !.area = OutputArea(c, o)]
  IN [measured EXCEPT !.layer = NewLayer(measured), !.through = Passthrough(o),
                      !.configured = FALSE, !.redraw = TRUE, !.recreate = FALSE]

NotCreated(c, o) == [o EXCEPT !.area = OutputArea(c, o), !.recreate = TRUE]

Dropped(o) ==
  [o EXCEPT !.layer = Nothing, !.entered = Nothing, !.area = Nothing,
            !.through = FALSE, !.configured = FALSE, !.redraw = FALSE]

Switched(c, o) ==
  LET gone == Dropped([o EXCEPT !.target = TargetOutput(c, o)])
  IN {Created(c, gone), NotCreated(c, gone)}

WithLayer(o, margin, through) ==
  IF o.layer = Nothing THEN o
  ELSE [o EXCEPT !.layer.margin = margin, !.layer.through = through]

(* set_input_passthrough touches the surface only if its own flag changes.  *)
ThroughAfter(o, hidden) ==
  IF o.through = hidden THEN o.layer.through ELSE hidden

Repositions(o, s) ==
  \/ o.snapshot = Nothing
  \/ o.snapshot.snap # s.snap \/ o.snapshot.window # s.window
  \/ o.size # RetainedPanelSize(o.size, s)

(* What apply_snapshot may leave. *)
Applied(c, o, s) ==
  LET asked == [o EXCEPT !.snapshot = s, !.size = RetainedPanelSize(@, s)]
      margin == IF Repositions(o, s) THEN OwnMargin(asked) ELSE o.layer.margin
      placed == IF o.layer = Nothing THEN asked
                ELSE WithLayer(asked, margin, ThroughAfter(o, IsHidden(s)))
  IN IF TargetOutput(c, asked) # o.target THEN Switched(c, asked)
     ELSE {[placed EXCEPT !.through = IsHidden(s), !.redraw = TRUE]}

(* What refresh_output may leave. *)
Refreshed(c, o) ==
  LET moved == [o EXCEPT !.area = OutputArea(c, o), !.redraw = TRUE]
  IN IF TargetOutput(c, o) # o.target THEN Switched(c, o)
     ELSE IF OutputArea(c, o) = o.area THEN {o}
     ELSE {IF o.layer = Nothing THEN moved
           ELSE WithLayer(moved, OwnMargin(moved), o.layer.through)}

---------------------------------------------------------------------------
(* The GUI thread *)

(* publish: a snapshot that looks like the one before it is not passed on.  *)
Publish(s) ==
  /\ gui.pc = "frame" /\ s # gui.last
  /\ gui' = [pc |-> "wake", latest |-> s, last |-> s]
  /\ UNCHANGED <<wake, pc, ov, comp, changes>>

Wake ==
  /\ gui.pc = "wake"
  /\ wake' = TRUE
  /\ gui' = [gui EXCEPT !.pc = "frame"]
  /\ UNCHANGED <<pc, ov, comp, changes>>

---------------------------------------------------------------------------
(* The overlay thread *)
Recreates == ov.recreate /\ ov.layer = Nothing /\ Listed(comp) # {}
Draws == ~Recreates /\ ov.configured /\ ov.redraw

Recreate ==
  /\ Recreates
  /\ \/ pc' = "poll" /\ ov' = Created(comp, ov)
     \/ pc' = "failed" /\ UNCHANGED ov

Draw ==
  /\ Draws
  /\ pc' = "poll"
  /\ ov' = [ov EXCEPT !.redraw = FALSE, !.layer.shown = ov.snapshot]

(* acquire_frame gets no frame, and render asks to be called for the next,  *)
(* or finds the surface invalid.                                            *)
DrawLater ==
  /\ Draws
  /\ \/ pc' = "poll" /\ ov' = [ov EXCEPT !.layer.frame = TRUE]
     \/ pc' = "failed" /\ UNCHANGED ov

Settle == ~Recreates /\ ~Draws /\ pc' = "poll" /\ UNCHANGED ov

AfterDispatch ==
  /\ pc = "dispatch"
  /\ Recreate \/ Draw \/ DrawLater \/ Settle
  /\ UNCHANGED <<gui, wake, comp, changes>>

(* drain_wake_socket *)
Drain ==
  /\ wake' = FALSE
  /\ UNCHANGED <<gui, ov>>

ConsumePublished ==
  /\ gui' = [gui EXCEPT !.latest = Nothing]
  /\ IF gui.latest = Nothing THEN UNCHANGED ov
     ELSE ov' \in Applied(comp, ov, gui.latest)
  /\ UNCHANGED wake

(* Mistake: the snapshot is taken before the bytes. *)
ConsumedBeforeDrained == <<"consume", "drain">>

WhenWoken == <<"drain", "consume">>

Does(step) == IF step = "drain" THEN Drain ELSE ConsumePublished

Woken ==
  /\ pc = "poll" /\ wake
  /\ Does(WhenWoken[1])
  /\ pc' = "woken"
  /\ UNCHANGED <<comp, changes>>

WokenOn ==
  /\ pc = "woken"
  /\ Does(WhenWoken[2])
  /\ pc' = "dispatch"
  /\ UNCHANGED <<comp, changes>>

---------------------------------------------------------------------------
(* Events: they arrive at the poll or with others before the drawing.       *)
Dispatching ==
  /\ pc \in {"poll", "dispatch"}
  /\ pc' = "dispatch"
  /\ UNCHANGED <<gui, wake>>

Unprompted == changes < MaxChanges /\ changes' = changes + 1

(* Mistake: any layer surface is taken for the one shown. *)
AnyLayer(mine) == ov.layer # Nothing

(* Whether the event names the layer surface of the Backend: if not, it was *)
(* under way when that surface was dropped.                                 *)
IsLayer(mine) == mine /\ ov.layer # Nothing

TargetLives ==
  Listed(comp) # {} /\ (ov.target # Nothing => ov.target \in Listed(comp))

Configure(mine) ==
  /\ Dispatching
  /\ mine => ov.layer # Nothing /\ TargetLives
  /\ ov' = IF IsLayer(mine)
           THEN [ov EXCEPT !.configured = TRUE, !.redraw = TRUE,
                           !.layer.configured = @ \/ mine]
           ELSE ov
  /\ UNCHANGED <<comp, changes>>

FrameCallback(mine) ==
  /\ Dispatching
  /\ mine => ov.layer # Nothing /\ ov.layer.frame
  /\ ov' = IF IsLayer(mine)
           THEN [ov EXCEPT !.redraw = TRUE, !.layer.frame = @ /\ ~mine]
           ELSE ov
  /\ UNCHANGED <<comp, changes>>

(* A surface is shown on its target, or on any output if it has none.       *)
SurfaceEnter(mine, p) ==
  /\ Dispatching
  /\ p \in Listed(comp)
  /\ mine => ov.layer # Nothing /\ ov.target \in {Nothing, p}
  /\ IF IsLayer(mine) THEN ov' \in Refreshed(comp, [ov EXCEPT !.entered = p])
     ELSE UNCHANGED ov
  /\ UNCHANGED <<comp, changes>>

SurfaceLeave(mine, p) ==
  /\ Dispatching
  /\ mine => ov.layer # Nothing
  /\ IF IsLayer(mine) /\ ov.entered = p
     THEN ov' \in Refreshed(comp, [ov EXCEPT !.entered = Nothing])
     ELSE UNCHANGED ov
  /\ UNCHANGED <<comp, changes>>

Closed(mine) ==
  /\ Dispatching
  /\ mine => ov.layer # Nothing
  /\ IF mine /\ TargetLives THEN Unprompted ELSE UNCHANGED changes
  /\ ov' = IF IsLayer(mine) THEN [Dropped(ov) EXCEPT !.recreate = TRUE] ELSE ov
  /\ UNCHANGED comp

(* An output that is plugged in again is another one.                       *)
NewOutput(p, area) ==
  /\ Dispatching /\ Unprompted
  /\ p \notin Listed(comp) \cup comp.gone
  /\ comp' = [comp EXCEPT !.mode[p] = area]
  /\ ov' = [ov EXCEPT !.recreate = @ \/ ov.layer = Nothing]

UpdateOutput(p, area) ==
  /\ Dispatching /\ Unprompted
  /\ p \in Listed(comp) /\ area # comp.mode[p]
  /\ comp' = [comp EXCEPT !.mode[p] = area]
  /\ ov' \in Refreshed(comp', ov)

(* While output_destroyed runs, the library still lists the output.         *)
OutputDestroyed(p) ==
  /\ Dispatching /\ Unprompted
  /\ p \in Listed(comp)
  /\ LET still == [comp EXCEPT !.game = IF @ = Nothing THEN @ ELSE @ \ {p}]
     IN /\ comp' = [still EXCEPT !.mode[p] = Nothing, !.gone = @ \cup {p}]
        /\ ov' \in Refreshed(still, IF ov.entered = p
                                   THEN [ov EXCEPT !.entered = Nothing] ELSE ov)

(* Done of the game's window, on these outputs; or no window or several     *)
(* have its title: one was closed, renamed or opened, or the manager ended. *)
ToplevelDone(game) ==
  /\ Dispatching /\ Unprompted
  /\ game \in {Nothing} \cup SUBSET Listed(comp) /\ game # comp.game
  /\ comp' = [comp EXCEPT !.game = game]
  /\ ov' \in Refreshed(comp', ov)

Compositor ==
  \/ \E mine \in BOOLEAN :
       \/ Configure(mine) \/ FrameCallback(mine) \/ Closed(mine)
       \/ \E p \in Output : SurfaceEnter(mine, p) \/ SurfaceLeave(mine, p)
  \/ \E p \in Output :
       \/ OutputDestroyed(p)
       \/ \E area \in Area : NewOutput(p, area) \/ UpdateOutput(p, area)
  \/ \E game \in {Nothing} \cup SUBSET Output : ToplevelDone(game)

---------------------------------------------------------------------------
Init ==
  /\ gui = [pc |-> "frame", latest |-> Nothing, last |-> Nothing]
  /\ wake = FALSE /\ pc = "dispatch" /\ changes = 0
  /\ comp = [mode |-> FirstMode, gone |-> {}, game |-> Nothing]
  /\ ov = [layer |-> [configured |-> FALSE, through |-> FALSE, margin |-> <<>>,
                      shown |-> Nothing, frame |-> FALSE],
           target |-> Nothing, entered |-> Nothing, area |-> Nothing,
           size |-> "degraded", through |-> FALSE, configured |-> FALSE,
           redraw |-> FALSE, recreate |-> FALSE, snapshot |-> Nothing]

Next ==
  \/ \E s \in Snapshots : Publish(s)
  \/ Wake \/ AfterDispatch \/ Woken \/ WokenOn
  \/ Compositor

Spec == Init /\ [][Next]_vars

(* The threads run on.  Each poll looks at both descriptors, so events do   *)
(* not keep the thread from the wake socket.  The compositor configures a   *)
(* new surface, calls back for a frame, and does not withhold frames for    *)
(* ever.                                                                    *)
FairSpec ==
  /\ Spec
  /\ WF_vars(Wake) /\ WF_vars(AfterDispatch) /\ SF_vars(Woken) /\ WF_vars(WokenOn)
  /\ WF_vars(FrameCallback(TRUE))
  /\ WF_vars(Configure(TRUE) /\ ~ov.layer.configured)
  /\ SF_vars(AfterDispatch /\ Draw)

---------------------------------------------------------------------------
Backend ==
  [layer : LayerSurface \cup {Nothing},
   target : Output \cup {Nothing}, entered : Output \cup {Nothing},
   area : Area \cup {Nothing}, size : Size, through : BOOLEAN,
   configured : BOOLEAN, redraw : BOOLEAN, recreate : BOOLEAN,
   snapshot : Snapshots \cup {Nothing}]

Outside ==
  [mode : [Output -> Area \cup {Nothing}], gone : SUBSET Output,
   game : {Nothing} \cup SUBSET Output]

(* Every variable keeps its type. *)
TypeOK ==
  /\ gui \in [pc : {"frame", "wake"}, latest : Snapshots \cup {Nothing},
              last : Snapshots \cup {Nothing}]
  /\ wake \in BOOLEAN
  /\ pc \in {"dispatch", "poll", "woken", "failed"}
  /\ ov \in Backend
  /\ comp \in Outside
  /\ changes \in 0..MaxChanges

(* A surface lets clicks through to the game exactly when its snapshot is   *)
(* hidden, and sits where that snapshot, its size and the output of now put *)
(* it, through every change of snapshot, output and surface.  An output     *)
(* that was destroyed has no size.                                          *)
SurfaceIsAsAsked ==
  ov.layer # Nothing /\ ov.snapshot # Nothing =>
    /\ ov.layer.through = IsHidden(ov.snapshot)
    /\ ov.target \in Listed(comp) \cup {Nothing} =>
         ov.layer.margin = PanelMargin(ov.snapshot, ov.size, OutputArea(comp, ov))
    /\ IsHidden(ov.snapshot) \/ ov.size = PanelSize(ov.snapshot)

(* A buffer is attached to a layer surface only after its first configure   *)
(* (else the compositor ends the connection), also when the surface was     *)
(* replaced while events of the old one were under way.                     *)
BufferOnlyAfterConfigure ==
  ov.layer # Nothing /\ ov.layer.shown # Nothing => ov.layer.configured

(* What the GUI published last is drawn on the surface in the end, whatever *)
(* the compositor does to that surface meanwhile, as long as an output is   *)
(* there and the surface is not kept on one that is gone.                   *)
LatestIsShown ==
  \A s \in Snapshots :
    []<>(\/ gui.last # s \/ pc = "failed"
         \/ ~TargetLives
         \/ ov.layer # Nothing /\ ov.layer.shown = s)
===========================================================================
