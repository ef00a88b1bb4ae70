------------------------- MODULE LayerOverlayProofs -------------------------
(***************************************************************************)
(* Theorems about the overlay thread, for any outputs, sizes, snapshots    *)
(* and number of changes.                                                  *)
(***************************************************************************)
EXTENDS LayerOverlay, TLAPS

Margin == {<<>>} \cup {s.snap : s \in Snapshots} \X Area \X Size

(* The invariant.  Drawing needs a surface that was configured;             *)
Backed(o) == o.configured => o.layer \in LayerSurface /\ o.layer.configured

(* a surface agrees with what the thread believes of it, and that with the  *)
(* snapshot;                                                                *)
Placed(o) ==
  o.layer # Nothing =>
    /\ o.layer.through = o.through
    /\ o.layer.margin = OwnMargin(o)
    /\ o.layer.shown # Nothing => o.layer.configured
    /\ o.snapshot # Nothing => o.through = IsHidden(o.snapshot)

Sized(o) ==
  o.snapshot # Nothing => IsHidden(o.snapshot) \/ o.size = PanelSize(o.snapshot)

(* its area is that of the output, unless the target is gone;               *)
Measured(c, o) ==
  o.layer # Nothing /\ o.target \in Listed(c) \cup {Nothing} =>
    o.area = OutputArea(c, o)

(* and outputs that are gone do not come back under the thread's hands.     *)
Known(c, o) ==
  /\ c.game = Nothing \/ c.game \subseteq Listed(c)
  /\ {o.target, o.entered} \subseteq Listed(c) \cup c.gone \cup {Nothing}

Sound ==
  TypeOK /\ Backed(ov) /\ Placed(ov) /\ Sized(ov) /\ Measured(comp, ov) /\ Known(comp, ov)

---------------------------------------------------------------------------
(* What the helpers return. *)

LEMMA AreaType ==
  ASSUME NEW c \in Outside, NEW o \in Backend
  PROVE  OutputArea(c, o) \in Area \cup {Nothing}
  BY DEF OutputArea, Outside, Backend

LEMMA TargetType ==
  ASSUME NEW c \in Outside, NEW o \in Backend
  PROVE  TargetOutput(c, o) \in Output \cup {Nothing}
<1>1. Committed(c, o) \subseteq Output
  BY DEF Committed
<1>2. Overlapping(c, o) \subseteq Output
  BY DEF Overlapping, Listed
<1> DEFINE found == IF Committed(c, o) # {} THEN Committed(c, o) ELSE Overlapping(c, o)
<1>3. found \subseteq Output
  BY <1>1, <1>2
<1>4. found # {} => (CHOOSE p \in found : TRUE) \in found
  OBVIOUS
<1>5. TargetOutput(c, o) = IF found = {} THEN Nothing ELSE CHOOSE p \in found : TRUE
  BY DEF TargetOutput
<1>6. QED
  BY <1>3, <1>4, <1>5

LEMMA MarginType ==
  ASSUME NEW o \in Backend
  PROVE  OwnMargin(o) \in Margin
<1>1. CASE o.snapshot = Nothing
  BY <1>1 DEF OwnMargin, Margin
<1>2. CASE o.snapshot # Nothing
  <2>1. o.snapshot \in Snapshots /\ o.area \in Area \cup {Nothing} /\ o.size \in Size
    BY <1>2 DEF Backend
  <2>2. o.area # Nothing => <<o.snapshot.snap, o.area, o.size>> \in Margin
    BY <2>1 DEF Margin
  <2>3. QED
    BY <1>2, <2>1, <2>2 DEF OwnMargin, PanelMargin, Margin
<1>3. QED
  BY <1>1, <1>2

LEMMA SizeType ==
  ASSUME NEW size \in Size, NEW s \in Snapshots
  PROVE  RetainedPanelSize(size, s) \in Size
  BY DEF RetainedPanelSize, PanelSize, Size

LEMMA LayerType ==
  ASSUME NEW o \in Backend
  PROVE  NewLayer(o) \in LayerSurface
  BY MarginType DEF NewLayer, LayerSurface, Margin, Passthrough, IsHidden

LEMMA MeasuredType ==
  ASSUME NEW c \in Outside, NEW o \in Backend
  PROVE  [o EXCEPT !.area = OutputArea(c, o)] \in Backend
  BY AreaType DEF Backend

LEMMA CreatedType ==
  ASSUME NEW c \in Outside, NEW o \in Backend
  PROVE  Created(c, o) \in Backend
<1> DEFINE measured == [o EXCEPT !.area = OutputArea(c, o)]
<1>1. measured \in Backend
  BY MeasuredType
<1>2. NewLayer(measured) \in LayerSurface
  BY <1>1, LayerType
<1>3. Passthrough(o) \in BOOLEAN
  BY DEF Passthrough, IsHidden
<1>4. Created(c, o) = [measured EXCEPT !.layer = NewLayer(measured), !.through = Passthrough(o),
                      !.configured = FALSE, !.redraw = TRUE, !.recreate = FALSE]
  BY DEF Created
<1> HIDE DEF measured
<1>5. QED
  BY <1>1, <1>2, <1>3, <1>4 DEF Backend

LEMMA NotCreatedType ==
  ASSUME NEW c \in Outside, NEW o \in Backend
  PROVE  NotCreated(c, o) \in Backend
  BY AreaType DEF NotCreated, Backend

LEMMA DroppedType ==
  ASSUME NEW o \in Backend
  PROVE  Dropped(o) \in Backend
  BY DEF Dropped, Backend

LEMMA SwitchedType ==
  ASSUME NEW c \in Outside, NEW o \in Backend, NEW n \in Switched(c, o)
  PROVE  n \in Backend
<1> DEFINE aimed == [o EXCEPT !.target = TargetOutput(c, o)]
<1>1. aimed \in Backend
  BY TargetType DEF Backend
<1>2. Dropped(aimed) \in Backend
  BY <1>1, DroppedType
<1>3. n \in {Created(c, Dropped(aimed)), NotCreated(c, Dropped(aimed))}
  BY DEF Switched
<1> HIDE DEF aimed
<1>4. QED
  BY <1>2, <1>3, CreatedType, NotCreatedType

LEMMA AppliedType ==
  ASSUME NEW c \in Outside, NEW o \in Backend, NEW s \in Snapshots,
         NEW n \in Applied(c, o, s)
  PROVE  n \in Backend
<1> DEFINE asked == [o EXCEPT !.snapshot = s, !.size = RetainedPanelSize(@, s)]
           margin == IF Repositions(o, s) THEN OwnMargin(asked) ELSE o.layer.margin
           placed == IF o.layer = Nothing THEN asked
                     ELSE WithLayer(asked, margin, ThroughAfter(o, IsHidden(s)))
<1>1. asked \in Backend
  BY SizeType DEF Backend
<1>2. OwnMargin(asked) \in Margin
  BY <1>1, MarginType
<1>3. placed \in Backend
  <2>1. CASE o.layer = Nothing
    BY <1>1, <2>1
  <2>2. CASE o.layer # Nothing
    <3>1. o.layer \in LayerSurface /\ asked.layer = o.layer
      BY <2>2 DEF Backend
    <3>2. margin \in Margin /\ ThroughAfter(o, IsHidden(s)) \in BOOLEAN
      BY <1>2, <3>1 DEF LayerSurface, Margin, ThroughAfter, IsHidden
    <3>3. placed = [asked EXCEPT !.layer.margin = margin,
                                 !.layer.through = ThroughAfter(o, IsHidden(s))]
      BY <2>2, <3>1 DEF WithLayer
    <3> HIDE DEF asked, margin, placed
    <3>4. QED
      BY <1>1, <3>1, <3>2, <3>3 DEF Backend, LayerSurface, Margin
  <2>3. QED
    BY <2>1, <2>2
<1>4. CASE TargetOutput(c, asked) # o.target
  <2>1. n \in Switched(c, asked)
    BY <1>4 DEF Applied
  <2>2. QED
    BY <1>1, <2>1, SwitchedType
<1>5. CASE TargetOutput(c, asked) = o.target
  <2>1. n = [placed EXCEPT !.through = IsHidden(s), !.redraw = TRUE]
    BY <1>5 DEF Applied
  <2>2. IsHidden(s) \in BOOLEAN
    BY DEF IsHidden
  <2> HIDE DEF placed
  <2>3. QED
    BY <1>3, <2>1, <2>2 DEF Backend
<1>6. QED
  BY <1>4, <1>5

LEMMA RefreshedType ==
  ASSUME NEW c \in Outside, NEW o \in Backend, NEW n \in Refreshed(c, o)
  PROVE  n \in Backend
<1> DEFINE moved == [o EXCEPT !.area = OutputArea(c, o), !.redraw = TRUE]
<1>1. moved \in Backend
  BY AreaType DEF Backend
<1>2. OwnMargin(moved) \in Margin
  BY <1>1, MarginType
<1>3. CASE n \in Switched(c, o)
  BY <1>3, SwitchedType
<1>4. CASE n = o
  BY <1>4
<1>5. CASE n = moved
  BY <1>1, <1>5
<1>6. CASE o.layer # Nothing /\ n = WithLayer(moved, OwnMargin(moved), o.layer.through)
  <2>1. moved.layer = o.layer /\ o.layer \in LayerSurface
    BY <1>6 DEF Backend
  <2>2. n = [moved EXCEPT !.layer.margin = OwnMargin(moved),
                          !.layer.through = o.layer.through]
    BY <1>6, <2>1 DEF WithLayer
  <2> HIDE DEF moved
  <2>3. QED
    BY <1>1, <1>2, <2>1, <2>2 DEF Backend, LayerSurface, Margin
<1>7. QED
  BY <1>3, <1>4, <1>5, <1>6 DEF Refreshed

---------------------------------------------------------------------------
(* Each step keeps the types. *)

LEMMA GuiTypes ==
  ASSUME TypeOK, (\E s \in Snapshots : Publish(s)) \/ Wake
  PROVE  TypeOK'
<1>1. UNCHANGED <<pc, ov, comp, changes>> /\ wake' \in BOOLEAN
  BY DEF TypeOK, Publish, Wake
<1>2. gui' \in [pc : {"frame", "wake"}, latest : Snapshots \cup {Nothing},
                last : Snapshots \cup {Nothing}]
  <2>1. CASE Wake
    BY <2>1 DEF Wake, TypeOK
  <2>2. CASE \E s \in Snapshots : Publish(s)
    BY <2>2 DEF Publish
  <2>3. QED
    BY <2>1, <2>2
<1>3. QED
  BY <1>1, <1>2 DEF TypeOK

LEMMA DrawingTypes ==
  ASSUME TypeOK, Backed(ov), AfterDispatch
  PROVE  TypeOK'
<1>1. comp \in Outside /\ ov \in Backend
  BY DEF TypeOK
<1>2. UNCHANGED <<gui, wake, comp, changes>> /\ pc' \in {"poll", "failed"}
  <2>1. Recreate \/ Draw \/ DrawLater \/ Settle
    BY DEF AfterDispatch
  <2>2. pc' \in {"poll", "failed"}
    BY <2>1, Zenon DEF Recreate, Draw, DrawLater, Settle
  <2>3. QED
    BY <2>2 DEF AfterDispatch
<1>3. ov' \in Backend
  <2>1. CASE Recreate
    BY <1>1, <2>1, CreatedType DEF Recreate
  <2>2. CASE Draw
    <3>1. ov.layer \in LayerSurface /\ ov.snapshot \in Snapshots \cup {Nothing}
      BY <1>1, <2>2 DEF Draw, Draws, Backed, Backend
    <3>2. [ov.layer EXCEPT !.shown = ov.snapshot] \in LayerSurface
      BY <3>1 DEF LayerSurface
    <3>3. ov' = [ov EXCEPT !.redraw = FALSE,
                           !.layer = [ov.layer EXCEPT !.shown = ov.snapshot]]
      BY <1>1, <2>2 DEF Draw, Backend
    <3>4. QED
      BY <1>1, <3>2, <3>3 DEF Backend
  <2>3. CASE DrawLater
    <3>1. ov.layer \in LayerSurface
      BY <1>1, <2>3 DEF DrawLater, Draws, Backed
    <3>2. [ov.layer EXCEPT !.frame = TRUE] \in LayerSurface
      BY <3>1 DEF LayerSurface
    <3>3. ov' \in {ov, [ov EXCEPT !.layer = [ov.layer EXCEPT !.frame = TRUE]]}
      BY <1>1, <2>3 DEF DrawLater, Backend
    <3>4. QED
      BY <1>1, <3>2, <3>3 DEF Backend
  <2>4. CASE Settle
    BY <1>1, <2>4 DEF Settle
  <2>5. QED
    BY <2>1, <2>2, <2>3, <2>4 DEF AfterDispatch
<1>4. QED
  BY <1>2, <1>3 DEF TypeOK

LEMMA WokenTypes ==
  ASSUME TypeOK, Woken \/ WokenOn
  PROVE  TypeOK'
<1>1. comp \in Outside /\ ov \in Backend
  BY DEF TypeOK
<1>2. UNCHANGED <<comp, changes>> /\ pc' \in {"woken", "dispatch"}
  BY DEF Woken, WokenOn
<1>3. Drain \/ ConsumePublished
  BY DEF Woken, WokenOn, Does
<1>4. CASE Drain
  BY <1>2, <1>4 DEF Drain, TypeOK
<1>5. CASE ConsumePublished
  <2>1. ov' \in Backend
    <3>1. CASE gui.latest = Nothing
      BY <1>1, <1>5, <3>1 DEF ConsumePublished
    <3>2. CASE gui.latest # Nothing
      <4>1. gui.latest \in Snapshots
        BY <3>2 DEF TypeOK
      <4>2. ov' \in Applied(comp, ov, gui.latest)
        BY <1>5, <3>2 DEF ConsumePublished
      <4>3. QED
        BY <1>1, <4>1, <4>2, AppliedType
    <3>3. QED
      BY <3>1, <3>2
  <2>2. QED
    BY <1>2, <1>5, <2>1 DEF ConsumePublished, TypeOK
<1>6. QED
  BY <1>3, <1>4, <1>5

LEMMA SurfaceEventTypes ==
  ASSUME TypeOK, NEW mine \in BOOLEAN, NEW p,
         \/ Configure(mine) \/ FrameCallback(mine) \/ Closed(mine)
         \/ SurfaceEnter(mine, p) \/ SurfaceLeave(mine, p)
  PROVE  TypeOK'
<1>1. comp \in Outside /\ ov \in Backend
  BY DEF TypeOK
<1>2. Dispatching /\ UNCHANGED comp
  BY DEF Configure, FrameCallback, Closed, SurfaceEnter, SurfaceLeave
<1>3. changes' \in 0..MaxChanges
  BY MaxChangesAssumption
  DEF Configure, FrameCallback, Closed, SurfaceEnter, SurfaceLeave, Unprompted, TypeOK
<1>4. ov' \in Backend
  <2>1. CASE Configure(mine)
    BY <1>1, <2>1 DEF Configure, IsLayer, Backend, LayerSurface
  <2>2. CASE FrameCallback(mine)
    BY <1>1, <2>2 DEF FrameCallback, IsLayer, Backend, LayerSurface
  <2>3. CASE Closed(mine)
    <3>1. [Dropped(ov) EXCEPT !.recreate = TRUE] \in Backend
      BY <1>1, DroppedType DEF Backend
    <3>2. QED
      BY <1>1, <2>3, <3>1 DEF Closed
  <2>4. CASE SurfaceEnter(mine, p)
    <3>1. [ov EXCEPT !.entered = p] \in Backend
      BY <1>1, <2>4 DEF SurfaceEnter, Listed, Backend
    <3>2. QED
      BY <1>1, <2>4, <3>1, RefreshedType DEF SurfaceEnter
  <2>5. CASE SurfaceLeave(mine, p)
    <3>1. [ov EXCEPT !.entered = Nothing] \in Backend
      BY <1>1 DEF Backend
    <3>2. QED
      BY <1>1, <2>5, <3>1, RefreshedType DEF SurfaceLeave
  <2>6. QED
    BY <2>1, <2>2, <2>3, <2>4, <2>5
<1>5. QED
  BY <1>2, <1>3, <1>4 DEF TypeOK, Dispatching

LEMMA OutsideEventTypes ==
  ASSUME TypeOK, NEW p, NEW area, NEW game,
         \/ OutputDestroyed(p) \/ ToplevelDone(game)
         \/ /\ p \in Output /\ area \in Area
            /\ NewOutput(p, area) \/ UpdateOutput(p, area)
  PROVE  TypeOK' /\ comp' \in Outside
<1>1. comp \in Outside /\ ov \in Backend
  BY DEF TypeOK
<1>2. Dispatching /\ changes' \in 0..MaxChanges
  BY MaxChangesAssumption
  DEF OutputDestroyed, NewOutput, UpdateOutput, ToplevelDone, Unprompted, TypeOK
<1> DEFINE still == [comp EXCEPT !.game = IF @ = Nothing THEN @ ELSE @ \ {p}]
           left == IF ov.entered = p THEN [ov EXCEPT !.entered = Nothing] ELSE ov
<1>3. still \in Outside
  BY <1>1 DEF Outside
<1>4. left \in Backend
  BY <1>1 DEF Backend
<1>5. comp' \in Outside
  <2>1. CASE OutputDestroyed(p)
    <3>1. p \in Output
      BY <2>1 DEF OutputDestroyed, Listed
    <3>2. comp' = [still EXCEPT !.mode[p] = Nothing, !.gone = @ \cup {p}]
      BY <2>1 DEF OutputDestroyed
    <3> HIDE DEF still
    <3>3. QED
      BY <1>3, <3>1, <3>2 DEF Outside
  <2>2. CASE /\ p \in Output /\ area \in Area
             /\ NewOutput(p, area) \/ UpdateOutput(p, area)
    BY <1>1, <2>2 DEF NewOutput, UpdateOutput, Outside
  <2>3. CASE ToplevelDone(game)
    BY <1>1, <2>3 DEF ToplevelDone, Outside, Listed
  <2>4. QED
    BY <2>1, <2>2, <2>3
<1>6. ov' \in Backend
  <2>1. CASE OutputDestroyed(p)
    <3>1. ov' \in Refreshed(still, left)
      BY <2>1 DEF OutputDestroyed
    <3> HIDE DEF still, left
    <3>2. QED
      BY <1>3, <1>4, <3>1, RefreshedType
  <2>2. CASE NewOutput(p, area)
    BY <1>1, <2>2 DEF NewOutput, Backend
  <2>3. CASE UpdateOutput(p, area) \/ ToplevelDone(game)
    BY <1>1, <1>5, <2>3, RefreshedType DEF UpdateOutput, ToplevelDone
  <2>4. QED
    BY <2>1, <2>2, <2>3
<1>7. QED
  BY <1>2, <1>5, <1>6 DEF TypeOK, Dispatching

(* A step of the compositor is one of the two kinds. *)
LEMMA CompositorCases ==
  ASSUME Compositor
  PROVE  \/ \E mine \in BOOLEAN :
              \/ Configure(mine) \/ FrameCallback(mine) \/ Closed(mine)
              \/ \E p \in Output : SurfaceEnter(mine, p) \/ SurfaceLeave(mine, p)
         \/ \E p \in Output, area \in Area : NewOutput(p, area) \/ UpdateOutput(p, area)
         \/ \E p \in Output : OutputDestroyed(p)
         \/ \E game \in {Nothing} \cup SUBSET Output : ToplevelDone(game)
  BY DEF Compositor

---------------------------------------------------------------------------
(* The helpers keep the invariant. *)

LEMMA CreatedFresh ==
  ASSUME NEW c \in Outside, NEW o \in Backend, NEW n, n = Created(c, o)
  PROVE  /\ Backed(n) /\ Placed(n) /\ Measured(c, n)
         /\ n.snapshot = o.snapshot /\ n.size = o.size
         /\ n.entered = o.entered /\ n.target = o.target
<1> DEFINE measured == [o EXCEPT !.area = OutputArea(c, o)]
<1>1. measured \in Backend
  BY MeasuredType
<1>2. /\ measured.snapshot = o.snapshot /\ measured.size = o.size
      /\ measured.area = OutputArea(c, o)
      /\ measured.target = o.target /\ measured.entered = o.entered
  BY DEF Backend
<1>3. n = [measured EXCEPT !.layer = NewLayer(measured), !.through = Passthrough(o),
                    !.configured = FALSE, !.redraw = TRUE, !.recreate = FALSE]
  BY DEF Created
<1> HIDE DEF measured
<1>4. /\ n.layer = NewLayer(measured) /\ n.through = Passthrough(o) /\ ~n.configured
      /\ n.snapshot = o.snapshot /\ n.size = o.size /\ n.area = measured.area
      /\ n.target = o.target /\ n.entered = o.entered
  BY <1>1, <1>2, <1>3 DEF Backend
<1>5. OwnMargin(n) = OwnMargin(measured) /\ OutputArea(c, n) = OutputArea(c, o)
  BY <1>2, <1>4 DEF OwnMargin, OutputArea
<1>6. Passthrough(measured) = Passthrough(o)
  BY <1>2 DEF Passthrough
<1>7. Placed(n)
  <2>1. /\ n.layer.through = Passthrough(measured) /\ n.layer.shown = Nothing
        /\ n.layer.margin = OwnMargin(measured)
    BY <1>4 DEF NewLayer
  <2>2. n.layer.through = n.through
    BY <1>4, <1>6, <2>1
  <2>3. n.snapshot # Nothing => Passthrough(o) = IsHidden(n.snapshot)
    BY <1>4 DEF Passthrough, IsHidden
  <2>4. QED
    BY <1>4, <1>5, <2>1, <2>2, <2>3 DEF Placed
<1>8. QED
  BY <1>2, <1>4, <1>5, <1>7 DEF Backed, Measured

LEMMA SwitchedFresh ==
  ASSUME NEW c \in Outside, NEW o \in Backend, NEW n \in Switched(c, o)
  PROVE  /\ Backed(n) /\ Placed(n) /\ Measured(c, n)
         /\ n.snapshot = o.snapshot /\ n.size = o.size
         /\ n.entered = Nothing /\ n.target = TargetOutput(c, o)
<1> DEFINE gone == Dropped([o EXCEPT !.target = TargetOutput(c, o)])
<1>1. gone \in Backend
  BY TargetType, DroppedType DEF Backend
<1>2. /\ gone.layer = Nothing /\ ~gone.configured /\ gone.entered = Nothing
      /\ gone.snapshot = o.snapshot /\ gone.size = o.size
      /\ gone.target = TargetOutput(c, o)
  BY DEF Dropped, Backend
<1>3. n = Created(c, gone) \/ n = NotCreated(c, gone)
  BY DEF Switched
<1> HIDE DEF gone
<1>4. CASE n = Created(c, gone)
  BY <1>1, <1>2, <1>4, CreatedFresh
<1>5. CASE n = NotCreated(c, gone)
  <2>1. /\ n.layer = Nothing /\ ~n.configured
        /\ n.snapshot = gone.snapshot /\ n.size = gone.size
        /\ n.target = gone.target /\ n.entered = gone.entered
    BY <1>1, <1>2, <1>5 DEF NotCreated, Backend
  <2>2. QED
    BY <1>2, <2>1 DEF Backed, Placed, Measured
<1>6. QED
  BY <1>3, <1>4, <1>5

LEMMA AppliedKeeps ==
  ASSUME NEW c \in Outside, NEW o \in Backend, NEW s \in Snapshots,
         NEW n \in Applied(c, o, s),
         Backed(o), Placed(o), Measured(c, o)
  PROVE  /\ Backed(n) /\ Placed(n) /\ Sized(n) /\ Measured(c, n)
         /\ n.entered \in {Nothing, o.entered}
         /\ \E a \in Backend : n.target \in {o.target, TargetOutput(c, a)}
<1> DEFINE size == RetainedPanelSize(o.size, s)
           asked == [o EXCEPT !.snapshot = s, !.size = size]
           margin == IF Repositions(o, s) THEN OwnMargin(asked) ELSE o.layer.margin
           placed == IF o.layer = Nothing THEN asked
                     ELSE WithLayer(asked, margin, ThroughAfter(o, IsHidden(s)))
<1>1. asked \in Backend
  BY SizeType DEF Backend
<1>2. /\ asked.snapshot = s /\ asked.size = size /\ asked.layer = o.layer
      /\ asked.target = o.target /\ asked.entered = o.entered /\ asked.area = o.area
      /\ asked.configured = o.configured
  BY DEF Backend
<1>3. s # Nothing
  BY NothingAssumption
<1>4. Applied(c, o, s) = IF TargetOutput(c, asked) # o.target THEN Switched(c, asked)
                         ELSE {[placed EXCEPT !.through = IsHidden(s), !.redraw = TRUE]}
  BY DEF Applied
<1>5. IsHidden(s) \/ size = PanelSize(s)
  BY DEF RetainedPanelSize
<1>6. margin = OwnMargin(asked) \/ o.layer = Nothing
  <2>1. CASE Repositions(o, s)
    BY <2>1
  <2>2. CASE ~Repositions(o, s) /\ o.layer # Nothing
    <3>1. /\ o.snapshot # Nothing /\ o.snapshot.snap = s.snap
          /\ o.snapshot.window = s.window /\ o.size = size
      BY <2>2 DEF Repositions
    <3>2. o.layer.margin = PanelMargin(o.snapshot, o.size, o.area)
      BY <2>2, <3>1 DEF Placed, OwnMargin
    <3>3. PanelMargin(o.snapshot, o.size, o.area) = PanelMargin(s, size, o.area)
      BY <3>1 DEF PanelMargin, UsesManualPosition
    <3> HIDE DEF asked, size
    <3>4. OwnMargin(asked) = PanelMargin(s, size, o.area)
      BY <1>2, <1>3 DEF OwnMargin
    <3>5. QED
      BY <2>2, <3>2, <3>3, <3>4
  <2>3. QED
    BY <2>1, <2>2
<1>7. CASE TargetOutput(c, asked) # o.target
  <2>1. n \in Switched(c, asked)
    BY <1>4, <1>7
  <2> HIDE DEF asked, placed, size
  <2>2. Sized(n)
    BY <1>1, <1>2, <1>5, <2>1, SwitchedFresh DEF Sized
  <2>3. QED
    BY <1>1, <2>1, <2>2, SwitchedFresh
<1>8. CASE TargetOutput(c, asked) = o.target
  <2>1. n = [placed EXCEPT !.through = IsHidden(s), !.redraw = TRUE]
    BY <1>4, <1>8
  <2>2. CASE o.layer = Nothing
    <3>1. placed = asked
      BY <2>2
    <3> HIDE DEF asked, placed, size
    <3>2. /\ n.layer = o.layer /\ n.configured = o.configured /\ n.snapshot = s
          /\ n.size = size /\ n.entered = o.entered /\ n.target = o.target
      BY <1>1, <1>2, <2>1, <3>1 DEF Backend
    <3>3. QED
      BY <1>1, <1>5, <2>2, <3>2 DEF Backed, Placed, Sized, Measured
  <2>3. CASE o.layer # Nothing
    <3>1. o.layer \in LayerSurface
      BY <2>3 DEF Backend
    <3>2. o.layer.through = o.through
      BY <2>3 DEF Placed
    <3>3. ThroughAfter(o, IsHidden(s)) = IsHidden(s)
      BY <3>2 DEF ThroughAfter
    <3>4. margin = OwnMargin(asked)
      BY <1>6, <2>3
    <3>5. placed = [asked EXCEPT !.layer.margin = OwnMargin(asked), !.layer.through = IsHidden(s)]
      BY <1>2, <2>3, <3>3, <3>4 DEF WithLayer
    <3> HIDE DEF asked, placed, size, margin
    <3>6. n.layer = [o.layer EXCEPT !.margin = OwnMargin(asked), !.through = IsHidden(s)]
      BY <1>1, <1>2, <2>1, <3>1, <3>5 DEF Backend, LayerSurface
    <3>7. /\ n.snapshot = s /\ n.size = size /\ n.area = o.area /\ n.through = IsHidden(s)
          /\ n.configured = o.configured /\ n.entered = o.entered /\ n.target = o.target
      BY <1>1, <1>2, <2>1, <3>5 DEF Backend
    <3>8. /\ n.layer.margin = OwnMargin(asked) /\ n.layer.through = IsHidden(s)
          /\ n.layer.shown = o.layer.shown /\ n.layer.configured = o.layer.configured
      BY <3>1, <3>6 DEF LayerSurface
    <3>9. OwnMargin(n) = OwnMargin(asked) /\ OutputArea(c, n) = OutputArea(c, o)
      BY <1>2, <3>7 DEF OwnMargin, OutputArea
    <3>10. Placed(n)
      BY <2>3, <3>7, <3>8, <3>9 DEF Placed
    <3>11. Backed(n)
      <4>1. n \in Backend
        BY AppliedType
      <4>2. n.layer \in LayerSurface \/ n.layer = Nothing
        BY <4>1 DEF Backend
      <4>3. OwnMargin(asked) \in Margin /\ IsHidden(s) \in BOOLEAN
        BY <1>1, MarginType DEF IsHidden
      <4>4. n.layer \in LayerSurface
        BY <3>1, <3>6, <4>3 DEF LayerSurface, Margin
      <4>5. QED
        BY <3>7, <3>8, <4>4 DEF Backed
    <3>12. QED
      BY <1>1, <1>5, <2>3, <3>7, <3>9, <3>10, <3>11 DEF Sized, Measured
  <2>4. QED
    BY <2>2, <2>3
<1>9. QED
  BY <1>7, <1>8

LEMMA RefreshedKeeps ==
  ASSUME NEW c \in Outside, NEW o \in Backend, NEW n \in Refreshed(c, o),
         Backed(o), Placed(o), Sized(o)
  PROVE  /\ Backed(n) /\ Placed(n) /\ Sized(n) /\ Measured(c, n)
         /\ n.entered \in {Nothing, o.entered}
         /\ \E a \in Backend : n.target \in {o.target, TargetOutput(c, a)}
<1> DEFINE moved == [o EXCEPT !.area = OutputArea(c, o), !.redraw = TRUE]
<1>1. moved \in Backend
  BY AreaType DEF Backend
<1>2. /\ moved.snapshot = o.snapshot /\ moved.size = o.size /\ moved.layer = o.layer
      /\ moved.target = o.target /\ moved.entered = o.entered
      /\ moved.area = OutputArea(c, o) /\ moved.configured = o.configured
      /\ moved.through = o.through
  BY DEF Backend
<1>3. CASE n \in Switched(c, o)
  BY <1>3, SwitchedFresh DEF Sized
<1>4. CASE n = o /\ OutputArea(c, o) = o.area
  BY <1>4 DEF Measured
<1>5. CASE o.layer = Nothing /\ n = moved
  BY <1>2, <1>5 DEF Backed, Placed, Sized, Measured
<1>6. CASE o.layer # Nothing /\ n = WithLayer(moved, OwnMargin(moved), o.layer.through)
  <2>1. o.layer \in LayerSurface
    BY <1>6 DEF Backend
  <2>2. n = [moved EXCEPT !.layer.margin = OwnMargin(moved),
                          !.layer.through = o.layer.through]
    BY <1>2, <1>6 DEF WithLayer
  <2>3. o.layer.through = o.through
    BY <1>6 DEF Placed
  <2> HIDE DEF moved
  <2>4. n.layer = [o.layer EXCEPT !.margin = OwnMargin(moved), !.through = o.through]
    BY <1>1, <1>2, <2>1, <2>2, <2>3 DEF Backend, LayerSurface
  <2>5. /\ n.snapshot = o.snapshot /\ n.size = o.size /\ n.area = OutputArea(c, o)
        /\ n.through = o.through /\ n.configured = o.configured
        /\ n.entered = o.entered /\ n.target = o.target
    BY <1>1, <1>2, <2>2 DEF Backend
  <2>6. /\ n.layer.margin = OwnMargin(moved) /\ n.layer.through = o.through
        /\ n.layer.shown = o.layer.shown /\ n.layer.configured = o.layer.configured
    BY <2>1, <2>4 DEF LayerSurface
  <2>7. OwnMargin(n) = OwnMargin(moved) /\ OutputArea(c, n) = OutputArea(c, o)
    BY <1>2, <2>5 DEF OwnMargin, OutputArea
  <2>8. Placed(n)
    BY <1>6, <2>5, <2>6, <2>7 DEF Placed
  <2>9. n.layer \in LayerSurface
    <3>1. OwnMargin(moved) \in Margin /\ o.through \in BOOLEAN
      BY <1>1, MarginType DEF Backend
    <3>2. QED
      BY <2>1, <2>4, <3>1 DEF LayerSurface, Margin
  <2>10. QED
    BY <2>5, <2>6, <2>7, <2>8, <2>9 DEF Backed, Sized, Measured
<1>7. QED
  BY <1>3, <1>4, <1>5, <1>6 DEF Refreshed

---------------------------------------------------------------------------
(* Outputs the thread may hold on to. *)

LEMMA TargetListed ==
  ASSUME NEW c \in Outside, NEW o \in Backend,
         c.game = Nothing \/ c.game \subseteq Listed(c)
  PROVE  TargetOutput(c, o) \in Listed(c) \cup {Nothing}
<1>1. Committed(c, o) \subseteq Listed(c) /\ Overlapping(c, o) \subseteq Listed(c)
  BY DEF Committed, Overlapping
<1> DEFINE found == IF Committed(c, o) # {} THEN Committed(c, o) ELSE Overlapping(c, o)
<1>2. found \subseteq Listed(c)
  BY <1>1
<1>3. found # {} => (CHOOSE p \in found : TRUE) \in found
  OBVIOUS
<1>4. TargetOutput(c, o) = IF found = {} THEN Nothing ELSE CHOOSE p \in found : TRUE
  BY DEF TargetOutput
<1>5. QED
  BY <1>2, <1>3, <1>4

(* A step leaves the invariant if it leaves the outputs alone and Backend   *)
(* as one of the helpers does.                                              *)
LEMMA RefreshSound ==
  ASSUME NEW c \in Outside, NEW o \in Backend, NEW n \in Refreshed(c, o),
         Backed(o), Placed(o), Sized(o), Known(c, o)
  PROVE  Backed(n) /\ Placed(n) /\ Sized(n) /\ Measured(c, n) /\ Known(c, n)
<1>1. PICK a \in Backend : n.target \in {o.target, TargetOutput(c, a)}
  BY RefreshedKeeps
<1>2. TargetOutput(c, a) \in Listed(c) \cup {Nothing}
  BY TargetListed DEF Known
<1>3. Known(c, n)
  BY <1>1, <1>2, RefreshedKeeps DEF Known
<1>4. QED
  BY <1>3, RefreshedKeeps

LEMMA ApplySound ==
  ASSUME NEW c \in Outside, NEW o \in Backend, NEW s \in Snapshots,
         NEW n \in Applied(c, o, s),
         Backed(o), Placed(o), Measured(c, o), Known(c, o)
  PROVE  Backed(n) /\ Placed(n) /\ Sized(n) /\ Measured(c, n) /\ Known(c, n)
<1>1. PICK a \in Backend : n.target \in {o.target, TargetOutput(c, a)}
  BY AppliedKeeps
<1>2. TargetOutput(c, a) \in Listed(c) \cup {Nothing}
  BY TargetListed DEF Known
<1>3. Known(c, n)
  BY <1>1, <1>2, AppliedKeeps DEF Known
<1>4. QED
  BY <1>3, AppliedKeeps

(* Entering and leaving outputs the thread may know of.                     *)
LEMMA EnteredSound ==
  ASSUME NEW c \in Outside, NEW o \in Backend,
         NEW e \in Listed(c) \cup c.gone \cup {Nothing},
         Backed(o), Placed(o), Sized(o), Known(c, o)
  PROVE  LET n == [o EXCEPT !.entered = e]
         IN n \in Backend /\ Backed(n) /\ Placed(n) /\ Sized(n) /\ Known(c, n)
<1> DEFINE n == [o EXCEPT !.entered = e]
<1>1. e \in Output \cup {Nothing}
  BY DEF Listed, Outside
<1>2. n \in Backend
  BY <1>1 DEF Backend
<1>3. /\ n.layer = o.layer /\ n.configured = o.configured /\ n.through = o.through
      /\ n.snapshot = o.snapshot /\ n.size = o.size /\ n.area = o.area
      /\ n.target = o.target /\ n.entered = e
  BY DEF Backend
<1> HIDE DEF n
<1>4. Backed(n) /\ Placed(n) /\ Sized(n)
  BY <1>3 DEF Backed, Placed, Sized, OwnMargin
<1>5. Known(c, n)
  BY <1>3 DEF Known
<1>6. QED
  BY <1>2, <1>4, <1>5 DEF n

(* A step that leaves the surface where it is.                              *)
LEMMA SameSurface ==
  ASSUME NEW c \in Outside, NEW o \in Backend, NEW n \in Backend,
         Backed(o), Placed(o), Sized(o), Measured(c, o), Known(c, o),
         /\ n.snapshot = o.snapshot /\ n.size = o.size /\ n.area = o.area
         /\ n.target = o.target /\ n.entered = o.entered /\ n.through = o.through,
         o.layer # Nothing, n.layer \in LayerSurface,
         n.layer.through = o.layer.through, n.layer.margin = o.layer.margin,
         n.configured \/ n.layer.shown # Nothing => n.layer.configured
  PROVE  Backed(n) /\ Placed(n) /\ Sized(n) /\ Measured(c, n) /\ Known(c, n)
<1>1. OwnMargin(n) = OwnMargin(o) /\ OutputArea(c, n) = OutputArea(c, o)
  BY DEF OwnMargin, OutputArea
<1>2. QED
  BY <1>1 DEF Backed, Placed, Sized, Measured, Known

---------------------------------------------------------------------------
(* Each step keeps the invariant. *)

LEMMA DrawingSound ==
  ASSUME Sound, AfterDispatch
  PROVE  Sound'
<1>1. comp \in Outside /\ ov \in Backend /\ TypeOK' /\ comp' = comp
  BY DrawingTypes DEF Sound, TypeOK, AfterDispatch
<1>2. CASE UNCHANGED ov
  BY <1>1, <1>2 DEF Sound, Backed, Placed, Sized, Measured, Known, Listed, OwnMargin, OutputArea
<1>3. CASE Recreate /\ ov' = Created(comp, ov)
  <2>1. /\ Backed(ov') /\ Placed(ov') /\ Measured(comp, ov')
        /\ ov'.snapshot = ov.snapshot /\ ov'.size = ov.size
        /\ ov'.entered = ov.entered /\ ov'.target = ov.target
    BY <1>1, <1>3, CreatedFresh
  <2>2. QED
    BY <1>1, <2>1 DEF Sound, Sized, Known
<1>4. CASE Draw
  <2>1. /\ ov.layer \in LayerSurface /\ ov.layer.configured
    BY <1>1, <1>4 DEF Draw, Draws, Sound, Backed
  <2>2. ov' = [ov EXCEPT !.redraw = FALSE,
                         !.layer = [ov.layer EXCEPT !.shown = ov.snapshot]]
    BY <1>1, <1>4 DEF Draw, Backend
  <2>3. ov' \in Backend
    BY <1>1 DEF TypeOK
  <2>4. [ov.layer EXCEPT !.shown = ov.snapshot] \in LayerSurface
    BY <1>1, <2>1 DEF LayerSurface, Backend
  <2>5. ov'.layer = [ov.layer EXCEPT !.shown = ov.snapshot]
    BY <1>1, <2>2 DEF Backend
  <2>6. /\ ov'.layer.through = ov.layer.through /\ ov'.layer.margin = ov.layer.margin
        /\ ov'.layer.configured = ov.layer.configured
    BY <2>1, <2>5 DEF LayerSurface
  <2>7. QED
    <3>1. /\ ov'.snapshot = ov.snapshot /\ ov'.size = ov.size /\ ov'.area = ov.area
          /\ ov'.target = ov.target /\ ov'.entered = ov.entered
          /\ ov'.through = ov.through /\ ov'.configured = ov.configured
      BY <1>1, <2>2 DEF Backend
    <3>2. ov.layer # Nothing
      BY <2>1, NothingAssumption
    <3>3. QED
      BY <1>1, <2>1, <2>3, <2>4, <2>5, <2>6, <3>1, <3>2, SameSurface DEF Sound
<1>5. CASE DrawLater /\ ov' = [ov EXCEPT !.layer.frame = TRUE]
  <2>1. /\ ov.layer \in LayerSurface /\ ov.layer.configured
    BY <1>1, <1>5 DEF DrawLater, Draws, Sound, Backed
  <2>2. ov' = [ov EXCEPT !.layer = [ov.layer EXCEPT !.frame = TRUE]]
    BY <1>1, <1>5 DEF Backend
  <2>3. ov'.layer = [ov.layer EXCEPT !.frame = TRUE]
    BY <1>1, <2>2 DEF Backend
  <2>4. /\ ov'.layer.through = ov.layer.through /\ ov'.layer.margin = ov.layer.margin
        /\ ov'.layer.configured = ov.layer.configured
        /\ ov'.layer \in LayerSurface
    BY <2>1, <2>3 DEF LayerSurface
  <2>5. QED
    <3>1. /\ ov'.snapshot = ov.snapshot /\ ov'.size = ov.size /\ ov'.area = ov.area
          /\ ov'.target = ov.target /\ ov'.entered = ov.entered
          /\ ov'.through = ov.through /\ ov'.configured = ov.configured
      BY <1>1, <2>2 DEF Backend
    <3>2. ov.layer # Nothing /\ ov' \in Backend
      BY <1>1, <2>1, NothingAssumption DEF TypeOK
    <3>3. QED
      BY <1>1, <2>1, <2>4, <3>1, <3>2, SameSurface DEF Sound
<1>6. QED
  BY <1>2, <1>3, <1>4, <1>5 DEF AfterDispatch, Recreate, DrawLater, Settle

LEMMA WokenSound ==
  ASSUME Sound, Woken \/ WokenOn
  PROVE  Sound'
<1>1. comp \in Outside /\ ov \in Backend /\ TypeOK' /\ comp' = comp
  BY WokenTypes DEF Sound, TypeOK, Woken, WokenOn
<1>2. CASE UNCHANGED ov
  BY <1>1, <1>2 DEF Sound, Backed, Placed, Sized, Measured, Known, Listed, OwnMargin, OutputArea
<1>3. CASE gui.latest \in Snapshots /\ ov' \in Applied(comp, ov, gui.latest)
  BY <1>1, <1>3, ApplySound DEF Sound
<1>4. gui.latest \in Snapshots \cup {Nothing}
  BY DEF Sound, TypeOK
<1>5. Drain \/ ConsumePublished
  BY DEF Woken, WokenOn, Does
<1>6. QED
  BY <1>2, <1>3, <1>4, <1>5 DEF Drain, ConsumePublished

LEMMA SurfaceEventSound ==
  ASSUME Sound, NEW mine \in BOOLEAN, NEW p,
         \/ Configure(mine) \/ FrameCallback(mine) \/ Closed(mine)
         \/ SurfaceEnter(mine, p) \/ SurfaceLeave(mine, p)
  PROVE  Sound'
<1>1. comp \in Outside /\ ov \in Backend /\ TypeOK' /\ comp' = comp
  BY SurfaceEventTypes
  DEF Sound, TypeOK, Configure, FrameCallback, Closed, SurfaceEnter, SurfaceLeave
<1>2. CASE UNCHANGED ov
  BY <1>1, <1>2 DEF Sound, Backed, Placed, Sized, Measured, Known, Listed, OwnMargin, OutputArea
<1>3. CASE Configure(mine) /\ IsLayer(mine)
  <2>1. ov.layer \in LayerSurface
    BY <1>1, <1>3 DEF IsLayer, Backend
  <2>2. ov' = [ov EXCEPT !.configured = TRUE, !.redraw = TRUE,
                         !.layer = [ov.layer EXCEPT !.configured = TRUE]]
    BY <1>1, <1>3, <2>1 DEF Configure, IsLayer, Backend, LayerSurface
  <2>3. ov'.layer = [ov.layer EXCEPT !.configured = TRUE]
    BY <1>1, <2>2 DEF Backend
  <2>4. /\ ov'.layer.through = ov.layer.through /\ ov'.layer.margin = ov.layer.margin
        /\ ov'.layer.configured /\ ov'.layer \in LayerSurface
    BY <2>1, <2>3 DEF LayerSurface
  <2>5. QED
    <3>1. /\ ov'.snapshot = ov.snapshot /\ ov'.size = ov.size /\ ov'.area = ov.area
          /\ ov'.target = ov.target /\ ov'.entered = ov.entered
          /\ ov'.through = ov.through
      BY <1>1, <2>2 DEF Backend
    <3>2. ov.layer # Nothing /\ ov' \in Backend
      BY <1>1, <1>3 DEF IsLayer, TypeOK
    <3>3. QED
      BY <1>1, <2>4, <3>1, <3>2, SameSurface DEF Sound
<1>4. CASE FrameCallback(mine) /\ IsLayer(mine)
  <2>1. ov.layer \in LayerSurface
    BY <1>1, <1>4 DEF IsLayer, Backend
  <2>2. ov' = [ov EXCEPT !.redraw = TRUE, !.layer = [ov.layer EXCEPT !.frame = FALSE]]
    BY <1>1, <1>4, <2>1 DEF FrameCallback, IsLayer, Backend, LayerSurface
  <2>3. ov'.layer = [ov.layer EXCEPT !.frame = FALSE]
    BY <1>1, <2>2 DEF Backend
  <2>4. /\ ov'.layer.through = ov.layer.through /\ ov'.layer.margin = ov.layer.margin
        /\ ov'.layer.configured = ov.layer.configured
        /\ ov'.layer.shown = ov.layer.shown
        /\ ov'.layer \in LayerSurface
    BY <2>1, <2>3 DEF LayerSurface
  <2>5. QED
    <3>1. /\ ov'.snapshot = ov.snapshot /\ ov'.size = ov.size /\ ov'.area = ov.area
          /\ ov'.target = ov.target /\ ov'.entered = ov.entered
          /\ ov'.through = ov.through /\ ov'.configured = ov.configured
      BY <1>1, <2>2 DEF Backend
    <3>2. ov.layer # Nothing /\ ov' \in Backend
      BY <1>1, <1>4 DEF IsLayer, TypeOK
    <3>3. ov'.configured \/ ov'.layer.shown # Nothing => ov'.layer.configured
      BY <2>4, <3>1, <3>2 DEF Sound, Backed, Placed
    <3>4. QED
      BY <1>1, <2>4, <3>1, <3>2, <3>3, SameSurface DEF Sound
<1>5. CASE Closed(mine) /\ IsLayer(mine)
  <2>1. /\ ov'.layer = Nothing /\ ~ov'.configured /\ ov'.snapshot = ov.snapshot
        /\ ov'.size = ov.size /\ ov'.target = ov.target /\ ov'.entered = Nothing
    BY <1>1, <1>5 DEF Closed, Dropped, Backend
  <2>2. QED
    BY <1>1, <2>1 DEF Sound, Backed, Placed, Sized, Measured, Known
<1>6. CASE \/ SurfaceEnter(mine, p) /\ ov' \in Refreshed(comp, [ov EXCEPT !.entered = p])
           \/ SurfaceLeave(mine, p) /\ ov' \in Refreshed(comp, [ov EXCEPT !.entered = Nothing])
  <2>1. PICK e \in Listed(comp) \cup {Nothing} :
          ov' \in Refreshed(comp, [ov EXCEPT !.entered = e])
    BY <1>6 DEF SurfaceEnter
  <2>2. e \in Output \cup {Nothing}
    BY <2>1 DEF Listed
  <2>3. /\ Backed([ov EXCEPT !.entered = e]) /\ Placed([ov EXCEPT !.entered = e])
        /\ Sized([ov EXCEPT !.entered = e]) /\ Known(comp, [ov EXCEPT !.entered = e])
        /\ [ov EXCEPT !.entered = e] \in Backend
    BY <1>1, <2>1, <2>2, EnteredSound DEF Sound
  <2>4. QED
    BY <1>1, <2>1, <2>3, RefreshSound DEF Sound
<1>7. QED
  BY <1>2, <1>3, <1>4, <1>5, <1>6
  DEF Configure, FrameCallback, Closed, SurfaceEnter, SurfaceLeave

LEMMA NewOutputSound ==
  ASSUME Sound, NEW p \in Output, NEW area \in Area, NewOutput(p, area)
  PROVE  Sound'
<1>1. comp \in Outside /\ ov \in Backend /\ TypeOK'
  BY OutsideEventTypes DEF Sound, TypeOK
<1>2. /\ p \notin Listed(comp) \cup comp.gone /\ area # Nothing
      /\ comp'.gone = comp.gone /\ comp'.game = comp.game
      /\ comp'.mode = [comp.mode EXCEPT ![p] = area]
  BY <1>1, NothingAssumption DEF NewOutput, Outside
<1>3. Listed(comp') = Listed(comp) \cup {p}
  BY <1>1, <1>2 DEF Listed, Outside
<1>4. \A q \in Listed(comp) : comp'.mode[q] = comp.mode[q]
  BY <1>1, <1>2 DEF Listed, Outside
<1>5. /\ ov'.layer = ov.layer /\ ov'.configured = ov.configured /\ ov'.size = ov.size
      /\ ov'.snapshot = ov.snapshot /\ ov'.target = ov.target /\ ov'.area = ov.area
      /\ ov'.entered = ov.entered /\ ov'.through = ov.through
  BY <1>1 DEF NewOutput, Backend
<1>6. Backed(ov') /\ Placed(ov') /\ Sized(ov')
  BY <1>5 DEF Sound, Backed, Placed, Sized, OwnMargin
<1>7. Known(comp', ov')
  BY <1>2, <1>3, <1>5 DEF Sound, Known
<1>8. Measured(comp', ov')
  <2>1. SUFFICES ASSUME ov.layer # Nothing, ov.target \in Listed(comp) \cup {p, Nothing}
                 PROVE  ov.area = OutputArea(comp', ov')
    BY <1>3, <1>5 DEF Measured
  <2>2. ov.target # p /\ ov.entered # p
    BY <1>2, NothingAssumption DEF Sound, Known
  <2>3. ov.area = OutputArea(comp, ov)
    BY <2>1, <2>2 DEF Sound, Measured
  <2>4. OutputArea(comp', ov') = OutputArea(comp, ov)
    BY <1>1, <1>2, <1>5, <2>2 DEF OutputArea, Backend, Outside
  <2>5. QED
    BY <2>3, <2>4
<1>9. QED
  BY <1>1, <1>6, <1>7, <1>8 DEF Sound

LEMMA OutputChangeSound ==
  ASSUME Sound, NEW p, NEW area, NEW game,
         \/ p \in Output /\ area \in Area /\ UpdateOutput(p, area)
         \/ ToplevelDone(game)
  PROVE  Sound'
<1>1. comp \in Outside /\ ov \in Backend /\ TypeOK' /\ comp' \in Outside
  BY OutsideEventTypes DEF Sound, TypeOK
<1>2. comp'.gone = comp.gone /\ Listed(comp') = Listed(comp)
  BY <1>1, NothingAssumption DEF UpdateOutput, ToplevelDone, Outside, Listed
<1>3. comp'.game \in {Nothing, comp.game} \cup SUBSET Listed(comp)
  BY <1>1 DEF UpdateOutput, ToplevelDone, Outside
<1>4. Known(comp', ov)
  BY <1>2, <1>3 DEF Sound, Known
<1>5. ov' \in Refreshed(comp', ov)
  BY DEF UpdateOutput, ToplevelDone
<1>6. QED
  BY <1>1, <1>4, <1>5, RefreshSound DEF Sound

LEMMA OutputGoneSound ==
  ASSUME Sound, NEW p \in Output, OutputDestroyed(p)
  PROVE  Sound'
<1> DEFINE still == [comp EXCEPT !.game = IF @ = Nothing THEN @ ELSE @ \ {p}]
           e == IF ov.entered = p THEN Nothing ELSE ov.entered
           left == [ov EXCEPT !.entered = e]
<1>1. comp \in Outside /\ ov \in Backend /\ TypeOK'
  BY OutsideEventTypes DEF Sound, TypeOK, OutputDestroyed
<1>2. still \in Outside /\ still.mode = comp.mode /\ still.gone = comp.gone
  BY <1>1 DEF Outside
<1>3. still.game = Nothing \/ still.game \subseteq Listed(comp) \ {p}
  BY <1>1 DEF Outside, Sound, Known
<1>4. Listed(still) = Listed(comp)
  BY <1>2 DEF Listed
<1>5. Known(still, left) /\ Backed(left) /\ Placed(left) /\ Sized(left) /\ left \in Backend
  <2>1. e \in Listed(comp) \cup comp.gone \cup {Nothing} /\ e \in Output \cup {Nothing}
    BY <1>1 DEF Sound, Known, Backend
  <2> HIDE DEF e
  <2>2. /\ Backed(left) /\ Placed(left) /\ Sized(left) /\ left \in Backend /\ Known(comp, left)
    BY <1>1, <2>1, EnteredSound DEF Sound
  <2> HIDE DEF left, still
  <2>3. QED
    BY <1>2, <1>3, <1>4, <2>2 DEF Known
<1>6. ov' \in Refreshed(still, left)
  <2>1. left = IF ov.entered = p THEN [ov EXCEPT !.entered = Nothing] ELSE ov
    BY <1>1 DEF Backend
  <2>2. QED
    BY <2>1 DEF OutputDestroyed
<1>7. left.entered # p
  BY <1>1, NothingAssumption DEF Backend
<1>8. /\ comp'.mode = [comp.mode EXCEPT ![p] = Nothing] /\ comp'.game = still.game
      /\ comp'.gone = comp.gone \cup {p}
  BY <1>1, <1>2 DEF OutputDestroyed, Outside
<1> HIDE DEF still, left
<1>9. /\ Backed(ov') /\ Placed(ov') /\ Sized(ov') /\ Measured(still, ov')
      /\ Known(still, ov')
  BY <1>2, <1>5, <1>6, RefreshSound
<1>10. ov'.entered # p
  BY <1>2, <1>5, <1>6, <1>7, RefreshedKeeps, NothingAssumption
<1>11. Listed(comp') = Listed(comp) \ {p}
  BY <1>1, <1>8 DEF Listed, Outside
<1>12. Known(comp', ov')
  BY <1>2, <1>3, <1>4, <1>8, <1>9, <1>11 DEF Known
<1>13. Measured(comp', ov')
  <2>1. SUFFICES ASSUME ov'.layer # Nothing, ov'.target \in (Listed(comp) \ {p}) \cup {Nothing}
                 PROVE  ov'.area = OutputArea(comp', ov')
    BY <1>11 DEF Measured
  <2>2. ov'.area = OutputArea(still, ov')
    BY <1>4, <1>9, <2>1 DEF Measured
  <2>3. ov'.target # p
    BY <2>1, NothingAssumption
  <2>4. ov' \in Backend
    BY <1>1 DEF TypeOK
  <2>5. OutputArea(still, ov') = OutputArea(comp', ov')
    BY <1>1, <1>2, <1>8, <1>10, <2>3, <2>4 DEF OutputArea, Backend, Outside
  <2>6. QED
    BY <2>2, <2>5
<1>14. QED
  BY <1>1, <1>9, <1>12, <1>13 DEF Sound

---------------------------------------------------------------------------
(* The invariant holds at the start and every step keeps it. *)

LEMMA InitSound ==
  ASSUME Init
  PROVE  Sound
<1>1. ov.layer \in LayerSurface
  BY DEF Init, LayerSurface
<1>2. ov \in Backend
  BY <1>1 DEF Init, Backend, Size
<1>3. comp \in Outside
  BY FirstModeAssumption DEF Init, Outside
<1>4. TypeOK
  <2>1. gui \in [pc : {"frame", "wake"}, latest : Snapshots \cup {Nothing},
                 last : Snapshots \cup {Nothing}]
    BY DEF Init
  <2>2. wake \in BOOLEAN /\ pc \in {"dispatch", "poll", "woken", "failed"}
    BY DEF Init
  <2>3. changes \in 0..MaxChanges
    BY MaxChangesAssumption DEF Init
  <2>4. QED
    BY <1>2, <1>3, <2>1, <2>2, <2>3 DEF TypeOK
<1>5. QED
  BY <1>4 DEF Init, Sound, Backed, Placed, Sized, Measured, Known, OwnMargin, OutputArea

LEMMA StepSound ==
  ASSUME Sound, [Next]_vars
  PROVE  Sound'
<1>1. CASE (\E s \in Snapshots : Publish(s)) \/ Wake
  <2>1. TypeOK' /\ UNCHANGED <<ov, comp>>
    BY <1>1, GuiTypes DEF Sound, Publish, Wake
  <2>2. QED
    BY <2>1 DEF Sound, Backed, Placed, Sized, Measured, Known, Listed, OwnMargin, OutputArea
<1>2. CASE AfterDispatch
  BY <1>2, DrawingSound
<1>3. CASE Woken \/ WokenOn
  BY <1>3, WokenSound
<1>4. CASE Compositor
  <2>1. CASE \E mine \in BOOLEAN :
               \/ Configure(mine) \/ FrameCallback(mine) \/ Closed(mine)
               \/ \E p \in Output : SurfaceEnter(mine, p) \/ SurfaceLeave(mine, p)
    BY <2>1, SurfaceEventSound
  <2>2. CASE \E p \in Output, area \in Area : NewOutput(p, area) \/ UpdateOutput(p, area)
    BY <2>2, NewOutputSound, OutputChangeSound
  <2>3. CASE \E p \in Output : OutputDestroyed(p)
    BY <2>3, OutputGoneSound
  <2>4. CASE \E game \in {Nothing} \cup SUBSET Output : ToplevelDone(game)
    BY <2>4, OutputChangeSound
  <2>5. QED
    BY <1>4, <2>1, <2>2, <2>3, <2>4, CompositorCases
<1>5. CASE UNCHANGED vars
  BY <1>5 DEF vars, Sound, TypeOK, Backed, Placed, Sized, Measured, Known, Listed,
              OwnMargin, OutputArea
<1>6. QED
  BY <1>1, <1>2, <1>3, <1>4, <1>5 DEF Next

---------------------------------------------------------------------------
(* Every variable keeps its type, for any outputs, sizes and snapshots.     *)
THEOREM TypeCorrect == Spec => []TypeOK
<1>1. Sound => TypeOK
  BY DEF Sound
<1>2. QED
  BY <1>1, InitSound, StepSound, PTL DEF Spec

(* The surface lets clicks through and sits where the snapshot asks, through *)
(* every change of snapshot, output and surface.                            *)
THEOREM SurfaceAsAsked == Spec => []SurfaceIsAsAsked
<1>1. Sound => SurfaceIsAsAsked
  BY DEF Sound, SurfaceIsAsAsked, Placed, Sized, Measured, OwnMargin
<1>2. QED
  BY <1>1, InitSound, StepSound, PTL DEF Spec

(* No buffer is attached to a surface before its first configure.           *)
THEOREM BufferAfterConfigure == Spec => []BufferOnlyAfterConfigure
<1>1. Sound => BufferOnlyAfterConfigure
  BY DEF Sound, BufferOnlyAfterConfigure, Placed
<1>2. QED
  BY <1>1, InitSound, StepSound, PTL DEF Spec

=============================================================================
