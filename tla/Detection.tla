----------------------------- MODULE Detection -----------------------------
(***************************************************************************)
(* The detection pipeline (overmax_engine detection_pipeline.rs) and its   *)
(* play-state detector (play_state.rs), driven by captured frames of a     *)
(* game that moves between song select, a play, its result screen and      *)
(* screens the pipeline does not know.                                     *)
(*                                                                         *)
(* A frame may or may not be due for a scene inspection: the cooldowns are *)
(* abstracted to that choice.  An inspection reads the scene on screen or  *)
(* misses it; the jacket and the chart (button mode and difficulty) are    *)
(* read as they are or not at all; a rate may be read as any value.        *)
(* Regions of another screen than the one showing read as nothing.         *)
(***************************************************************************)
EXTENDS Hysteresis

CONSTANTS
  SelectScenes, ResultScenes, IngameScenes,   \* SceneType by kind
  Unknown,        \* SceneType::Unknown
  Songs, Charts,  \* a chart is a button mode with a difficulty
  Patterns,       \* the <<song, chart>> pairs that may be played
  NoSong, NoChart, NoRate, NoKey, NoContext, NoEvent,
  Rates,          \* 0 stands for unplayed and for less than MIN_VALID_RATE
  HistorySize,    \* PlayStateDetector::history_size
  WindowSize,     \* length of result_rate_window
  MinPlay         \* inspections a play lasts for before its result screen

RecordScenes == SelectScenes \cup ResultScenes
Scenes == RecordScenes \cup IngameScenes \cup {Unknown}

ASSUME SceneAssumption ==
  /\ SelectScenes \cap ResultScenes = {}
  /\ IngameScenes \cap RecordScenes = {}
  /\ Unknown \notin RecordScenes \cup IngameScenes
ASSUME SizeAssumption ==
  /\ HistorySize \in Nat \ {0} /\ WindowSize \in Nat \ {0} /\ MinPlay \in Nat
ASSUME RateAssumption == Rates \subseteq Nat /\ 0 \in Rates
ASSUME PatternAssumption ==
  Patterns \subseteq Songs \X Charts /\ Patterns # {} /\ NoKey \notin Patterns
ASSUME NothingAssumption == NoSong \notin Songs /\ NoChart \notin Charts

Screen == {"select", "play", "result", "other"}

Context == [song : Songs, chart : Charts, rate : Rates]
Event == [song : Songs, chart : Charts, rate : Rates, isResult : BOOLEAN]

VARIABLES
  game,     \* the screen the game shows, its pattern, inspections of this play
  pipe,     \* DetectionPipeline: scene commitment, ROI set, hysteresis, song
  det,      \* PlayStateDetector
  out,      \* scene, context and event of this step's output
  seen,     \* history: what the last inspection read
  reopened, \* history: a record scene was found since the last in-game reading
  confirmed,\* history: the last result screen was read twice running
  result    \* history: its pattern, and the rates above 0 read there

history == <<seen, reopened, confirmed, result>>
vars == <<game, pipe, det, out, history>>

---------------------------------------------------------------------------
(* Scene commitment *)

IsIngame(s) == s \in IngameScenes
IsResult(s) == s \in ResultScenes
NeedsTwo(s) == IsResult(s) \/ IsIngame(s)

(* Mistake: the streak is not capped. *)
StreakUncapped(p, s) ==
  IF ~NeedsTwo(s) THEN 0 ELSE IF s = p.pending THEN p.streak + 1 ELSE 1

(* Mistake: one inspection is enough. *)
StreakOfOne(p, s) == IF NeedsTwo(s) THEN 2 ELSE 0

Streak(p, s) ==
  IF ~NeedsTwo(s) THEN 0 ELSE IF s = p.pending THEN 2 ELSE 1

CommittedScene(p, s) ==
  IF ~NeedsTwo(s) \/ Streak(p, s) = 2 THEN s
  ELSE IF IsIngame(s) \/ IsIngame(p.last) THEN Unknown
  ELSE p.last

(* Mistake: an in-game reading leaves the selection history standing. *)
CommitKeepingHistory(p, s) ==
  [p EXCEPT !.last = CommittedScene(p, s),
            !.pending = IF NeedsTwo(s) THEN s ELSE Unknown,
            !.streak = Streak(p, s)]

Commit(p, s) ==
  [p EXCEPT !.last = CommittedScene(p, s),
            !.pending = IF NeedsTwo(s) THEN s ELSE Unknown,
            !.streak = Streak(p, s),
            !.hyst = IF IsIngame(s) THEN EmptyBuffer ELSE @]

(* detect_scene_if_due: a static scene sets the ROIs and the song before it *)
(* is committed.                                                            *)
Inspected(p, s) ==
  Commit(IF s \in RecordScenes
           THEN [p EXCEPT !.rois = s, !.song = game.pattern[1]]
           ELSE p, s)

(* Mistake: the ROIs stay at the scene that was read but not committed. *)
WithSceneRead(p) ==
  [p EXCEPT !.hyst = Updated(@, p.last \in RecordScenes)]

(* process_frame_with_scene *)
WithScene(p) ==
  LET hit == p.last \in RecordScenes
  IN  [p EXCEPT !.rois = IF hit THEN p.last ELSE @,
                !.hyst = Updated(@, hit)]

(* detect: in-game history does not outlive frames that can support it.     *)
(* Without such history the format of a frame makes no difference here.     *)
Formats(p) ==
  IF IsIngame(p.last) \/ IsIngame(p.pending)
    THEN {"supported", "unsupported"} ELSE {"supported"}

Supported(p, format) == IF format = "unsupported" THEN Commit(p, Unknown) ELSE p

Selecting(p) == p.hyst.active \/ IsResult(p.last)
Leaving(p) == ~IsResult(p.last) /\ p.hyst.leaving

---------------------------------------------------------------------------
(* The play-state detector *)

FreshDetector ==
  [history |-> <<>>, latch |-> NoChart, key |-> NoKey, rate |-> NoRate,
   window |-> <<>>, emitted |-> NoEvent, wasResult |-> FALSE]

(* Mistake: the rate cache survives the reset. *)
ResetKeepingRate(d) ==
  [FreshDetector EXCEPT !.latch = d.latch, !.wasResult = d.wasResult,
                        !.key = d.key, !.rate = d.rate]

(* PlayStateDetector::reset keeps the result latch. *)
ResetDetector(d) ==
  [FreshDetector EXCEPT !.latch = d.latch, !.wasResult = d.wasResult]

ClearDetectedCache(d) ==
  [d EXCEPT !.latch = NoChart, !.emitted = NoEvent,
            !.key = NoKey, !.rate = NoRate, !.window = <<>>]

PushLast(seq, x, size) == Append(IF Len(seq) = size THEN Tail(seq) ELSE seq, x)

(* The element at len / 2 of the sorted window. *)
Median(window) ==
  LET below(r) == Cardinality({i \in DOMAIN window : window[i] < r})
      upTo(r) == Cardinality({i \in DOMAIN window : window[i] <= r})
      middle == Len(window) \div 2
  IN  CHOOSE r \in Rates : below(r) <= middle /\ middle < upTo(r)

Entered(d, scene) ==
  [(IF d.wasResult /\ ~IsResult(scene) THEN ClearDetectedCache(d) ELSE d)
     EXCEPT !.wasResult = IsResult(scene)]

(* Mode and difficulty: result readings go through the latch. *)
Latched(d, scene, chart) ==
  [d EXCEPT !.latch = IF ~IsResult(scene) THEN NoChart
                      ELSE IF chart = NoChart THEN @ ELSE chart]

ChartOf(d, scene, chart) == IF IsResult(scene) THEN d.latch ELSE chart

ResultRate(d, r) ==
  LET window == PushLast(d.window, r, WindowSize)
  IN  IF r = NoRate THEN d
      ELSE [d EXCEPT !.window = window, !.rate = Median(window)]

SelectRate(d, pattern, r) ==
  [d EXCEPT !.window = <<>>,
            !.key = pattern,
            !.rate = IF r # NoRate THEN r ELSE IF d.key = pattern THEN @ ELSE NoRate]

Known(d, scene, song, chart) == song # NoSong /\ ChartOf(d, scene, chart) # NoChart

RateRead(d, scene, song, chart, r) ==
  IF ~Known(d, scene, song, chart) THEN d
  ELSE IF IsResult(scene) THEN ResultRate(d, r)
  ELSE SelectRate(d, <<song, chart>>, r)

ContextOf(d, scene, song, chart) ==
  IF ~Known(d, scene, song, chart) THEN NoContext
  ELSE [song |-> song, chart |-> ChartOf(d, scene, chart),
        rate |-> IF d.rate = NoRate THEN 0 ELSE d.rate]

Stable(d) == /\ Len(d.history) = HistorySize
             /\ d.history[1] # NoContext
             /\ \A i \in 1..HistorySize : d.history[i] = d.history[1]

Verified(c, scene) == [song |-> c.song, chart |-> c.chart, rate |-> c.rate,
                       isResult |-> IsResult(scene)]

SamePattern(a, b) == a.song = b.song /\ a.chart = b.chart /\ a.isResult = b.isResult

ShouldFire(last, e) ==
  /\ e.isResult => e.rate > 0
  /\ \/ last = NoEvent
     \/ /\ last # NoEvent
        /\ SamePattern(last, e)
             => IF e.isResult THEN e.rate > last.rate ELSE e.rate # last.rate

(* PlayStateDetector::detect up to the history; the event comes after it. *)
Observed(d, scene, song, chart, r) ==
  LET read == RateRead(Latched(Entered(d, scene), scene, chart),
                       scene, song, chart, r)
  IN  [read EXCEPT !.history =
         PushLast(@, ContextOf(read, scene, song, chart), HistorySize)]

EventOf(d, scene) ==
  IF ~Stable(d) THEN NoEvent
  ELSE LET e == Verified(d.history[1], scene)
       IN  IF ShouldFire(d.emitted, e) THEN e ELSE NoEvent

Emitted(d, e) == IF e = NoEvent THEN d ELSE [d EXCEPT !.emitted = e]

---------------------------------------------------------------------------
(* What a frame can read *)

Reads(format) ==
  CASE game.screen = "select" -> SelectScenes \cup {Unknown}
    [] game.screen = "result" -> ResultScenes \cup {Unknown}
    [] game.screen = "play"   -> (IF format = "unsupported" THEN {} ELSE IngameScenes) \cup {Unknown}
    [] game.screen = "other"  -> {Unknown}

RoisFit(p) == \/ game.screen = "select" /\ p.rois \in SelectScenes
              \/ game.screen = "result" /\ p.rois \in ResultScenes

(* update_song_id_from_jacket: not due or unchanged, no match, or a match. *)
SongReads(p) == {p.song, NoSong} \cup (IF RoisFit(p) THEN {game.pattern[1]} ELSE {})
ChartReads(p) == {NoChart} \cup (IF RoisFit(p) THEN {game.pattern[2]} ELSE {})
(* observe_current_context reads a rate only for a pattern it knows. *)
RateReads(p, song, chart) ==
  LET d == Latched(Entered(det, p.rois), p.rois, chart)
  IN  {NoRate} \cup (IF RoisFit(p) /\ Known(d, p.rois, song, chart) THEN Rates ELSE {})

---------------------------------------------------------------------------
(* process_frame_shared *)

Detecting(scene) ==
  [scene |-> scene, context |-> NoContext, event |-> NoEvent]

LeaveScreen(p) ==
  /\ ~Selecting(p)
  /\ pipe' = [p EXCEPT !.song = NoSong]
  /\ det' = ResetDetector(det)
  /\ out' = Detecting(IF IsIngame(p.last) THEN p.last ELSE Unknown)
  /\ UNCHANGED result

HoldWhileLeaving(p) ==
  /\ Selecting(p) /\ Leaving(p)
  /\ pipe' = p
  /\ out' = Detecting(Unknown)
  /\ UNCHANGED <<det, result>>

ReadScreen(p, song, chart, r) ==
  LET d == Observed(det, p.rois, song, chart, r)
      e == EventOf(d, p.rois)
  IN  /\ Selecting(p) /\ ~Leaving(p)
      /\ pipe' = [p EXCEPT !.song = song]
      /\ det' = Emitted(d, e)
      /\ out' = [scene |-> p.rois, event |-> e,
                 context |-> IF Stable(d) THEN d.history[1]
                             ELSE d.history[Len(d.history)]]
      /\ result' = IF game.screen = "result" /\ IsResult(p.rois) /\ r \notin {NoRate, 0}
                     THEN [result EXCEPT !.rates = @ \cup {r}] ELSE result

ProcessShared(p) ==
  \/ LeaveScreen(p)
  \/ HoldWhileLeaving(p)
  \/ \E song \in SongReads(p), chart \in ChartReads(p) :
       \E r \in RateReads(p, song, chart) : ReadScreen(p, song, chart, r)

---------------------------------------------------------------------------
(* One captured frame; the game stays as it is. *)

CachedFrame(format) ==
  /\ ProcessShared(Supported(pipe, format))
  /\ UNCHANGED <<game, seen, reopened, confirmed>>

InspectedFrame(format, s) ==
  LET again == IsResult(s) /\ s = seen
  IN  /\ s \in Reads(format)
      /\ ProcessShared(WithScene(Inspected(Supported(pipe, format), s)))
      /\ seen' = s
      /\ reopened' = (~IsIngame(s) /\ (s \in SelectScenes \/ again \/ reopened))
      /\ confirmed' = (confirmed \/ again)
      /\ game' = IF game.screen = "play" /\ game.inspections < MinPlay
                   THEN [game EXCEPT !.inspections = @ + 1] ELSE game

FreshPipeline ==
  [last |-> Unknown, pending |-> Unknown, streak |-> 0, rois |-> Unknown,
   hyst |-> EmptyBuffer, song |-> NoSong]

(* The worker lost the window, the focus or a frame: DetectionPipeline::reset *)
Reset ==
  /\ pipe' = FreshPipeline
  /\ det' = [FreshDetector EXCEPT !.wasResult = det.wasResult]
  /\ out' = Detecting(Unknown)
  /\ seen' = Unknown
  /\ reopened' = FALSE
  /\ confirmed' = FALSE
  /\ UNCHANGED <<game, result>>

---------------------------------------------------------------------------
(* The game.  Only a play that ran its course has a result screen; a room   *)
(* of open match (an unknown screen) starts plays of its own choice.        *)

Show(screen, pattern) ==
  game' = [screen |-> screen, pattern |-> pattern, inspections |-> 0]

MoveCursor == /\ game.screen = "select"
              /\ \E pattern \in Patterns \ {game.pattern} : Show("select", pattern)

StartPlay == /\ game.screen \in {"select", "result"}
             /\ Show("play", game.pattern)

(* What a room or a menu has in mind is unknown until it shows. *)
StartRoomPlay == /\ game.screen = "other"
                 /\ \E pattern \in Patterns : Show("play", pattern)

FinishPlay == /\ game.screen = "play" /\ game.inspections = MinPlay
              /\ Show("result", game.pattern)

Leave == /\ game.screen # "other"
         /\ Show("other", NoKey)

OpenSelect ==
  \/ game.screen \in {"play", "result"} /\ Show("select", game.pattern)
  \/ game.screen = "other" /\ \E pattern \in Patterns : Show("select", pattern)

GameMove ==
  /\ MoveCursor \/ StartPlay \/ StartRoomPlay \/ FinishPlay \/ Leave \/ OpenSelect
  /\ IF game'.screen = "result"
       THEN confirmed' = FALSE /\ result' = [pattern |-> game'.pattern, rates |-> {}]
       ELSE UNCHANGED <<confirmed, result>>
  /\ UNCHANGED <<pipe, det, seen, reopened>>
  /\ out' = Detecting(Unknown)

Init ==
  /\ game = [screen |-> "other", pattern |-> NoKey, inspections |-> 0]
  /\ pipe = FreshPipeline
  /\ det = FreshDetector
  /\ out = Detecting(Unknown)
  /\ seen = Unknown
  /\ reopened = FALSE
  /\ confirmed = FALSE
  /\ result = [pattern |-> NoKey, rates |-> {}]

Next ==
  \/ \E format \in Formats(pipe) : CachedFrame(format)
  \/ \E format \in Formats(pipe), s \in Scenes : InspectedFrame(format, s)
  \/ Reset
  \/ GameMove

Spec == Init /\ [][Next]_vars

---------------------------------------------------------------------------
(* Type invariant: the fields of detection_pipeline.rs and play_state.rs.   *)
TypeOK ==
  /\ game \in [screen : Screen, pattern : Patterns \cup {NoKey}, inspections : 0..MinPlay]
  /\ pipe \in [last : Scenes, pending : Scenes, streak : 0..2,
               rois : RecordScenes \cup {Unknown}, hyst : Buffer,
               song : Songs \cup {NoSong}]
  /\ det \in [history : UNION {[1..n -> Context \cup {NoContext}] : n \in 0..HistorySize},
              latch : Charts \cup {NoChart}, key : Songs \X Charts \cup {NoKey},
              rate : Rates \cup {NoRate},
              window : UNION {[1..n -> Rates] : n \in 0..WindowSize},
              emitted : Event \cup {NoEvent}, wasResult : BOOLEAN]
  /\ out \in [scene : Scenes, context : Context \cup {NoContext},
              event : Event \cup {NoEvent}]
  /\ seen \in Scenes
  /\ reopened \in BOOLEAN
  /\ confirmed \in BOOLEAN
  /\ result \in [pattern : Patterns \cup {NoKey}, rates : SUBSET Rates]

(* Cached frames crop with the ROI set of the screen that is committed:     *)
(* an inspection that sets the ROIs for a candidate it then does not commit *)
(* must put them back.                                                      *)
RoisFollowScene == pipe.last \in RecordScenes => pipe.rois = pipe.last

(* A verified play of a result screen names the song that was played, with  *)
(* a rate that was read on this result screen: nothing that was cached or   *)
(* buffered on song select or an earlier result survives into it.           *)
ResultOfThisPlay ==
  out.event # NoEvent /\ out.event.isResult =>
    /\ out.event.song = result.pattern[1]
    /\ out.event.rate \in result.rates

(* commit_scene: one reading that looks like a result screen verifies       *)
(* nothing; two in a row must have named the same screen.                   *)
ResultSeenTwice ==
  out.event # NoEvent /\ out.event.isResult => confirmed

(* Once a frame was read as in-game, no context is shown and no play is     *)
(* verified until a later inspection finds song select, or the same result  *)
(* screen twice: commit_scene closes stale selection state.                 *)
SilentAfterIngame ==
  ~reopened => out.context = NoContext /\ out.event = NoEvent

(* detection_pipeline.md, safeguard 5: on a result screen everything is     *)
(* detected from the pixels of that screen alone.                           *)
ResultChartIsPlayed ==
  out.event # NoEvent /\ out.event.isResult => out.event.chart = result.pattern[2]
============================================================================
