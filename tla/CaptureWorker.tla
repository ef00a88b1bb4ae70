--------------------------- MODULE CaptureWorker ---------------------------
(***************************************************************************)
(* The detection worker (detection_worker.rs) between the game's window    *)
(* and the pipeline: it follows the window with the tracker, captures it,  *)
(* feeds the frames to the pipeline and tells the GUI.  On Linux tracker   *)
(* and capture engine hold an X11 connection each, which dies with the X   *)
(* server; on Windows there is no connection to lose.                      *)
(*                                                                         *)
(* A tick is up to three steps, between which the desktop moves on: the    *)
(* query of the tracker, what follows from it, and the capture.  The       *)
(* pipeline is the set of targets whose frames its history stems from; an  *)
(* output is either a frame's or the "detecting" one that closes it.       *)
(***************************************************************************)
EXTENDS Naturals

CONSTANTS
  Platforms,      \* subset of {"linux", "windows"}
  Windows,        \* window ids
  Unsupported,    \* windows whose pixel format X11 capture cannot read
  Sizes,          \* sizes of a window, a larger one holding a smaller one
  MaxServer,      \* bound on the starts of the X server in a behaviour
  None            \* no window, no size

ASSUME PlatformAssumption == Platforms \subseteq {"linux", "windows"} /\ Platforms # {}
ASSUME SizeAssumption == Sizes \subseteq Nat
ASSUME WindowAssumption == Unsupported \subseteq Windows /\ None \notin Windows \cup Sizes
ASSUME ServerAssumption == MaxServer \in Nat \ {0}

VARIABLES
  platform,
  server,    \* the X server: number of its start, whether it runs
  desktop,   \* the game window, its size, whether it has the focus and is mapped
  toplevel,  \* whether the Wayland overlay thread observes the game's focus
  tracker,   \* start of the server its connection is to, 0 if it has none
  engine,    \* AdaptiveCaptureEngine
  worker,    \* DetectionWorker
  pipe,      \* targets of the frames since the last DetectionPipeline::reset
  sent       \* the last output sent to the GUI

env == <<platform, server, desktop, toplevel>>
vars == <<env, tracker, engine, worker, pipe, sent>>

Target == [window : Windows, size : Sizes]
ASSUME TargetAssumption == None \notin Target
Desktop == [window : Windows, size : Sizes, focused : BOOLEAN, mapped : BOOLEAN]

(* LinuxFocusPolicy: out of focus, in it, or unfocused for less than the    *)
(* debounce (Background) or grace (Unknown) time, which counts as in it.    *)
Policy == {"out", "focused", "debouncing"}

(* due: the query interval is over; seen: the target the tracker answered   *)
(* in this tick; focused: its last focus observation; failing:              *)
(* capture_failure_active.  was_found and is_foreground follow the snapshot *)
(* and the policy within every tick, so they are read off those.            *)
Worker == [at : {"tracker", "engine", "tick", "target", "capture", "stopped"},
           due : BOOLEAN, seen : Target \cup {None}, focused : BOOLEAN,
           snapshot : Target \cup {None}, policy : Policy, failing : BOOLEAN]

(* connection: the start of the server that initialize reached, 0 if none;  *)
(* an engine that is fatal from the start does not keep it.  window,        *)
(* buffer: the window redirected for capture, and the size of the shared-   *)
(* memory generation made for it.                                           *)
Engine == [connection : 0..MaxServer, status : {"ok", "lost", "fatal"},
           window : Windows \cup {None}, buffer : Sizes \cup {None}]

(* game_rect and, on Linux, the window_snapshot by which the GUI places its *)
(* overlay.  Position and fullscreen flag are left out (but see Streak).    *)
Output == [kind : {"detecting", "frame"}, fatal : BOOLEAN,
           rect : Sizes \cup {None}, window : Windows \cup {None}, foreground : BOOLEAN]

Linux == platform = "linux"
Connected(start) == server.running /\ start = server.start
WindowOf(s) == IF s = None THEN None ELSE s.window
SizeOf(s) == IF s = None THEN None ELSE s.size
Resized(old, new) == old # None /\ new # None /\ old.window = new.window /\ old.size # new.size
SeenTarget == IF desktop = None THEN None ELSE [window |-> desktop.window, size |-> desktop.size]
SeenFocus == desktop # None /\ desktop.focused
Foreground(w) == w.snapshot # None /\ w.policy # "out"

---------------------------------------------------------------------------
(* Outputs *)

OutputOf(w, kind, fatal) ==
  [kind |-> kind, fatal |-> fatal, rect |-> SizeOf(w.snapshot),
   window |-> IF Linux THEN WindowOf(w.snapshot) ELSE None,
   foreground |-> Linux /\ Foreground(w)]

(* on_capture_interrupted: the pipeline is reset every time, the GUI told   *)
(* once per streak of failures.                                             *)
Interrupted(w) ==
  /\ pipe' = {}
  /\ sent' = IF w.failing THEN sent ELSE OutputOf(w, "detecting", FALSE)

(* on_capture_fatal *)
Fatal(w) == pipe' = {} /\ sent' = OutputOf(w, "detecting", TRUE)

NothingTold == UNCHANGED <<pipe, sent>>

(* handle_linux_capture_error *)
HandleError(w, e) ==
  IF e.status = "fatal"
    THEN Fatal(w) /\ worker' = [w EXCEPT !.at = "stopped"]
    ELSE /\ Interrupted(w)
         /\ worker' = [w EXCEPT !.at = IF e.status = "lost" THEN "tracker" ELSE "tick",
                                !.failing = TRUE]

---------------------------------------------------------------------------
(* AdaptiveCaptureEngine on Linux *)

Unbound(e, status) == [e EXCEPT !.status = status, !.window = None, !.buffer = None]

Viewable(w) == desktop # None /\ desktop.window = w /\ desktop.mapped

(* ensure_generation: a buffer of the window's present size.  A window that *)
(* is gone or not viewable is a transient failure: the buffer stays absent. *)
Ensured(e) ==
  IF e.window = None \/ e.buffer # None \/ ~Viewable(e.window) THEN e
  ELSE IF e.window \in Unsupported THEN Unbound(e, "fatal")
  ELSE [e EXCEPT !.buffer = desktop.size]

(* poll_lifecycle_events: a destroyed window takes its binding along, a     *)
(* resized one the buffer.                                                  *)
Polled(e) ==
  IF desktop = None \/ desktop.window # e.window THEN Unbound(e, e.status)
  ELSE IF desktop.size # e.buffer THEN [e EXCEPT !.buffer = None]
  ELSE e

(* set_target: transient failures are left for the capture to report. *)
Targeted(e, window) ==
  IF e.status = "fatal" THEN e
  ELSE IF ~Connected(e.connection) THEN Unbound(e, "lost")
  ELSE IF window = e.window THEN Ensured(e)
  ELSE Ensured([e EXCEPT !.buffer = None,
                         !.window = IF Viewable(window) THEN window ELSE None])

(* The server copies a part of the window if it has grown since; of a       *)
(* window that has shrunk it copies nothing.                                *)
Fits(buffer) == buffer # None /\ buffer <= desktop.size

(* capture_bgra_inplace: the buffer fits the window, or the capture fails   *)
(* and the next one makes a new buffer.                                     *)
Captured(e) ==
  IF e.status = "fatal" THEN e
  ELSE IF ~Connected(e.connection) THEN Unbound(e, "lost")
  ELSE LET bound == Ensured(e)
       IN  IF Viewable(bound.window) /\ Fits(bound.buffer)
             THEN bound ELSE [bound EXCEPT !.buffer = None]

(* Mistake: no fatal error and a live connection are taken for a frame. *)
HasNoFailure(e) == e.status = "ok"

HasFrame(e) == e.status = "ok" /\ e.buffer # None

(* Any request on a live connection may fail for good: an extension error,  *)
(* a server out of memory, a segment that cannot be mapped (latch).         *)
MayBreak(e) == IF e.status = "ok" THEN {e, Unbound(e, "fatal")} ELSE {e}

(* The events of the window have arrived by now, or some of them have not.  *)
MayBePolled(e) == {e, Polled(e)}

---------------------------------------------------------------------------
(* The worker on Linux *)

(* Mistake: a tracker that was connected once is kept. *)
KeptTracker == IF tracker = 0 /\ server.running THEN server.start ELSE tracker

(* WindowTracker::new, at the start and a second after a lost connection. *)
NewTracker == IF server.running THEN server.start ELSE 0

OpenTracker ==
  /\ worker.at = "tracker"
  /\ tracker' = NewTracker
  /\ worker' = [worker EXCEPT !.at = "engine"]
  /\ UNCHANGED <<env, engine, pipe, sent>>

(* Mistake: the new engine is used before the tracker is asked. *)
NewWorkerUnasked(w) == [w EXCEPT !.at = "tick"]

(* The second before a reconnect outlasts every query interval, and at the  *)
(* start the last query counts as five seconds old: the tracker is asked    *)
(* before the new engine is used.                                           *)
NewWorker(w) == [w EXCEPT !.at = "tick", !.due = TRUE]

(* AdaptiveCaptureEngine::new: a server that is down, like one without      *)
(* Composite or a working MIT-SHM, leaves an engine that is fatal on use.   *)
InitialStatus == IF ~Linux THEN {"ok"} ELSE IF server.running THEN {"ok", "fatal"} ELSE {"fatal"}

OpenEngine ==
  /\ worker.at = "engine"
  /\ \E status \in InitialStatus :
       engine' = [connection |-> IF server.running THEN server.start ELSE 0,
                  status |-> status, window |-> None, buffer |-> None]
  /\ worker' = NewWorker(worker)
  /\ UNCHANGED <<env, tracker, pipe, sent>>

(* game_snapshot: an error of the tracker is fatal to the GUI, though the   *)
(* worker goes on to reconnect.                                             *)
QueryTracker ==
  /\ Linux /\ worker.at = "tick" /\ worker.due
  /\ IF Connected(tracker)
       THEN /\ worker' = [worker EXCEPT !.at = "target", !.seen = SeenTarget, !.focused = SeenFocus]
            /\ NothingTold
       ELSE Fatal(worker) /\ worker' = [worker EXCEPT !.at = "tracker"]
  /\ UNCHANGED <<env, tracker, engine>>

(* effective_focus: the Wayland observation is of now, X11's of the query. *)
EffectiveFocus(w) == IF toplevel /\ desktop # None THEN desktop.focused ELSE w.focused

(* LinuxFocusPolicy::update: how long the game is out of focus is a choice, *)
(* but X11 has just begun to count when its observation changes.            *)
PolicyAfter(w) ==
  IF w.snapshot = None THEN {"out"}
  ELSE IF EffectiveFocus(w) THEN {"focused"}
  ELSE IF w.policy = "focused" /\ ~toplevel THEN {"debouncing"}
  ELSE IF w.policy = "out" THEN {"out"}
  ELSE {"debouncing", "out"}

(* Mistake: a window that appears counts, not one that takes another's place. *)
TargetAppeared(old, new) == old = None /\ new # None

(* A window that takes the place of another; one found again is no change.  *)
TargetChanged(old, new) == old # None /\ new # None /\ WindowOf(old) # WindowOf(new)

(* Mistake: failures stay told whatever the window does. *)
SameStreak(old, w) == w

(* capture_state_changed: what was failing for another window, or another   *)
(* focus, does not keep the next failure from being told.                   *)
NewState(old, w) ==
  [w EXCEPT !.failing = @ /\ WindowOf(old.snapshot) = WindowOf(w.snapshot)
                          /\ Foreground(old) = Foreground(w)]

(* It looks at the fullscreen flag of the window too. *)
Streak(w) == IF w.snapshot = None THEN {w.failing} ELSE {w.failing, FALSE}

Interrupts(old, w) ==
  \/ TargetChanged(old.snapshot, w.snapshot)
  \/ w.snapshot # None /\ Foreground(old) /\ ~Foreground(w)
  \/ Resized(old.snapshot, w.snapshot)
  \/ old.snapshot # None /\ w.snapshot = None

(* tick_linux from the focus on, for the worker w with the snapshot of this *)
(* tick: interrupted, found in the background, or neither; then captured if *)
(* it is in the foreground.                                                 *)
Follow(w) ==
  \E policy \in PolicyAfter(w), failing \in Streak(w) :
    LET now == NewState(worker, [w EXCEPT !.policy = policy, !.failing = failing, !.seen = None])
        next == [now EXCEPT !.at = IF Foreground(now) THEN "capture" ELSE "tick"]
    IN  IF Interrupts(worker, now)
          THEN Interrupted(now) /\ worker' = [next EXCEPT !.failing = TRUE]
          ELSE /\ worker' = next
               /\ pipe' = pipe
               /\ sent' = IF worker.snapshot = None /\ now.snapshot # None /\ ~Foreground(now)
                            THEN OutputOf(now, "detecting", FALSE) ELSE sent

TickUnasked ==
  /\ Linux /\ worker.at = "tick" /\ ~worker.due
  /\ Follow(worker)
  /\ UNCHANGED <<env, tracker, engine>>

(* set_target, and what follows if it accepts the target: only then is the  *)
(* snapshot replaced and the query interval started.                        *)
SetTarget ==
  /\ worker.at = "target"
  /\ \E polled \in MayBePolled(engine) :
       /\ engine' \in MayBreak(Targeted(polled, WindowOf(worker.seen)))
       /\ IF engine'.status = "ok"
            THEN Follow([worker EXCEPT !.snapshot = worker.seen, !.due = FALSE])
            ELSE HandleError([worker EXCEPT !.seen = None], engine')
  /\ UNCHANGED <<env, tracker>>

(* Mistake: the streak of failures outlives a captured frame. *)
SucceededOnce(w) == [w EXCEPT !.at = "tick"]

Succeeded(w) == [w EXCEPT !.at = "tick", !.failing = FALSE]

Frame(w, target) ==
  /\ pipe' = pipe \cup {target}
  /\ sent' = OutputOf(w, "frame", FALSE)
  /\ worker' = Succeeded(w)

CaptureLinux ==
  /\ Linux /\ worker.at = "capture"
  /\ \E polled \in MayBePolled(engine) :
       /\ engine' \in MayBreak(Captured(polled))
       /\ IF HasFrame(engine')
            THEN Frame(worker, [window |-> engine'.window, size |-> engine'.buffer])
            ELSE HandleError(worker, engine')
  /\ UNCHANGED <<env, tracker>>

---------------------------------------------------------------------------
(* The worker on Windows *)

(* tick up to the capture: a new window, a new size, a lost focus and a     *)
(* missing window each reset the pipeline and are told if there was a       *)
(* window; a window found in the background is told too.                    *)
LookWindows ==
  /\ platform = "windows" /\ worker.at = "tick"
  /\ LET seen == IF worker.due THEN SeenTarget ELSE worker.snapshot
         focused == IF worker.due THEN SeenFocus ELSE worker.policy = "focused"
         now == [worker EXCEPT !.snapshot = seen, !.due = FALSE,
                               !.policy = IF seen # None /\ focused THEN "focused" ELSE "out"]
         closed == seen # worker.snapshot \/ (Foreground(worker) /\ ~Foreground(now))
         told == IF worker.snapshot = None THEN seen # None /\ ~Foreground(now) ELSE closed
     IN  /\ pipe' = IF closed \/ seen = None THEN {} ELSE pipe
         /\ sent' = IF told THEN OutputOf(now, "detecting", FALSE) ELSE sent
         /\ worker' = [now EXCEPT !.at = IF Foreground(now) THEN "capture" ELSE "tick"]
  /\ UNCHANGED <<env, tracker, engine>>

(* The screen is captured where the window last was: no connection is lost, *)
(* and every error is tried again.                                          *)
CaptureWindows ==
  /\ platform = "windows" /\ worker.at = "capture"
  /\ Frame(worker, worker.snapshot) \/ HandleError(worker, engine)
  /\ UNCHANGED <<env, tracker, engine>>

---------------------------------------------------------------------------
(* The desktop and time *)

ServerStops ==
  /\ Linux /\ server.running
  /\ server' = [server EXCEPT !.running = FALSE]
  /\ desktop' = None
  /\ UNCHANGED <<platform, toplevel, tracker, engine, worker, pipe, sent>>

ServerStarts ==
  /\ ~server.running /\ server.start < MaxServer
  /\ server' = [start |-> server.start + 1, running |-> TRUE]
  /\ UNCHANGED <<platform, desktop, toplevel, tracker, engine, worker, pipe, sent>>

(* The game opens, closes, is resized, loses and gets the focus, is hidden  *)
(* and shown.  A reused id is not told apart from the same window.          *)
DesktopChanges ==
  /\ server.running
  /\ IF desktop = None
       THEN desktop' \in Desktop
       ELSE \/ desktop' = None
            \/ \E size \in Sizes \ {desktop.size} : desktop' = [desktop EXCEPT !.size = size]
            \/ desktop' = [desktop EXCEPT !.focused = ~@]
            \/ desktop' = [desktop EXCEPT !.mapped = ~@]
  /\ UNCHANGED <<platform, server, toplevel, tracker, engine, worker, pipe, sent>>

ToplevelChanges ==
  /\ Linux
  /\ toplevel' = ~toplevel
  /\ UNCHANGED <<platform, server, desktop, tracker, engine, worker, pipe, sent>>

(* The query interval of WindowQueryScheduler ends. *)
IntervalEnds ==
  /\ ~worker.due
  /\ worker' = [worker EXCEPT !.due = TRUE]
  /\ UNCHANGED <<env, tracker, engine, pipe, sent>>

WorkerStep ==
  OpenTracker \/ OpenEngine \/ QueryTracker \/ TickUnasked \/ SetTarget \/ CaptureLinux
    \/ LookWindows \/ CaptureWindows

Init ==
  /\ platform \in Platforms
  /\ server = [start |-> 1, running |-> TRUE]
  /\ desktop = None /\ toplevel = FALSE
  /\ tracker = 0
  /\ engine = [connection |-> 0, status |-> "ok", window |-> None, buffer |-> None]
  /\ worker = [at |-> "tracker", due |-> TRUE, seen |-> None, focused |-> FALSE,
               snapshot |-> None, policy |-> "out", failing |-> FALSE]
  /\ pipe = {}
  /\ sent = OutputOf(worker, "detecting", FALSE)

Next ==
  \/ WorkerStep \/ IntervalEnds
  \/ ServerStops \/ ServerStarts \/ DesktopChanges \/ ToplevelChanges

(* The worker is a thread that loops with bounded sleeps; intervals end. *)
Spec == Init /\ [][Next]_vars
FairSpec == Spec /\ WF_vars(WorkerStep) /\ WF_vars(IntervalEnds)

---------------------------------------------------------------------------
(* Properties *)

(* Every variable keeps its shape. *)
TypeOK ==
  /\ platform \in Platforms
  /\ server \in [start : 1..MaxServer, running : BOOLEAN]
  /\ desktop \in Desktop \cup {None} /\ toplevel \in BOOLEAN
  /\ tracker \in 0..MaxServer /\ engine \in Engine /\ worker \in Worker
  /\ pipe \subseteq Target /\ sent \in Output

(* The GUI never keeps showing a frame's state after the pipeline was reset *)
(* (detection_worker.rs:737, "closes stale verified state"), though a       *)
(* streak of failures is told only once.                                    *)
ShownStateIsLive == sent.kind = "frame" => pipe # {}

(* The pipeline, which commits scenes and songs over several frames, never  *)
(* mixes frames of two windows; on Windows not of two sizes either.         *)
HistoryOfOneTarget ==
  \A a, b \in pipe : a.window = b.window /\ (platform = "windows" => a = b)

(* On Linux the GUI places its overlay by the snapshot last sent.  Between  *)
(* ticks window and focus in it are the worker's, however failures, focus   *)
(* and target changes fall together and although failures are told once.    *)
(* Of a game in the foreground the size is the worker's too, except while a *)
(* streak of failures lasts: a resize within it is told by what ends it.    *)
ShownTargetIsCurrent ==
  Linux /\ worker.at \in {"tick", "tracker", "engine"} =>
    /\ sent.window = WindowOf(worker.snapshot) /\ sent.foreground = Foreground(worker)
    /\ Foreground(worker) => sent.rect = SizeOf(worker.snapshot) \/ worker.failing

(* An X server that is away for a while, or replaced by another between any *)
(* two steps, never ends the worker for good (linux.rs, error_action),      *)
(* although an engine made while it is away is fatal: the worker stops only *)
(* over a request that fails on a live connection, or over an engine that   *)
(* found the very server the tracker is asking incapable.                   *)
StopsOnlyForGood ==
  [][worker'.at = "stopped" /\ worker.at # "stopped" =>
       \/ engine.status = "ok" /\ Connected(engine.connection)
       \/ engine.status = "fatal" /\ tracker # 0 /\ engine.connection = tracker]_vars

Capturable == server.running /\ SeenFocus /\ desktop.mapped /\ desktop.window \notin Unsupported

(* Whatever the server, the window and the focus went through: once they    *)
(* stay as the player wants them, frames are captured and stay captured.    *)
Recovers ==
  <>[](Linux /\ Capturable) /\ <>[][FALSE]_env =>
    <>(worker.at = "stopped") \/ <>[](sent.kind = "frame")
============================================================================
