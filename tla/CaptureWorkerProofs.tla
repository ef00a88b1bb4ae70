------------------------ MODULE CaptureWorkerProofs ------------------------
(***************************************************************************)
(* Proofs about the detection worker: types are kept, the pipeline sees    *)
(* frames of one target only, the GUI shows neither a dead result nor an   *)
(* old target, and an X server that goes away does not stop the worker.    *)
(* All this for any windows, sizes and number of starts of the X server.   *)
(***************************************************************************)
EXTENDS CaptureWorker, TLAPS

---------------------------------------------------------------------------
(* What holds between the steps of a tick.                                 *)

(* The engine is usable whenever it is used, or it found the server that    *)
(* the tracker is connected to incapable.  An engine that found no server,  *)
(* or another one, is not used: the tracker is asked first and fails.       *)
FoundIncapable == engine.status = "fatal" /\ tracker # 0 /\ engine.connection = tracker

Usable ==
  /\ worker.at = "capture" => engine.status = "ok"
  /\ worker.at = "target" => engine.status = "ok" \/ FoundIncapable
  /\ worker.at = "tick" =>
       \/ engine.status = "ok"
       \/ worker.due /\ (FoundIncapable \/ ~server.running \/ tracker < server.start)
  /\ tracker <= server.start

(* The engine is bound to the window of the snapshot or to none, and on     *)
(* Windows never.                                                          *)
Bound ==
  /\ engine.window \in {None, WindowOf(worker.snapshot)}
  /\ engine.status # "ok" => engine.window = None
  /\ ~Linux => engine.status = "ok" /\ engine.window = None /\ worker.at # "target"

(* Only a game in the foreground is captured. *)
CapturesForeground == worker.at = "capture" => Foreground(worker)

(* The frames in the pipeline are of the worker's snapshot. *)
HistoryOfSnapshot ==
  \A a \in pipe : /\ worker.snapshot # None
                  /\ a.window = worker.snapshot.window
                  /\ platform = "windows" => a = worker.snapshot

(* During a streak of failures the GUI has been told that it began. *)
FailureTold == worker.failing => sent.kind = "detecting"

(* What the GUI was sent last is of the worker's target, except where a     *)
(* capture is about to tell it: in a streak of failures it will not.       *)
NothingToTell ==
  \/ worker.at \in {"tick", "tracker", "engine", "target"}
  \/ worker.at = "capture" /\ worker.failing

SentIsCurrent ==
  Linux /\ NothingToTell =>
    /\ sent.window = WindowOf(worker.snapshot) /\ sent.foreground = Foreground(worker)
    /\ Foreground(worker) => sent.rect = SizeOf(worker.snapshot) \/ worker.failing

Sound ==
  /\ TypeOK
  /\ Usable /\ Bound /\ CapturesForeground
  /\ HistoryOfSnapshot /\ FailureTold /\ ShownStateIsLive /\ SentIsCurrent

---------------------------------------------------------------------------
(* Records of the worker, the engine and the outputs.                      *)

LEMMA WindowType ==
  ASSUME NEW s \in Target \cup {None}
  PROVE  /\ WindowOf(s) \in Windows \cup {None}
         /\ s = None <=> WindowOf(s) = None
         /\ s # None => s \in Target /\ WindowOf(s) = s.window
         /\ SizeOf(s) \in Sizes \cup {None}
BY WindowAssumption DEF WindowOf, SizeOf, Target

LEMMA SeenTargetType ==
  ASSUME TypeOK
  PROVE  /\ SeenTarget \in Target \cup {None}
         /\ desktop # None => SeenTarget # None
         /\ SeenFocus \in BOOLEAN
BY TargetAssumption DEF TypeOK, SeenTarget, SeenFocus, Desktop, Target

LEMMA OutputType ==
  ASSUME NEW w \in Worker, NEW kind \in {"detecting", "frame"}, NEW fatal \in BOOLEAN
  PROVE  /\ OutputOf(w, kind, fatal) \in Output
         /\ OutputOf(w, kind, fatal).kind = kind
         /\ OutputOf(w, kind, fatal).rect = SizeOf(w.snapshot)
         /\ Linux => /\ OutputOf(w, kind, fatal).window = WindowOf(w.snapshot)
                     /\ OutputOf(w, kind, fatal).foreground = Foreground(w)
<1>1. w.snapshot \in Target \cup {None}
  BY DEF Worker
<1>2. /\ WindowOf(w.snapshot) \in Windows \cup {None}
      /\ SizeOf(w.snapshot) \in Sizes \cup {None}
  BY <1>1, WindowType
<1>3. Foreground(w) \in BOOLEAN
  BY DEF Foreground
<1> QED BY <1>2, <1>3 DEF OutputOf, Output

---------------------------------------------------------------------------
(* The engine.                                                             *)

(* The engine keeps its connection, and its window or none; it fails for    *)
(* good only over a live connection.                                       *)
Confined(old, new) ==
  /\ new \in Engine
  /\ new.connection = old.connection
  /\ new.window \in {None, old.window}
  /\ new.status = "ok" \/ new.window = None
  /\ new.status = "fatal" => old.status = "fatal" \/ Connected(old.connection)

LEMMA UnboundType ==
  ASSUME NEW e \in Engine, NEW status \in {"ok", "lost", "fatal"}
  PROVE  /\ Unbound(e, status) \in Engine
         /\ Unbound(e, status).connection = e.connection
         /\ Unbound(e, status).window = None
         /\ Unbound(e, status).status = status
BY DEF Unbound, Engine

LEMMA EnsuredConfined ==
  ASSUME TypeOK, NEW e \in Engine, e.status = "ok", Connected(e.connection)
  PROVE  Confined(e, Ensured(e))
<1>1. CASE e.window = None \/ e.buffer # None \/ ~Viewable(e.window)
  BY <1>1 DEF Ensured, Confined
<1>2. CASE e.window # None /\ Viewable(e.window)
  <2>1. desktop \in Desktop /\ desktop # None
    BY <1>2 DEF Viewable, TypeOK
  <2>2. \/ Ensured(e) = e
        \/ Ensured(e) = Unbound(e, "fatal")
        \/ Ensured(e) = [e EXCEPT !.buffer = desktop.size]
    BY DEF Ensured
  <2>4. CASE Ensured(e) = e
    BY <2>4 DEF Confined
  <2>5. CASE Ensured(e) = [e EXCEPT !.buffer = desktop.size]
    <3> DEFINE new == [e EXCEPT !.buffer = desktop.size]
    <3>1. desktop.size \in Sizes
      BY <2>1 DEF Desktop
    <3>2. new \in Engine /\ new.connection = e.connection /\ new.window = e.window
          /\ new.status = "ok"
      BY <3>1 DEF Engine
    <3>3. Ensured(e) = new
      BY <2>5
    <3> HIDE DEF new
    <3> QED BY <3>2, <3>3 DEF Confined
  <2>6. CASE Ensured(e) = Unbound(e, "fatal")
    BY <2>6, UnboundType DEF Confined
  <2> QED BY <2>2, <2>4, <2>5, <2>6
<1> QED BY <1>1, <1>2

LEMMA PolledConfined ==
  ASSUME TypeOK, NEW e \in Engine, NEW polled \in MayBePolled(e)
  PROVE  /\ polled \in Engine /\ polled.status = e.status
         /\ polled.connection = e.connection /\ polled.window \in {None, e.window}
<1>1. polled \in {e, Unbound(e, e.status), [e EXCEPT !.buffer = None]}
  BY DEF MayBePolled, Polled
<1>2. CASE polled = Unbound(e, e.status)
  <2>1. e.status \in {"ok", "lost", "fatal"}
    BY DEF Engine
  <2> QED BY <1>2, <2>1, UnboundType
<1>3. CASE polled = [e EXCEPT !.buffer = None]
  BY <1>3 DEF Engine
<1> QED BY <1>1, <1>2, <1>3

LEMMA BrokenConfined ==
  ASSUME NEW e \in Engine, NEW broken \in MayBreak(e)
  PROVE  broken = e \/ /\ e.status = "ok" /\ broken.status = "fatal"
                       /\ broken \in Engine /\ broken.window = None
BY UnboundType DEF MayBreak

(* set_target binds the engine to the window asked for, or to none. *)
LEMMA TargetedConfined ==
  ASSUME TypeOK, NEW e \in Engine, e.status = "ok", NEW window \in Windows \cup {None}
  PROVE  /\ Targeted(e, window) \in Engine
         /\ Targeted(e, window).window \in {None, window}
         /\ Targeted(e, window).status # "ok" => Targeted(e, window).window = None
         /\ Targeted(e, window).status \in {"ok", "fatal"} => Connected(e.connection)
<1> DEFINE bound == [e EXCEPT !.buffer = None,
                              !.window = IF Viewable(window) THEN window ELSE None]
<1>1. /\ bound \in Engine /\ bound.status = "ok" /\ bound.window \in {None, window}
      /\ bound.connection = e.connection
  BY DEF Engine
<1>2. CASE ~Connected(e.connection)
  <2>1. Targeted(e, window) = Unbound(e, "lost")
    BY <1>2 DEF Targeted
  <2> QED BY <2>1, UnboundType
<1>3. CASE Connected(e.connection) /\ window = e.window
  <2>1. Targeted(e, window) = Ensured(e)
    BY <1>3 DEF Targeted
  <2> QED BY <1>3, <2>1, EnsuredConfined DEF Confined
<1>4. CASE Connected(e.connection) /\ window # e.window
  <2>1. Targeted(e, window) = Ensured(bound)
    BY <1>4 DEF Targeted
  <2> HIDE DEF bound
  <2> QED BY <1>1, <1>4, <2>1, EnsuredConfined DEF Confined
<1> QED BY <1>2, <1>3, <1>4

(* A capture leaves the window bound or drops it, and a frame has a size.  *)
LEMMA CapturedConfined ==
  ASSUME TypeOK, NEW e \in Engine, e.status = "ok"
  PROVE  /\ Confined(e, Captured(e))
         /\ Captured(e).status \in {"ok", "fatal"} => Connected(e.connection)
         /\ HasFrame(Captured(e)) =>
              [window |-> Captured(e).window, size |-> Captured(e).buffer] \in Target
<1> DEFINE bound == Ensured(e)
<1>1. CASE ~Connected(e.connection)
  <2>1. Captured(e) = Unbound(e, "lost")
    BY <1>1 DEF Captured
  <2> QED BY <2>1, UnboundType DEF Confined, HasFrame
<1>2. CASE Connected(e.connection)
  <2>1. Captured(e) = IF Viewable(bound.window) /\ Fits(bound.buffer)
                        THEN bound ELSE [bound EXCEPT !.buffer = None]
    BY <1>2 DEF Captured
  <2>2. Confined(e, bound)
    BY <1>2, EnsuredConfined
  <2> HIDE DEF bound
  <2>3. CASE Viewable(bound.window) /\ Fits(bound.buffer)
    <3>1. desktop \in Desktop /\ desktop.window = bound.window
      BY <2>3 DEF Viewable, TypeOK
    <3>2. bound.buffer \in Sizes
      BY <2>2, <2>3 DEF Fits, Confined, Engine
    <3>3. [window |-> bound.window, size |-> bound.buffer] \in Target
      BY <3>1, <3>2 DEF Desktop, Target
    <3> QED BY <1>2, <2>1, <2>2, <2>3, <3>3
  <2>4. CASE ~(Viewable(bound.window) /\ Fits(bound.buffer))
    <3> DEFINE dropped == [bound EXCEPT !.buffer = None]
    <3>1. Captured(e) = dropped
      BY <2>1, <2>4
    <3>2. /\ dropped \in Engine /\ dropped.window = bound.window
          /\ dropped.connection = bound.connection
          /\ dropped.status = bound.status /\ dropped.buffer = None
      BY <2>2 DEF Confined, Engine
    <3> HIDE DEF dropped
    <3> QED BY <1>2, <2>2, <3>1, <3>2 DEF Confined, HasFrame
  <2> QED BY <2>3, <2>4
<1> QED BY <1>1, <1>2

---------------------------------------------------------------------------
(* What a tick does with the worker, the pipeline and the GUI.             *)

SameTarget(old, new) ==
  WindowOf(old.snapshot) = WindowOf(new.snapshot) /\ Foreground(old) = Foreground(new)

(* Follow(w), without what it chooses: the tick is interrupted, and the GUI *)
(* told unless it was in this very streak; or the history goes on, and the  *)
(* GUI is told of a game found in the background.                           *)
InterruptedTick ==
  /\ Interrupts(worker, worker')
  /\ worker'.failing
  /\ pipe' = {}
  /\ \/ sent' = OutputOf(worker', "detecting", FALSE)
     \/ sent' = sent /\ worker.failing /\ SameTarget(worker, worker')

FoundInBackground ==
  worker.snapshot = None /\ worker'.snapshot # None /\ ~Foreground(worker')

QuietTick ==
  /\ ~Interrupts(worker, worker')
  /\ pipe' = pipe
  /\ worker'.failing => worker.failing /\ SameTarget(worker, worker')
  /\ \/ sent' = OutputOf(worker', "detecting", FALSE)
     \/ sent' = sent /\ ~FoundInBackground

Followed(w) ==
  /\ worker' \in Worker
  /\ worker'.snapshot = w.snapshot
  /\ worker'.at = IF Foreground(worker') THEN "capture" ELSE "tick"
  /\ InterruptedTick \/ QuietTick

LEMMA PolicyType ==
  ASSUME NEW w \in Worker
  PROVE  PolicyAfter(w) \subseteq Policy
BY DEF PolicyAfter, Policy

LEMMA FollowIs ==
  ASSUME TypeOK, NEW w \in Worker, w.failing = worker.failing, Follow(w)
  PROVE  Followed(w)
<1>1. PICK policy \in PolicyAfter(w), failing \in Streak(w) :
        LET now == NewState(worker, [w EXCEPT !.policy = policy, !.failing = failing, !.seen = None])
            next == [now EXCEPT !.at = IF Foreground(now) THEN "capture" ELSE "tick"]
        IN  IF Interrupts(worker, now)
              THEN Interrupted(now) /\ worker' = [next EXCEPT !.failing = TRUE]
              ELSE /\ worker' = next
                   /\ pipe' = pipe
                   /\ sent' = IF worker.snapshot = None /\ now.snapshot # None /\ ~Foreground(now)
                                THEN OutputOf(now, "detecting", FALSE) ELSE sent
  BY DEF Follow
<1> DEFINE asked == [w EXCEPT !.policy = policy, !.failing = failing, !.seen = None]
           now == NewState(worker, asked)
           next == [now EXCEPT !.at = IF Foreground(now) THEN "capture" ELSE "tick"]
<1>2. policy \in Policy /\ failing \in BOOLEAN /\ (failing => worker.failing)
  BY PolicyType DEF Streak, Worker
<1>3. /\ asked \in Worker /\ asked.snapshot = w.snapshot
      /\ asked.policy = policy /\ (asked.failing => worker.failing)
  BY <1>2 DEF Worker
<1> HIDE DEF asked
<1>4. /\ now \in Worker /\ now.snapshot = w.snapshot /\ now.policy = policy
      /\ now.failing => worker.failing /\ WindowOf(worker.snapshot) = WindowOf(asked.snapshot)
                                       /\ Foreground(worker) = Foreground(asked)
  <2> DEFINE streak == asked.failing /\ WindowOf(worker.snapshot) = WindowOf(asked.snapshot)
                                     /\ Foreground(worker) = Foreground(asked)
  <2>1. now = [asked EXCEPT !.failing = streak]
    BY DEF NewState
  <2>2. streak \in BOOLEAN
    BY <1>3 DEF Worker
  <2>3. streak => worker.failing /\ WindowOf(worker.snapshot) = WindowOf(asked.snapshot)
                                 /\ Foreground(worker) = Foreground(asked)
    BY <1>3
  <2> HIDE DEF streak, now
  <2>4. /\ now \in Worker /\ now.snapshot = asked.snapshot /\ now.policy = asked.policy
        /\ now.failing = streak
    BY <1>3, <2>1, <2>2 DEF Worker
  <2> QED BY <1>3, <2>3, <2>4
<1>5. now.failing => worker.failing /\ SameTarget(worker, now)
  BY <1>3, <1>4 DEF SameTarget, Foreground
<1> HIDE DEF now
<1>6. /\ next \in Worker /\ next.snapshot = now.snapshot /\ next.policy = now.policy
      /\ next.failing = now.failing
      /\ next.at = IF Foreground(now) THEN "capture" ELSE "tick"
  BY <1>4 DEF Worker
<1>7. CASE Interrupts(worker, now)
  <2>1. Interrupted(now) /\ worker' = [next EXCEPT !.failing = TRUE]
    BY <1>1, <1>7 DEF next, now, asked
  <2> HIDE DEF next
  <2>2. /\ worker' \in Worker /\ worker'.snapshot = now.snapshot
        /\ worker'.policy = now.policy /\ worker'.at = next.at /\ worker'.failing
    BY <1>6, <2>1 DEF Worker
  <2>3. Foreground(worker') = Foreground(now)
    BY <2>2 DEF Foreground
  <2>4. Interrupts(worker, worker')
    BY <1>7, <2>2, <2>3 DEF Interrupts
  <2>5. SameTarget(worker, now) => SameTarget(worker, worker')
    BY <2>2, <2>3 DEF SameTarget
  <2>6. OutputOf(now, "detecting", FALSE) = OutputOf(worker', "detecting", FALSE)
    BY <2>2, <2>3 DEF OutputOf
  <2>7. InterruptedTick
    BY <1>5, <2>1, <2>2, <2>4, <2>5, <2>6 DEF InterruptedTick, Interrupted
  <2> QED BY <1>4, <1>6, <2>2, <2>3, <2>7 DEF Followed
<1>8. CASE ~Interrupts(worker, now)
  <2>1. /\ worker' = next
        /\ pipe' = pipe
        /\ sent' = IF worker.snapshot = None /\ now.snapshot # None /\ ~Foreground(now)
                     THEN OutputOf(now, "detecting", FALSE) ELSE sent
    BY <1>1, <1>8 DEF next, now, asked
  <2> HIDE DEF next
  <2>2. /\ worker' \in Worker /\ worker'.snapshot = now.snapshot
        /\ worker'.policy = now.policy /\ worker'.at = next.at /\ worker'.failing = now.failing
    BY <1>6, <2>1
  <2>3. Foreground(worker') = Foreground(now)
    BY <2>2 DEF Foreground
  <2>4. ~Interrupts(worker, worker')
    BY <1>8, <2>2, <2>3 DEF Interrupts
  <2>5. worker'.failing => worker.failing /\ SameTarget(worker, worker')
    BY <1>5, <2>2, <2>3 DEF SameTarget
  <2>6. OutputOf(now, "detecting", FALSE) = OutputOf(worker', "detecting", FALSE)
    BY <2>2, <2>3 DEF OutputOf
  <2>7. QuietTick
    BY <2>1, <2>2, <2>3, <2>4, <2>5, <2>6 DEF QuietTick, FoundInBackground
  <2> QED BY <1>4, <1>6, <2>2, <2>3, <2>7 DEF Followed
<1> QED BY <1>7, <1>8

(* HandleError: the history ends, the target stays; the worker stops, or   *)
(* goes on and has told of the failure unless it is in a streak of them.   *)
Erred(status) ==
  /\ worker' \in Worker
  /\ worker'.snapshot = worker.snapshot /\ Foreground(worker') = Foreground(worker)
  /\ pipe' = {}
  /\ \/ /\ status = "fatal" /\ worker'.at = "stopped"
        /\ sent' = OutputOf(worker', "detecting", TRUE)
     \/ /\ status # "fatal" /\ worker'.at = IF status = "lost" THEN "tracker" ELSE "tick"
        /\ worker'.failing
        /\ \/ sent' = OutputOf(worker', "detecting", FALSE)
           \/ sent' = sent /\ worker.failing

LEMMA HandleErrorIs ==
  ASSUME NEW w \in Worker, w.snapshot = worker.snapshot, w.policy = worker.policy,
         w.failing = worker.failing, NEW e, HandleError(w, e)
  PROVE  Erred(e.status)
<1>1. CASE e.status = "fatal"
  <2>1. Fatal(w) /\ worker' = [w EXCEPT !.at = "stopped"]
    BY <1>1 DEF HandleError
  <2>2. /\ worker' \in Worker /\ worker'.snapshot = w.snapshot
        /\ worker'.policy = w.policy /\ worker'.at = "stopped"
    BY <2>1 DEF Worker
  <2>3. Foreground(worker') = Foreground(w) /\ Foreground(w) = Foreground(worker)
    BY <2>2 DEF Foreground
  <2>4. OutputOf(w, "detecting", TRUE) = OutputOf(worker', "detecting", TRUE)
    BY <2>2, <2>3 DEF OutputOf
  <2> QED BY <1>1, <2>1, <2>2, <2>3, <2>4 DEF Erred, Fatal
<1>2. CASE e.status # "fatal"
  <2> DEFINE next == IF e.status = "lost" THEN "tracker" ELSE "tick"
  <2>1. Interrupted(w) /\ worker' = [w EXCEPT !.at = next, !.failing = TRUE]
    BY <1>2 DEF HandleError
  <2>2. next \in {"tracker", "tick"}
    OBVIOUS
  <2>a. next = IF e.status = "lost" THEN "tracker" ELSE "tick"
    OBVIOUS
  <2> HIDE DEF next
  <2>3. /\ worker' \in Worker /\ worker'.snapshot = w.snapshot
        /\ worker'.policy = w.policy /\ worker'.at = next /\ worker'.failing
    BY <2>1, <2>2 DEF Worker
  <2>4. Foreground(worker') = Foreground(w) /\ Foreground(w) = Foreground(worker)
    BY <2>3 DEF Foreground
  <2>5. OutputOf(w, "detecting", FALSE) = OutputOf(worker', "detecting", FALSE)
    BY <2>3, <2>4 DEF OutputOf
  <2> QED BY <1>2, <2>1, <2>a, <2>3, <2>4, <2>5 DEF Erred, Interrupted
<1> QED BY <1>1, <1>2

---------------------------------------------------------------------------
(* The invariant is kept.                                                  *)


LEMMA WindowsOrLinux == ASSUME TypeOK PROVE ~Linux <=> platform = "windows"
BY PlatformAssumption DEF TypeOK, Linux

(* A tick on Linux, of the old or the new snapshot. *)
LEMMA TickSound ==
  ASSUME Sound, Linux, worker.at \in {"tick", "target"}, NEW w \in Worker, Followed(w),
         UNCHANGED <<env, tracker>>,
         engine' \in Engine, engine'.status = "ok",
         engine'.window \in {None, WindowOf(w.snapshot)}
  PROVE  Sound'
<1>0. /\ TypeOK /\ Usable /\ HistoryOfSnapshot /\ FailureTold /\ ShownStateIsLive /\ SentIsCurrent
      /\ worker \in Worker /\ sent \in Output
  BY DEF Sound, TypeOK
<1>1. /\ worker' \in Worker /\ worker'.snapshot = w.snapshot
      /\ worker'.at = IF Foreground(worker') THEN "capture" ELSE "tick"
      /\ InterruptedTick \/ QuietTick
  BY DEF Followed
<1>2. /\ OutputOf(worker', "detecting", FALSE) \in Output
      /\ OutputOf(worker', "detecting", FALSE).kind = "detecting"
      /\ OutputOf(worker', "detecting", FALSE).rect = SizeOf(worker'.snapshot)
      /\ OutputOf(worker', "detecting", FALSE).window = WindowOf(worker'.snapshot)
      /\ OutputOf(worker', "detecting", FALSE).foreground = Foreground(worker')
  BY <1>1, OutputType
<1>3. TypeOK'
  <2>1. pipe' \subseteq Target
    BY <1>0, <1>1 DEF InterruptedTick, QuietTick, TypeOK
  <2>2. sent' \in Output
    BY <1>0, <1>1, <1>2 DEF InterruptedTick, QuietTick
  <2> QED BY <1>0, <1>1, <2>1, <2>2 DEF TypeOK, env
<1>4. Usable'
  BY <1>0, <1>1 DEF Usable, FoundIncapable, env
<1>5. Bound'
  BY <1>1 DEF Bound, env, Linux
<1>6. CapturesForeground'
  BY <1>1 DEF CapturesForeground
<1>7. HistoryOfSnapshot'
  <2>1. SUFFICES ASSUME QuietTick, NEW a \in pipe
                 PROVE  worker'.snapshot # None /\ a.window = worker'.snapshot.window
    BY <1>1 DEF InterruptedTick, QuietTick, HistoryOfSnapshot, env, Linux
  <2>2. worker.snapshot # None /\ a.window = worker.snapshot.window
    BY <1>0 DEF HistoryOfSnapshot
  <2>3. ~Interrupts(worker, worker')
    BY <2>1 DEF QuietTick
  <2>4. worker'.snapshot # None
    BY <2>2, <2>3 DEF Interrupts
  <2>5. WindowOf(worker.snapshot) = WindowOf(worker'.snapshot)
    BY <2>2, <2>3, <2>4 DEF Interrupts, TargetChanged
  <2> QED BY <2>2, <2>4, <2>5 DEF WindowOf
<1>8. FailureTold'
  BY <1>0, <1>1, <1>2 DEF FailureTold, InterruptedTick, QuietTick
<1>9. ShownStateIsLive'
  <2>1. CASE sent' = OutputOf(worker', "detecting", FALSE)
    BY <1>2, <2>1 DEF ShownStateIsLive
  <2>2. CASE sent' = sent /\ worker.failing
    BY <1>0, <2>2 DEF FailureTold, ShownStateIsLive
  <2>3. CASE sent' = sent /\ pipe' = pipe
    BY <1>0, <2>3 DEF ShownStateIsLive
  <2> QED BY <1>1, <2>1, <2>2, <2>3 DEF InterruptedTick, QuietTick
<1>10. SentIsCurrent'
  <2>1. SUFFICES ASSUME NothingToTell'
                 PROVE  /\ sent'.window = WindowOf(worker'.snapshot)
                        /\ sent'.foreground = Foreground(worker')
    <3>1. NothingToTell' => (Foreground(worker') => worker'.failing)
      BY <1>1 DEF NothingToTell
    <3> QED BY <3>1 DEF SentIsCurrent
  <2>2. sent.window = WindowOf(worker.snapshot) /\ sent.foreground = Foreground(worker)
    BY <1>0 DEF SentIsCurrent, NothingToTell
  <2>3. CASE sent' = OutputOf(worker', "detecting", FALSE)
    BY <1>2, <2>3
  <2>4. CASE sent' = sent /\ SameTarget(worker, worker')
    BY <2>2, <2>4 DEF SameTarget
  <2>5. CASE QuietTick /\ sent' = sent /\ ~FoundInBackground /\ ~SameTarget(worker, worker')
    <3>1. ~worker'.failing
      BY <2>5 DEF QuietTick
    <3>2. worker'.at = "tick"
      BY <1>1, <2>1, <3>1 DEF NothingToTell
    <3>3. ~Foreground(worker')
      BY <1>1, <3>2
    <3>4. ~Interrupts(worker, worker')
      BY <2>5 DEF QuietTick
    <3>5. CASE worker'.snapshot = None
      <4>1. worker.snapshot = None
        BY <3>4, <3>5 DEF Interrupts
      <4> QED BY <2>5, <3>5, <4>1 DEF SameTarget, Foreground
    <3>6. CASE worker'.snapshot # None
      <4>1. worker.snapshot # None
        BY <2>5, <3>3, <3>6 DEF FoundInBackground
      <4>2. WindowOf(worker.snapshot) = WindowOf(worker'.snapshot)
        BY <3>4, <3>6, <4>1 DEF Interrupts, TargetChanged
      <4>3. ~Foreground(worker)
        BY <3>3, <3>4, <3>6 DEF Interrupts
      <4>4. Foreground(worker) = Foreground(worker')
        BY <3>3, <4>3 DEF Foreground
      <4> QED BY <2>5, <4>2, <4>4 DEF SameTarget
    <3> QED BY <3>5, <3>6
  <2>6. SameTarget(worker, worker') \/ ~SameTarget(worker, worker')
    OBVIOUS
  <2> QED BY <1>1, <2>3, <2>4, <2>5, <2>6 DEF InterruptedTick, QuietTick
<1> QED BY <1>3, <1>4, <1>5, <1>6, <1>7, <1>8, <1>9, <1>10 DEF Sound

(* A capture that failed, or a target the engine did not take. *)
LEMMA ErrorSound ==
  ASSUME Sound, worker.at \in {"target", "capture"}, Erred(engine'.status),
         UNCHANGED <<env, tracker>>,
         engine' \in Engine, engine'.window \in {None, WindowOf(worker.snapshot)},
         engine'.status # "ok" => engine'.window = None,
         ~Linux => engine' = engine
  PROVE  Sound'
<1>0. /\ TypeOK /\ Usable /\ Bound /\ FailureTold /\ ShownStateIsLive /\ SentIsCurrent
      /\ worker \in Worker /\ sent \in Output
  BY DEF Sound, TypeOK
<1>1. /\ worker' \in Worker
      /\ worker'.snapshot = worker.snapshot /\ Foreground(worker') = Foreground(worker)
      /\ pipe' = {}
      /\ worker'.at \in {"stopped", "tracker", "tick"}
      /\ worker'.at = "tick" => engine'.status \notin {"lost", "fatal"}
  BY DEF Erred
<1>2. \E fatal \in BOOLEAN :
        \/ sent' = OutputOf(worker', "detecting", fatal)
        \/ sent' = sent /\ worker.failing /\ worker'.failing
  BY DEF Erred
<1>3. PICK fatal \in BOOLEAN :
        \/ sent' = OutputOf(worker', "detecting", fatal)
        \/ sent' = sent /\ worker.failing /\ worker'.failing
  BY <1>2
<1>4. /\ OutputOf(worker', "detecting", fatal) \in Output
      /\ OutputOf(worker', "detecting", fatal).kind = "detecting"
      /\ OutputOf(worker', "detecting", fatal).rect = SizeOf(worker'.snapshot)
      /\ Linux => /\ OutputOf(worker', "detecting", fatal).window = WindowOf(worker'.snapshot)
                  /\ OutputOf(worker', "detecting", fatal).foreground = Foreground(worker')
  BY <1>1, OutputType
<1>5. sent' \in Output /\ sent'.kind = "detecting"
  BY <1>0, <1>3, <1>4 DEF FailureTold
<1>6. TypeOK'
  BY <1>0, <1>1, <1>5 DEF TypeOK, env
<1>7. Usable'
  <2>1. engine'.status \in {"ok", "lost", "fatal"}
    BY DEF Engine
  <2> QED BY <1>0, <1>1, <2>1 DEF Usable, FoundIncapable, env
<1>8. Bound'
  BY <1>0, <1>1 DEF Bound, env, Linux
<1>9. CapturesForeground' /\ HistoryOfSnapshot' /\ FailureTold' /\ ShownStateIsLive'
  BY <1>1, <1>5 DEF CapturesForeground, HistoryOfSnapshot, FailureTold, ShownStateIsLive
<1>10. SentIsCurrent'
  <2>1. CASE sent' = OutputOf(worker', "detecting", fatal)
    BY <1>4, <2>1 DEF SentIsCurrent, env, Linux
  <2>2. CASE sent' = sent /\ worker.failing /\ worker'.failing
    <3>1. NothingToTell
      BY <2>2 DEF NothingToTell
    <3> QED BY <1>0, <1>1, <2>2, <3>1 DEF SentIsCurrent, env, Linux
  <2> QED BY <1>3, <2>1, <2>2
<1> QED BY <1>6, <1>7, <1>8, <1>9, <1>10 DEF Sound

(* A frame of the worker's target. *)
LEMMA FrameSound ==
  ASSUME Sound, worker.at = "capture", NEW target \in Target, Frame(worker, target),
         target.window = WindowOf(worker.snapshot),
         ~Linux => target = worker.snapshot /\ engine' = engine,
         UNCHANGED <<env, tracker>>,
         engine' \in Engine, engine'.status = "ok",
         engine'.window \in {None, WindowOf(worker.snapshot)}
  PROVE  Sound'
<1>0. /\ TypeOK /\ Usable /\ Bound /\ CapturesForeground /\ HistoryOfSnapshot
      /\ worker \in Worker
  BY DEF Sound, TypeOK
<1>1. /\ worker' \in Worker /\ worker'.snapshot = worker.snapshot
      /\ worker'.policy = worker.policy /\ worker'.at = "tick" /\ worker'.failing = FALSE
      /\ pipe' = pipe \cup {target}
  BY <1>0 DEF Frame, Succeeded, Worker
<1>2. Foreground(worker') = Foreground(worker)
  BY <1>1 DEF Foreground
<1>3. sent' = OutputOf(worker, "frame", FALSE)
  BY DEF Frame
<1>4. /\ sent' \in Output /\ sent'.rect = SizeOf(worker.snapshot)
      /\ Linux => /\ sent'.window = WindowOf(worker.snapshot)
                  /\ sent'.foreground = Foreground(worker)
  BY <1>0, <1>3, OutputType
<1>5. TypeOK'
  BY <1>0, <1>1, <1>4 DEF TypeOK, env
<1>6. Usable'
  BY <1>0, <1>1 DEF Usable, FoundIncapable, env
<1>7. Bound'
  BY <1>0, <1>1 DEF Bound, env, Linux
<1>8. CapturesForeground' /\ FailureTold' /\ ShownStateIsLive'
  BY <1>1 DEF CapturesForeground, FailureTold, ShownStateIsLive
<1>9. HistoryOfSnapshot'
  <2>1. worker.snapshot # None
    BY <1>0 DEF CapturesForeground, Foreground
  <2>2. target.window = worker.snapshot.window
    BY <2>1 DEF WindowOf
  <2>3. platform = "windows" => target = worker.snapshot
    BY <1>0, WindowsOrLinux
  <2> QED BY <1>0, <1>1, <2>1, <2>2, <2>3 DEF HistoryOfSnapshot, env
<1>10. SentIsCurrent'
  BY <1>1, <1>2, <1>4 DEF SentIsCurrent, env, Linux
<1> QED BY <1>5, <1>6, <1>7, <1>8, <1>9, <1>10 DEF Sound

---------------------------------------------------------------------------
(* The actions of the worker.                                              *)

LEMMA TickUnaskedSound == ASSUME Sound, TickUnasked PROVE Sound'
<1>0. TypeOK /\ Usable /\ Bound /\ worker \in Worker /\ engine \in Engine
  BY DEF Sound, TypeOK
<1>1. Linux /\ worker.at = "tick" /\ ~worker.due /\ Follow(worker)
  BY DEF TickUnasked
<1>2. UNCHANGED <<env, tracker>> /\ engine' = engine
  BY DEF TickUnasked
<1>3. Followed(worker)
  BY <1>0, <1>1, FollowIs
<1>4. engine.status = "ok"
  BY <1>0, <1>1 DEF Usable
<1>5. engine.window \in {None, WindowOf(worker.snapshot)}
  BY <1>0 DEF Bound
<1> QED BY <1>0, <1>1, <1>2, <1>3, <1>4, <1>5, TickSound

(* The engine after set_target: one that was made unusable stays so. *)
LEMMA SetTargetEngine ==
  ASSUME TypeOK, engine.status = "ok" \/ (engine.status = "fatal" /\ engine.window = None),
         NEW polled \in MayBePolled(engine), NEW window \in Windows \cup {None},
         engine' \in MayBreak(Targeted(polled, window))
  PROVE  /\ engine' \in Engine
         /\ engine'.window \in {None, window}
         /\ engine'.status # "ok" => engine'.window = None
         /\ engine'.status = "fatal" => engine.status = "fatal" \/ Connected(engine.connection)
<1>1. engine \in Engine
  BY DEF TypeOK
<1>2. /\ polled \in Engine /\ polled.status = engine.status
      /\ polled.connection = engine.connection /\ polled.window \in {None, engine.window}
  BY <1>1, PolledConfined
<1>3. CASE engine.status = "ok"
  <2> DEFINE targeted == Targeted(polled, window)
  <2>1. /\ targeted \in Engine
        /\ targeted.window \in {None, window}
        /\ targeted.status # "ok" => targeted.window = None
        /\ targeted.status \in {"ok", "fatal"} => Connected(engine.connection)
    BY <1>2, <1>3, TargetedConfined
  <2>2. engine' \in MayBreak(targeted)
    OBVIOUS
  <2> HIDE DEF targeted
  <2> QED BY <2>1, <2>2, BrokenConfined
<1>4. CASE engine.status = "fatal" /\ engine.window = None
  <2>1. Targeted(polled, window) = polled
    BY <1>2, <1>4 DEF Targeted
  <2>2. engine' = polled
    BY <1>2, <1>4, <2>1 DEF MayBreak
  <2> QED BY <1>2, <1>4, <2>2
<1> QED BY <1>3, <1>4

LEMMA SetTargetSound == ASSUME Sound, SetTarget PROVE Sound'
<1>0. TypeOK /\ Usable /\ Bound /\ worker \in Worker /\ engine \in Engine
  BY DEF Sound, TypeOK
<1>1. worker.at = "target" /\ UNCHANGED <<env, tracker>>
  BY DEF SetTarget
<1>2. PICK polled \in MayBePolled(engine) :
        /\ engine' \in MayBreak(Targeted(polled, WindowOf(worker.seen)))
        /\ IF engine'.status = "ok"
             THEN Follow([worker EXCEPT !.snapshot = worker.seen, !.due = FALSE])
             ELSE HandleError([worker EXCEPT !.seen = None], engine')
  BY DEF SetTarget
<1>3. Linux /\ (engine.status = "ok" \/ (engine.status = "fatal" /\ engine.window = None))
  BY <1>0, <1>1 DEF Usable, FoundIncapable, Bound
<1>4. worker.seen \in Target \cup {None} /\ WindowOf(worker.seen) \in Windows \cup {None}
  BY <1>0, WindowType DEF Worker
<1>5. /\ engine' \in Engine
      /\ engine'.window \in {None, WindowOf(worker.seen)}
      /\ engine'.status # "ok" => engine'.window = None
  BY <1>0, <1>2, <1>3, <1>4, SetTargetEngine
<1>6. CASE engine'.status = "ok"
  <2> DEFINE w == [worker EXCEPT !.snapshot = worker.seen, !.due = FALSE]
  <2>1. w \in Worker /\ w.snapshot = worker.seen /\ w.failing = worker.failing
    BY <1>0, <1>4 DEF Worker
  <2>2. Follow(w)
    BY <1>2, <1>6
  <2> HIDE DEF w
  <2>3. Followed(w)
    BY <1>0, <2>1, <2>2, FollowIs
  <2> QED BY <1>1, <1>3, <1>5, <1>6, <2>1, <2>3, TickSound
<1>7. CASE engine'.status # "ok"
  <2> DEFINE w == [worker EXCEPT !.seen = None]
  <2>1. /\ w \in Worker /\ w.snapshot = worker.snapshot
        /\ w.policy = worker.policy /\ w.failing = worker.failing
    BY <1>0 DEF Worker
  <2>2. HandleError(w, engine')
    BY <1>2, <1>7
  <2> HIDE DEF w
  <2>3. Erred(engine'.status)
    BY <2>1, <2>2, HandleErrorIs
  <2> QED BY <1>1, <1>3, <1>5, <1>7, <2>3, ErrorSound
<1> QED BY <1>6, <1>7

(* The engine after a capture. *)
LEMMA CaptureEngine ==
  ASSUME TypeOK, engine.status = "ok", NEW polled \in MayBePolled(engine),
         engine' \in MayBreak(Captured(polled))
  PROVE  /\ engine' \in Engine
         /\ engine'.window \in {None, engine.window}
         /\ engine'.status # "ok" => engine'.window = None
         /\ engine'.status = "fatal" => Connected(engine.connection)
         /\ HasFrame(engine') => [window |-> engine'.window, size |-> engine'.buffer] \in Target
<1>1. engine \in Engine
  BY DEF TypeOK
<1>2. /\ polled \in Engine /\ polled.status = "ok" /\ polled.window \in {None, engine.window}
      /\ polled.connection = engine.connection
  BY <1>1, PolledConfined
<1> DEFINE captured == Captured(polled)
<1>3. /\ captured \in Engine
      /\ captured.window \in {None, engine.window}
      /\ captured.status # "ok" => captured.window = None
      /\ captured.status \in {"ok", "fatal"} => Connected(engine.connection)
      /\ HasFrame(captured) => [window |-> captured.window, size |-> captured.buffer] \in Target
  BY <1>2, CapturedConfined DEF Confined
<1>4. engine' \in MayBreak(captured)
  OBVIOUS
<1> HIDE DEF captured
<1> QED BY <1>3, <1>4, BrokenConfined DEF HasFrame

LEMMA CaptureLinuxSound == ASSUME Sound, CaptureLinux PROVE Sound'
<1>0. TypeOK /\ Usable /\ Bound /\ worker \in Worker
  BY DEF Sound, TypeOK
<1>1. Linux /\ worker.at = "capture" /\ UNCHANGED <<env, tracker>>
  BY DEF CaptureLinux
<1>2. PICK polled \in MayBePolled(engine) :
        /\ engine' \in MayBreak(Captured(polled))
        /\ IF HasFrame(engine')
             THEN Frame(worker, [window |-> engine'.window, size |-> engine'.buffer])
             ELSE HandleError(worker, engine')
  BY DEF CaptureLinux
<1>3. engine.status = "ok" /\ engine.window \in {None, WindowOf(worker.snapshot)}
  BY <1>0, <1>1 DEF Usable, Bound
<1>4. /\ engine' \in Engine
      /\ engine'.window \in {None, WindowOf(worker.snapshot)}
      /\ engine'.status # "ok" => engine'.window = None
      /\ HasFrame(engine') => [window |-> engine'.window, size |-> engine'.buffer] \in Target
  BY <1>0, <1>2, <1>3, CaptureEngine
<1>5. CASE HasFrame(engine')
  <2> DEFINE target == [window |-> engine'.window, size |-> engine'.buffer]
  <2>1. target \in Target /\ target.window = engine'.window
    BY <1>4, <1>5
  <2>2. Frame(worker, target)
    BY <1>2, <1>5
  <2> HIDE DEF target
  <2>3. target.window # None
    BY <2>1, WindowAssumption DEF Target
  <2>4. target.window = WindowOf(worker.snapshot)
    BY <1>4, <2>1, <2>3
  <2>5. engine'.status = "ok"
    BY <1>5 DEF HasFrame
  <2> QED BY <1>1, <1>4, <2>1, <2>2, <2>4, <2>5, FrameSound
<1>6. CASE ~HasFrame(engine')
  <2>1. Erred(engine'.status)
    BY <1>0, <1>2, <1>6, HandleErrorIs
  <2> QED BY <1>1, <1>4, <2>1, ErrorSound
<1> QED BY <1>5, <1>6

LEMMA CaptureWindowsSound == ASSUME Sound, CaptureWindows PROVE Sound'
<1>0. /\ TypeOK /\ Bound /\ CapturesForeground /\ worker \in Worker /\ engine \in Engine
  BY DEF Sound, TypeOK
<1>1. /\ ~Linux /\ worker.at = "capture" /\ UNCHANGED <<env, tracker>> /\ engine' = engine
      /\ Frame(worker, worker.snapshot) \/ HandleError(worker, engine)
  BY DEF CaptureWindows, Linux
<1>2. engine.status = "ok" /\ engine.window = None
  BY <1>0, <1>1 DEF Bound
<1>3. worker.snapshot \in Target /\ worker.snapshot.window = WindowOf(worker.snapshot)
  BY <1>0, <1>1 DEF CapturesForeground, Foreground, Worker, WindowOf
<1>4. CASE Frame(worker, worker.snapshot)
  BY <1>0, <1>1, <1>2, <1>3, <1>4, FrameSound
<1>5. CASE HandleError(worker, engine)
  <2>1. Erred(engine'.status)
    BY <1>0, <1>1, <1>5, HandleErrorIs
  <2> QED BY <1>0, <1>1, <1>2, <2>1, ErrorSound
<1> QED BY <1>1, <1>4, <1>5

LEMMA LookWindowsSound == ASSUME Sound, LookWindows PROVE Sound'
<1>0. /\ TypeOK /\ Usable /\ Bound /\ HistoryOfSnapshot /\ FailureTold /\ ShownStateIsLive
      /\ worker \in Worker /\ sent \in Output
  BY DEF Sound, TypeOK
<1> DEFINE seen == IF worker.due THEN SeenTarget ELSE worker.snapshot
           focused == IF worker.due THEN SeenFocus ELSE worker.policy = "focused"
           policy == IF seen # None /\ focused THEN "focused" ELSE "out"
           now == [worker EXCEPT !.snapshot = seen, !.due = FALSE, !.policy = policy]
           closed == seen # worker.snapshot \/ (Foreground(worker) /\ ~Foreground(now))
           told == IF worker.snapshot = None THEN seen # None /\ ~Foreground(now) ELSE closed
           at == IF Foreground(now) THEN "capture" ELSE "tick"
<1>1. /\ platform = "windows" /\ worker.at = "tick"
      /\ pipe' = IF closed \/ seen = None THEN {} ELSE pipe
      /\ sent' = IF told THEN OutputOf(now, "detecting", FALSE) ELSE sent
      /\ worker' = [now EXCEPT !.at = at]
      /\ UNCHANGED <<env, tracker, engine>>
  BY DEF LookWindows
<1>2. seen \in Target \cup {None} /\ policy \in Policy
  BY <1>0, SeenTargetType DEF Worker, Policy
<1> HIDE DEF seen, focused, policy
<1>3. now \in Worker /\ now.snapshot = seen /\ now.failing = worker.failing
  BY <1>0, <1>2 DEF Worker
<1> HIDE DEF now
<1>4. /\ worker' \in Worker /\ worker'.snapshot = seen /\ worker'.policy = now.policy
      /\ worker'.failing = worker.failing
      /\ worker'.at = IF Foreground(now) THEN "capture" ELSE "tick"
  BY <1>1, <1>3 DEF Worker
<1>5. Foreground(worker') = Foreground(now)
  BY <1>3, <1>4 DEF Foreground
<1>6. /\ OutputOf(now, "detecting", FALSE) \in Output
      /\ OutputOf(now, "detecting", FALSE).kind = "detecting"
  BY <1>3, OutputType
<1>7. ~Linux /\ UNCHANGED platform
  BY <1>1 DEF Linux, env
<1>8. TypeOK'
  <2>1. pipe' \subseteq Target /\ sent' \in Output
    BY <1>0, <1>1, <1>6 DEF TypeOK
  <2> QED BY <1>0, <1>1, <1>4, <2>1 DEF TypeOK, env
<1>9. Usable' /\ Bound'
  BY <1>0, <1>1, <1>4, <1>7 DEF Usable, FoundIncapable, Bound, env, Linux
<1>10. CapturesForeground'
  BY <1>4, <1>5 DEF CapturesForeground
<1>11. HistoryOfSnapshot'
  BY <1>0, <1>1, <1>4 DEF HistoryOfSnapshot
<1>12. FailureTold'
  BY <1>0, <1>1, <1>4, <1>6 DEF FailureTold
<1>13. ShownStateIsLive'
  <2>1. CASE told
    BY <1>1, <1>6, <2>1 DEF ShownStateIsLive
  <2>2. CASE ~told /\ worker.snapshot = None
    BY <1>0, <1>1, <2>2 DEF HistoryOfSnapshot, ShownStateIsLive
  <2>3. CASE ~told /\ worker.snapshot # None
    BY <1>0, <1>1, <2>3 DEF ShownStateIsLive
  <2> QED BY <2>1, <2>2, <2>3
<1>14. SentIsCurrent'
  BY <1>7 DEF SentIsCurrent, Linux
<1> QED BY <1>8, <1>9, <1>10, <1>11, <1>12, <1>13, <1>14 DEF Sound

(* Steps that leave the target, the pipeline and the GUI as they are. *)
LEMMA NothingToldSound ==
  ASSUME Sound, UNCHANGED <<platform, pipe, sent>>, TypeOK', Usable', Bound',
         worker'.snapshot = worker.snapshot, worker'.policy = worker.policy,
         worker'.failing = worker.failing,
         worker'.at = "capture" => worker.at = "capture",
         NothingToTell' => NothingToTell
  PROVE  Sound'
<1>1. Foreground(worker') = Foreground(worker)
  BY DEF Foreground
<1>2. CapturesForeground'
  BY <1>1 DEF Sound, CapturesForeground
<1>3. HistoryOfSnapshot' /\ FailureTold' /\ ShownStateIsLive'
  BY DEF Sound, HistoryOfSnapshot, FailureTold, ShownStateIsLive
<1>4. SentIsCurrent'
  BY <1>1 DEF Sound, SentIsCurrent, Linux
<1> QED BY <1>2, <1>3, <1>4 DEF Sound

LEMMA OpenTrackerSound == ASSUME Sound, OpenTracker PROVE Sound'
<1>0. TypeOK /\ Usable /\ Bound /\ worker \in Worker
  BY DEF Sound, TypeOK
<1>1. /\ worker.at = "tracker" /\ tracker' = NewTracker
      /\ worker' = [worker EXCEPT !.at = "engine"]
      /\ UNCHANGED <<env, engine, pipe, sent>>
  BY DEF OpenTracker
<1>2. /\ worker' \in Worker /\ worker'.snapshot = worker.snapshot
      /\ worker'.policy = worker.policy /\ worker'.failing = worker.failing
      /\ worker'.at = "engine"
  BY <1>0, <1>1 DEF Worker
<1>3. server.start \in 1..MaxServer
  BY <1>0 DEF TypeOK
<1>4. tracker' \in 0..MaxServer /\ tracker' <= server.start
  BY <1>1, <1>3, ServerAssumption DEF NewTracker
<1>5. TypeOK'
  BY <1>0, <1>1, <1>2, <1>4 DEF TypeOK, env
<1>6. Usable' /\ Bound'
  BY <1>0, <1>1, <1>2, <1>4 DEF Usable, FoundIncapable, Bound, env, Linux
<1>7. NothingToTell
  BY <1>1 DEF NothingToTell
<1> QED BY <1>1, <1>2, <1>5, <1>6, <1>7, NothingToldSound DEF env

LEMMA OpenEngineSound == ASSUME Sound, OpenEngine PROVE Sound'
<1>0. TypeOK /\ Usable /\ Bound /\ worker \in Worker
  BY DEF Sound, TypeOK
<1> DEFINE start == IF server.running THEN server.start ELSE 0
<1>1. PICK status \in InitialStatus :
        engine' = [connection |-> start, status |-> status, window |-> None, buffer |-> None]
  BY DEF OpenEngine
<1>2. /\ worker.at = "engine"
      /\ worker' = [worker EXCEPT !.at = "tick", !.due = TRUE]
      /\ UNCHANGED <<env, tracker, pipe, sent>>
  BY DEF OpenEngine, NewWorker
<1>3. /\ worker' \in Worker /\ worker'.snapshot = worker.snapshot
      /\ worker'.policy = worker.policy /\ worker'.failing = worker.failing
      /\ worker'.at = "tick" /\ worker'.due = TRUE
  BY <1>0, <1>2 DEF Worker
<1>4. /\ server.start \in 1..MaxServer /\ tracker \in 0..MaxServer
      /\ start \in 0..MaxServer /\ (start = server.start \/ ~server.running)
  BY <1>0, ServerAssumption DEF TypeOK
<1>5. status \in {"ok", "fatal"} /\ (~Linux => status = "ok")
  BY DEF InitialStatus
<1> HIDE DEF start
<1>6. /\ engine' \in Engine /\ engine'.window = None
      /\ engine'.status = status /\ engine'.connection = start
  BY <1>1, <1>4, <1>5 DEF Engine
<1>7. TypeOK'
  BY <1>0, <1>2, <1>3, <1>6 DEF TypeOK, env
<1>8. tracker = server.start \/ tracker < server.start
  BY <1>0, <1>4, ServerAssumption DEF Usable
<1>9. server.start # 0
  BY <1>4
<1>10. Usable'
  BY <1>0, <1>2, <1>3, <1>4, <1>5, <1>6, <1>8, <1>9 DEF Usable, FoundIncapable, env
<1>11. Bound'
  BY <1>2, <1>3, <1>5, <1>6 DEF Bound, env, Linux
<1>12. NothingToTell
  BY <1>2 DEF NothingToTell
<1> QED BY <1>2, <1>3, <1>7, <1>10, <1>11, <1>12, NothingToldSound DEF env

LEMMA QueryTrackerSound == ASSUME Sound, QueryTracker PROVE Sound'
<1>0. TypeOK /\ Usable /\ Bound /\ worker \in Worker
  BY DEF Sound, TypeOK
<1>1. Linux /\ worker.at = "tick" /\ worker.due /\ UNCHANGED <<env, tracker, engine>>
  BY DEF QueryTracker
<1>2. CASE Connected(tracker)
  <2>1. /\ worker' = [worker EXCEPT !.at = "target", !.seen = SeenTarget, !.focused = SeenFocus]
        /\ UNCHANGED <<pipe, sent>>
    BY <1>2 DEF QueryTracker, NothingTold
  <2>2. SeenTarget \in Target \cup {None} /\ SeenFocus \in BOOLEAN
    BY <1>0, SeenTargetType
  <2>3. /\ worker' \in Worker /\ worker'.snapshot = worker.snapshot
        /\ worker'.policy = worker.policy /\ worker'.failing = worker.failing
        /\ worker'.at = "target"
    BY <1>0, <2>1, <2>2 DEF Worker
  <2>4. engine.status = "ok" \/ FoundIncapable
    <3>1. server.running /\ tracker = server.start
      BY <1>2 DEF Connected
    <3>2. tracker \in Nat
      BY <1>0, ServerAssumption DEF TypeOK
    <3>3. ~(tracker < server.start)
      BY <3>1, <3>2
    <3> QED BY <1>0, <1>1, <3>1, <3>3 DEF Usable
  <2>5. TypeOK'
    BY <1>0, <1>1, <2>1, <2>3 DEF TypeOK, env
  <2>6. Usable' /\ Bound'
    BY <1>0, <1>1, <2>3, <2>4 DEF Usable, FoundIncapable, Bound, env, Linux
  <2>7. NothingToTell
    BY <1>1 DEF NothingToTell
  <2> QED BY <1>1, <2>1, <2>3, <2>5, <2>6, <2>7, NothingToldSound DEF env
<1>3. CASE ~Connected(tracker)
  <2>1. /\ worker' = [worker EXCEPT !.at = "tracker"]
        /\ pipe' = {} /\ sent' = OutputOf(worker, "detecting", TRUE)
    BY <1>3 DEF QueryTracker, Fatal
  <2>2. /\ worker' \in Worker /\ worker'.snapshot = worker.snapshot
        /\ worker'.policy = worker.policy /\ worker'.at = "tracker"
    BY <1>0, <2>1 DEF Worker
  <2>3. Foreground(worker') = Foreground(worker)
    BY <2>2 DEF Foreground
  <2>4. /\ sent' \in Output /\ sent'.kind = "detecting"
        /\ sent'.rect = SizeOf(worker.snapshot)
        /\ sent'.window = WindowOf(worker.snapshot) /\ sent'.foreground = Foreground(worker)
    BY <1>0, <1>1, <2>1, OutputType
  <2>5. TypeOK'
    BY <1>0, <1>1, <2>1, <2>2, <2>4 DEF TypeOK, env
  <2>6. Usable' /\ Bound'
    BY <1>0, <1>1, <2>2 DEF Usable, FoundIncapable, Bound, env, Linux
  <2>7. /\ CapturesForeground' /\ HistoryOfSnapshot' /\ FailureTold' /\ ShownStateIsLive'
        /\ SentIsCurrent'
    BY <2>1, <2>2, <2>3, <2>4
       DEF CapturesForeground, HistoryOfSnapshot, FailureTold, ShownStateIsLive, SentIsCurrent
  <2> QED BY <2>5, <2>6, <2>7 DEF Sound
<1> QED BY <1>2, <1>3

LEMMA IntervalEndsSound == ASSUME Sound, IntervalEnds PROVE Sound'
<1>0. TypeOK /\ Usable /\ Bound /\ worker \in Worker
  BY DEF Sound, TypeOK
<1>1. worker' = [worker EXCEPT !.due = TRUE] /\ UNCHANGED <<env, tracker, engine, pipe, sent>>
  BY DEF IntervalEnds
<1>2. /\ worker' \in Worker /\ worker'.snapshot = worker.snapshot
      /\ worker'.policy = worker.policy /\ worker'.failing = worker.failing
      /\ worker'.at = worker.at /\ worker'.due = TRUE
  BY <1>0, <1>1 DEF Worker
<1>3. TypeOK'
  BY <1>0, <1>1, <1>2 DEF TypeOK, env
<1>4. Usable' /\ Bound'
  BY <1>0, <1>1, <1>2 DEF Usable, FoundIncapable, Bound, env, Linux
<1>5. NothingToTell' => NothingToTell
  BY <1>2 DEF NothingToTell
<1> QED BY <1>1, <1>2, <1>3, <1>4, <1>5, NothingToldSound DEF env

---------------------------------------------------------------------------
(* The desktop: nothing of the worker changes. *)

LEMMA DesktopStepSound ==
  ASSUME Sound, UNCHANGED <<platform, tracker, engine, worker, pipe, sent>>,
         TypeOK', Usable'
  PROVE  Sound'
<1>1. Bound'
  BY DEF Sound, Bound, Linux
<1>2. NothingToTell' => NothingToTell
  BY DEF NothingToTell
<1> QED BY <1>1, <1>2, NothingToldSound

LEMMA DesktopSound ==
  ASSUME Sound, ServerStops \/ ServerStarts \/ DesktopChanges \/ ToplevelChanges
  PROVE  Sound'
<1>0. TypeOK /\ Usable
  BY DEF Sound
<1>1. CASE ServerStops
  <2>1. /\ server' = [server EXCEPT !.running = FALSE] /\ desktop' = None
        /\ UNCHANGED <<platform, toplevel, tracker, engine, worker, pipe, sent>>
    BY <1>1 DEF ServerStops
  <2>2. /\ server' \in [start : 1..MaxServer, running : BOOLEAN]
        /\ server'.start = server.start /\ ~server'.running
    BY <1>0, <2>1 DEF TypeOK
  <2>3. TypeOK' /\ Usable'
    BY <1>0, <2>1, <2>2 DEF TypeOK, Usable, FoundIncapable
  <2> QED BY <2>1, <2>3, DesktopStepSound
<1>2. CASE ServerStarts
  <2>1. /\ server.start < MaxServer
        /\ server' = [start |-> server.start + 1, running |-> TRUE]
        /\ UNCHANGED <<platform, desktop, toplevel, tracker, engine, worker, pipe, sent>>
    BY <1>2 DEF ServerStarts
  <2>2. server.start \in Nat /\ tracker \in Nat /\ server.start + 1 \in 1..MaxServer
    BY <1>0, <2>1, ServerAssumption DEF TypeOK
  <2>3. /\ server' \in [start : 1..MaxServer, running : BOOLEAN]
        /\ server'.start = server.start + 1
    BY <2>1, <2>2
  <2>4. TypeOK'
    BY <1>0, <2>1, <2>3 DEF TypeOK
  <2>5. tracker < server'.start
    BY <1>0, <2>2, <2>3 DEF Usable
  <2>6. Usable'
    BY <1>0, <2>1, <2>2, <2>3, <2>5 DEF Usable, FoundIncapable
  <2> QED BY <2>1, <2>4, <2>6, DesktopStepSound
<1>3. CASE DesktopChanges
  <2>1. UNCHANGED <<platform, server, toplevel, tracker, engine, worker, pipe, sent>>
    BY <1>3 DEF DesktopChanges
  <2>2. desktop' \in Desktop \cup {None}
    <3>1. CASE desktop = None
      BY <1>3, <3>1 DEF DesktopChanges
    <3>2. CASE desktop # None
      <4>1. desktop \in Desktop
        BY <1>0, <3>2 DEF TypeOK
      <4>2. \/ desktop' = None
            \/ \E size \in Sizes : desktop' = [desktop EXCEPT !.size = size]
            \/ desktop' = [desktop EXCEPT !.focused = ~desktop.focused]
            \/ desktop' = [desktop EXCEPT !.mapped = ~desktop.mapped]
        BY <1>3, <3>2 DEF DesktopChanges
      <4> QED BY <4>1, <4>2 DEF Desktop
    <3> QED BY <3>1, <3>2
  <2>3. TypeOK' /\ Usable'
    BY <1>0, <2>1, <2>2 DEF TypeOK, Usable, FoundIncapable
  <2> QED BY <2>1, <2>3, DesktopStepSound
<1>4. CASE ToplevelChanges
  <2>1. /\ toplevel' = ~toplevel
        /\ UNCHANGED <<platform, server, desktop, tracker, engine, worker, pipe, sent>>
    BY <1>4 DEF ToplevelChanges
  <2>2. TypeOK' /\ Usable'
    BY <1>0, <2>1 DEF TypeOK, Usable, FoundIncapable
  <2> QED BY <2>1, <2>2, DesktopStepSound
<1> QED BY <1>1, <1>2, <1>3, <1>4

---------------------------------------------------------------------------
(* The theorems.                                                           *)

LEMMA InitSound == ASSUME Init PROVE Sound
<1>1. worker = [at |-> "tracker", due |-> TRUE, seen |-> None, focused |-> FALSE,
                snapshot |-> None, policy |-> "out", failing |-> FALSE]
  BY DEF Init
<1>2. /\ worker \in Worker /\ worker.at = "tracker" /\ worker.snapshot = None
      /\ ~worker.failing
  BY <1>1 DEF Worker, Policy
<1>3. engine = [connection |-> 0, status |-> "ok", window |-> None, buffer |-> None]
  BY DEF Init
<1>4. engine \in Engine /\ engine.status = "ok" /\ engine.window = None
  BY <1>3, ServerAssumption DEF Engine
<1>5. sent = OutputOf(worker, "detecting", FALSE)
  BY DEF Init
<1>6. /\ sent \in Output /\ sent.kind = "detecting" /\ sent.rect = SizeOf(worker.snapshot)
      /\ Linux => /\ sent.window = WindowOf(worker.snapshot)
                  /\ sent.foreground = Foreground(worker)
  BY <1>2, <1>5, OutputType
<1>7. /\ platform \in Platforms /\ server = [start |-> 1, running |-> TRUE]
      /\ desktop = None /\ toplevel = FALSE /\ tracker = 0 /\ pipe = {}
  BY DEF Init
<1>8. 1 \in 1..MaxServer /\ 0 \in 0..MaxServer
  BY ServerAssumption
<1>9. TypeOK
  BY <1>2, <1>4, <1>6, <1>7, <1>8 DEF TypeOK
<1>10. Usable /\ Bound
  BY <1>2, <1>4, <1>7 DEF Usable, FoundIncapable, Bound
<1>11. /\ CapturesForeground /\ HistoryOfSnapshot /\ FailureTold /\ ShownStateIsLive
       /\ SentIsCurrent
  BY <1>2, <1>6, <1>7
     DEF CapturesForeground, HistoryOfSnapshot, FailureTold, ShownStateIsLive, SentIsCurrent
<1> QED BY <1>9, <1>10, <1>11 DEF Sound

LEMMA NextSound == Sound /\ [Next]_vars => Sound'
<1> SUFFICES ASSUME Sound, [Next]_vars PROVE Sound'
  OBVIOUS
<1>1. CASE WorkerStep
  BY <1>1, OpenTrackerSound, OpenEngineSound, QueryTrackerSound, TickUnaskedSound,
     SetTargetSound, CaptureLinuxSound, LookWindowsSound, CaptureWindowsSound DEF WorkerStep
<1>2. CASE IntervalEnds
  BY <1>2, IntervalEndsSound
<1>3. CASE ServerStops \/ ServerStarts \/ DesktopChanges \/ ToplevelChanges
  BY <1>3, DesktopSound
<1>4. CASE UNCHANGED vars
  <2>1. UNCHANGED <<platform, server, desktop, toplevel, tracker, engine, worker, pipe, sent>>
    BY <1>4 DEF vars, env
  <2>2. TypeOK' /\ Usable'
    BY <2>1 DEF Sound, TypeOK, Usable, FoundIncapable
  <2> QED BY <2>1, <2>2, DesktopStepSound
<1> QED BY <1>1, <1>2, <1>3, <1>4 DEF Next

(* What holds between the steps of a tick always holds. *)
THEOREM Invariance == Spec => []Sound
<1> QED BY InitSound, NextSound, PTL DEF Spec

(* The variables of worker, engine and desktop keep their shapes. *)
THEOREM TypeCorrect == Spec => []TypeOK
<1>1. Sound => TypeOK
  BY DEF Sound
<1> QED BY <1>1, Invariance, PTL

(* The GUI never keeps showing a frame's state after the pipeline was reset *)
(* (detection_worker.rs:737), although a streak of failures is told once.  *)
THEOREM NoDeadResult == Spec => []ShownStateIsLive
<1>1. Sound => ShownStateIsLive
  BY DEF Sound
<1> QED BY <1>1, Invariance, PTL

(* Frames of two windows never meet in the pipeline; on Windows neither do  *)
(* frames of two sizes (on_capture_interrupted, its callers).              *)
THEOREM OneTarget == Spec => []HistoryOfOneTarget
<1>1. Sound => HistoryOfOneTarget
  BY DEF Sound, HistoryOfSnapshot, HistoryOfOneTarget
<1> QED BY <1>1, Invariance, PTL

(* Between ticks the GUI on Linux knows the worker's window and whether it  *)
(* is in the foreground, however often a failure was not told; of a game in *)
(* the foreground it knows the size too, unless a streak of failures lasts. *)
THEOREM TargetIsCurrent == Spec => []ShownTargetIsCurrent
<1>1. Sound => ShownTargetIsCurrent
  BY DEF Sound, SentIsCurrent, NothingToTell, ShownTargetIsCurrent
<1> QED BY <1>1, Invariance, PTL

(* Only a live connection, or the tracker's own server, stops the worker. *)
LEMMA StopIsForGood ==
  ASSUME Sound, [Next]_vars, worker'.at = "stopped", worker.at # "stopped"
  PROVE  (engine.status = "ok" /\ Connected(engine.connection)) \/ FoundIncapable
<1>0. TypeOK /\ Usable /\ Bound /\ worker \in Worker
  BY DEF Sound, TypeOK
<1>1. CASE SetTarget
  <2>1. PICK polled \in MayBePolled(engine) :
          /\ engine' \in MayBreak(Targeted(polled, WindowOf(worker.seen)))
          /\ IF engine'.status = "ok"
               THEN Follow([worker EXCEPT !.snapshot = worker.seen, !.due = FALSE])
               ELSE HandleError([worker EXCEPT !.seen = None], engine')
    BY <1>1 DEF SetTarget
  <2>2. engine.status = "ok" \/ FoundIncapable
    BY <1>0, <1>1 DEF SetTarget, Usable
  <2>3. worker.seen \in Target \cup {None} /\ WindowOf(worker.seen) \in Windows \cup {None}
    BY <1>0, WindowType DEF Worker
  <2>4. engine'.status = "fatal"
    <3>1. CASE engine'.status = "ok"
      <4> DEFINE w == [worker EXCEPT !.snapshot = worker.seen, !.due = FALSE]
      <4>1. w \in Worker /\ w.failing = worker.failing
        BY <1>0, <2>3 DEF Worker
      <4>2. Follow(w)
        BY <2>1, <3>1
      <4> HIDE DEF w
      <4>3. Followed(w)
        BY <1>0, <4>1, <4>2, FollowIs
      <4> QED BY <4>3 DEF Followed
    <3>2. CASE engine'.status # "ok"
      <4> DEFINE w == [worker EXCEPT !.seen = None]
      <4>1. /\ w \in Worker /\ w.snapshot = worker.snapshot
            /\ w.policy = worker.policy /\ w.failing = worker.failing
        BY <1>0 DEF Worker
      <4>2. HandleError(w, engine')
        BY <2>1, <3>2
      <4> HIDE DEF w
      <4>3. Erred(engine'.status)
        BY <4>1, <4>2, HandleErrorIs
      <4> QED BY <4>3 DEF Erred
    <3> QED BY <3>1, <3>2
  <2>5. engine.status = "ok" \/ (engine.status = "fatal" /\ engine.window = None)
    BY <1>0, <2>2 DEF FoundIncapable, Bound
  <2>6. engine.status = "fatal" \/ Connected(engine.connection)
    BY <1>0, <2>1, <2>3, <2>4, <2>5, SetTargetEngine
  <2> QED BY <2>2, <2>6 DEF FoundIncapable
<1>2. CASE CaptureLinux
  <2>1. PICK polled \in MayBePolled(engine) :
          /\ engine' \in MayBreak(Captured(polled))
          /\ IF HasFrame(engine')
               THEN Frame(worker, [window |-> engine'.window, size |-> engine'.buffer])
               ELSE HandleError(worker, engine')
    BY <1>2 DEF CaptureLinux
  <2>2. engine.status = "ok"
    BY <1>0, <1>2 DEF CaptureLinux, Usable
  <2>3. engine'.status = "fatal"
    <3>1. CASE HasFrame(engine')
      BY <1>0, <2>1, <3>1 DEF Frame, Succeeded, Worker
    <3>2. CASE ~HasFrame(engine')
      <4>1. Erred(engine'.status)
        BY <1>0, <2>1, <3>2, HandleErrorIs
      <4> QED BY <4>1 DEF Erred
    <3> QED BY <3>1, <3>2
  <2>4. Connected(engine.connection)
    BY <1>0, <2>1, <2>2, <2>3, CaptureEngine
  <2> QED BY <2>2, <2>4
<1>3. CASE CaptureWindows
  <2>1. ~Linux /\ (Frame(worker, worker.snapshot) \/ HandleError(worker, engine))
    BY <1>3 DEF CaptureWindows, Linux
  <2>2. engine.status = "ok"
    BY <1>0, <2>1 DEF Bound
  <2>3. CASE Frame(worker, worker.snapshot)
    BY <1>0, <2>3 DEF Frame, Succeeded, Worker
  <2>4. CASE HandleError(worker, engine)
    <3>1. Erred(engine.status)
      BY <1>0, <2>4, HandleErrorIs
    <3> QED BY <2>2, <3>1 DEF Erred
  <2> QED BY <2>1, <2>3, <2>4
<1>4. CASE TickUnasked
  <2>1. Followed(worker)
    BY <1>0, <1>4, FollowIs DEF TickUnasked
  <2> QED BY <2>1 DEF Followed
<1>5. CASE LookWindows
  <2>1. \E w, at : worker' = [w EXCEPT !.at = at] /\ at \in {"capture", "tick"} /\ w \in Worker
    <3>1. SeenTarget \in Target \cup {None}
      BY <1>0, SeenTargetType
    <3> DEFINE now == [worker EXCEPT !.snapshot = IF worker.due THEN SeenTarget ELSE worker.snapshot,
                                     !.due = FALSE,
                                     !.policy = IF (IF worker.due THEN SeenTarget ELSE worker.snapshot) # None
                                                   /\ (IF worker.due THEN SeenFocus ELSE worker.policy = "focused")
                                                  THEN "focused" ELSE "out"]
    <3>2. now \in Worker
      BY <1>0, <3>1 DEF Worker, Policy
    <3>3. worker' = [now EXCEPT !.at = IF Foreground(now) THEN "capture" ELSE "tick"]
      BY <1>5 DEF LookWindows
    <3> HIDE DEF now
    <3> QED BY <3>2, <3>3
  <2> QED BY <2>1 DEF Worker
<1>6. CASE OpenTracker \/ OpenEngine \/ QueryTracker \/ IntervalEnds
  BY <1>0, <1>6 DEF OpenTracker, OpenEngine, NewWorker, QueryTracker, IntervalEnds, Worker
<1>7. CASE UNCHANGED worker
  BY <1>7
<1>8. ServerStops \/ ServerStarts \/ DesktopChanges \/ ToplevelChanges \/ UNCHANGED vars
        => UNCHANGED worker
  BY DEF ServerStops, ServerStarts, DesktopChanges, ToplevelChanges, vars
<1> QED BY <1>1, <1>2, <1>3, <1>4, <1>5, <1>6, <1>7, <1>8 DEF Next, WorkerStep

(* The worker ends for good only over a request that fails on a live        *)
(* connection, or over an engine that found the tracker's own server        *)
(* incapable: one that was away, or replaced, between any two steps never   *)
(* ends it (linux.rs, error_action).                                       *)
THEOREM StopsForGood == Spec => StopsOnlyForGood
<1>1. Sound /\ [Next]_vars =>
        [worker'.at = "stopped" /\ worker.at # "stopped" =>
           \/ engine.status = "ok" /\ Connected(engine.connection)
           \/ engine.status = "fatal" /\ tracker # 0 /\ engine.connection = tracker]_vars
  BY StopIsForGood DEF FoundIncapable
<1> QED BY <1>1, Invariance, PTL DEF Spec, StopsOnlyForGood
============================================================================
