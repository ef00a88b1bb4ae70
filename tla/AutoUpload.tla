---------------------------- MODULE AutoUpload ----------------------------
(***************************************************************************)
(* The V-Archive auto-upload scheduler (overmax_runtime auto_upload.rs)    *)
(* as the egui frame drives it (tick_auto_upload in native_app.rs).        *)
(*                                                                         *)
(* One Frame step is one UI frame: the detection outputs received since    *)
(* the last frame have been drained, so the frame sees one session, which  *)
(* may be any number of detection steps away from the previous one.  Time  *)
(* is counted in units; a frame lets 0 or 1 units pass.                    *)
(***************************************************************************)
EXTENDS Integers

CONSTANTS
  Ctx,           \* stable play contexts (song, mode, difficulty, rate, max combo)
  MaxComboCtx,   \* those whose is_max_combo is set
  NoCtx,         \* no context
  NoPending,     \* no upload is waiting
  Delays,        \* the delay_sec values the settings allow
  ResultWait,    \* RESULT_MAX_COMBO_WAIT
  Horizon,       \* bound on timers: no delay is longer, so none need count on
  Scopes         \* the auto-upload scopes the user may choose

ASSUME CtxAssumption == /\ NoCtx \notin Ctx
                        /\ MaxComboCtx \subseteq Ctx
ASSUME DelayAssumption == /\ Delays \subseteq Nat
                          /\ ResultWait \in Nat \ {0}
                          /\ Horizon \in Nat
                          /\ \A d \in Delays \cup {ResultWait} : d <= Horizon
ASSUME ScopeAssumption == Scopes \subseteq {"result_only", "select_and_result"}

Scene == {"Select", "Result", "Other"}

PendingUpload == [snapshot : Ctx, isResult : BOOLEAN, waited : Nat,
                  delay : Nat, interrupted : BOOLEAN]

ASSUME PendingAssumption == NoPending \notin PendingUpload

Setting == [enabled : BOOLEAN, scope : Scopes, delaySec : Delays,
            account : BOOLEAN]

(* A session is stable only on a screen that shows records. *)
Session == {s \in [scene : Scene, stable : Ctx \cup {NoCtx}] :
              s.scene = "Other" => s.stable = NoCtx}

VARIABLES
  settings,   \* the auto-upload settings and whether an account is configured
  session,    \* the scene and stable context of the last frame
  uploadNeeded, \* overlay_upload_needed: the cached comparison with V-Archive
  pending,    \* AutoUploadScheduler::pending
  lastFired,  \* AutoUploadScheduler::last_fired
  fired,      \* what tick handed out in the last frame
  quiet,      \* history: time the session has shown its stable value for
  sent,       \* history: the value fired last, never cleared
  moved,      \* history: a frame since then showed another stable value
  carried,    \* history: the result screen shows the value select showed
  owed        \* history: the value this result screen owes an upload

code == <<settings, session, uploadNeeded, pending, lastFired, fired>>
history == <<quiet, sent, moved, carried, owed>>
vars == <<code, history>>

Least(a, b) == IF a < b THEN a ELSE b

EffectiveDelay(isResult, c) ==
  IF settings.delaySec = 0 /\ isResult /\ c \notin MaxComboCtx
    THEN ResultWait
    ELSE settings.delaySec

IsResult(s) == s.scene = "Result"

InScope(s) == \/ IsResult(s)
              \/ settings.scope = "select_and_result" /\ s.scene = "Select"

(* last_fired after it has seen the session: another stable value clears it. *)
Cleared(s) == IF s.stable \notin {NoCtx, lastFired} THEN NoCtx ELSE lastFired

IsCandidate(s, eligible) ==
  /\ s.stable # NoCtx
  /\ InScope(s)
  /\ eligible
  /\ Cleared(s) # s.stable

(* Mistake: what was handed out is not remembered. *)
FireUnrecorded(c) == /\ fired' = c
                     /\ pending' = NoPending
                     /\ UNCHANGED lastFired

Fire(c) == /\ fired' = c
           /\ lastFired' = c
           /\ pending' = NoPending

Wait(p, s) == /\ pending' = p
              /\ fired' = NoCtx
              /\ lastFired' = Cleared(s)

(* The end of tick: a value whose delay has passed is handed out. *)
FireWhenDue(p, s) == IF p.waited >= p.delay THEN Fire(p.snapshot) ELSE Wait(p, s)

(* Mistake: the wait counts from the last frame, not from its start. *)
ElapsedSinceFrame(p, dt) == [p EXCEPT !.waited = dt]

Elapsed(p, dt) == [p EXCEPT !.waited = Least(@ + dt, Horizon)]

NewPending(s) ==
  [snapshot |-> s.stable, isResult |-> IsResult(s), waited |-> 0,
   delay |-> EffectiveDelay(IsResult(s), s.stable), interrupted |-> FALSE]

WaitsFor(c) == pending # NoPending /\ pending.snapshot = c

LeavesResult(s) == pending # NoPending /\ pending.isResult /\ ~IsResult(s)

---------------------------------------------------------------------------
(* The outcomes of AutoUploadScheduler::tick, in the order of the code. *)

Disabled == /\ ~settings.enabled
            /\ pending' = NoPending
            /\ fired' = NoCtx
            /\ UNCHANGED lastFired

Flush(s) == /\ settings.enabled
            /\ LeavesResult(s)
            /\ Fire(pending.snapshot)

(* Mistake: the wait goes on where the flicker interrupted it. *)
KeepWaitingOn(s, eligible, dt) ==
  /\ settings.enabled /\ ~LeavesResult(s)
  /\ IsCandidate(s, eligible)
  /\ WaitsFor(s.stable)
  /\ FireWhenDue([Elapsed(pending, dt) EXCEPT !.interrupted = FALSE], s)

KeepWaiting(s, eligible, dt) ==
  /\ settings.enabled /\ ~LeavesResult(s)
  /\ IsCandidate(s, eligible)
  /\ WaitsFor(s.stable)
  /\ FireWhenDue(IF pending.interrupted
                   THEN [pending EXCEPT !.interrupted = FALSE, !.waited = 0]
                   ELSE Elapsed(pending, dt), s)

StartWaiting(s, eligible) ==
  /\ settings.enabled /\ ~LeavesResult(s)
  /\ IsCandidate(s, eligible)
  /\ ~WaitsFor(s.stable)
  /\ FireWhenDue(NewPending(s), s)

(* Mistake: the waiting value follows the flickering screen. *)
InterruptFollows(s, dt) ==
  /\ settings.enabled /\ ~LeavesResult(s)
  /\ s.stable = NoCtx
  /\ IsResult(s) /\ pending # NoPending /\ pending.isResult
  /\ Wait([Elapsed(pending, dt) EXCEPT !.interrupted = TRUE, !.snapshot = s.stable], s)

(* Mistake: flicker on the result screen cancels the upload. *)
InterruptCancels(s, dt) ==
  /\ settings.enabled /\ ~LeavesResult(s)
  /\ s.stable = NoCtx
  /\ IsResult(s) /\ pending # NoPending /\ pending.isResult
  /\ Wait(NoPending, s)

Interrupt(s, dt) ==
  /\ settings.enabled /\ ~LeavesResult(s)
  /\ s.stable = NoCtx
  /\ IsResult(s) /\ pending # NoPending /\ pending.isResult
  /\ Wait([Elapsed(pending, dt) EXCEPT !.interrupted = TRUE], s)

Cancel(s, eligible) ==
  /\ settings.enabled /\ ~LeavesResult(s)
  /\ ~IsCandidate(s, eligible)
  /\ ~(s.stable = NoCtx /\ IsResult(s) /\ pending # NoPending /\ pending.isResult)
  /\ Wait(NoPending, s)

Tick(s, eligible, dt) ==
  \/ Disabled
  \/ Flush(s)
  \/ KeepWaiting(s, eligible, dt)
  \/ StartWaiting(s, eligible)
  \/ Interrupt(s, dt)
  \/ Cancel(s, eligible)

---------------------------------------------------------------------------
(* tick_auto_upload returns before it reads the settings when nothing waits *)
(* and the pattern on screen needs no upload.                               *)

GateClosed(s, needed) == pending = NoPending /\ ~(s.stable # NoCtx /\ needed)

SkipTick(s, needed) ==
  /\ GateClosed(s, needed)
  /\ fired' = NoCtx
  /\ UNCHANGED <<pending, lastFired>>

RunTick(s, needed, dt) ==
  /\ ~GateClosed(s, needed)
  /\ Tick(s, needed /\ settings.account, dt)

RecordHistory(s, needed, dt) ==
  /\ quiet' = IF s.stable # NoCtx /\ s.stable = session.stable
                THEN Least(quiet + dt, Horizon) ELSE 0
  /\ sent' = IF fired' # NoCtx THEN fired' ELSE sent
  /\ moved' = IF fired' # NoCtx THEN s.stable \notin {NoCtx, fired'}
              ELSE moved \/ s.stable \notin {NoCtx, sent}
  /\ carried' = /\ IsResult(s)
                /\ s.stable # NoCtx
                /\ s.stable = session.stable
                /\ session.scene = "Select" \/ carried
  /\ owed' = IF ~IsResult(s) \/ ~settings.enabled \/ fired' # NoCtx THEN NoCtx
             ELSE IF s.stable = NoCtx THEN owed
             ELSE IF /\ needed /\ settings.account
                     /\ lastFired # s.stable /\ ~carried'
               THEN s.stable ELSE NoCtx

Frame(s, needed, dt) ==
  /\ SkipTick(s, needed) \/ RunTick(s, needed, dt)
  /\ session' = s
  /\ uploadNeeded' = needed
  /\ UNCHANGED settings
  /\ RecordHistory(s, needed, dt)

(* The user edits the settings between two frames. *)
ChangeSettings(new) ==
  /\ settings' = new
  /\ new # settings
  /\ fired' = NoCtx
  /\ UNCHANGED <<session, uploadNeeded, pending, lastFired, history>>

Init ==
  /\ settings \in Setting
  /\ session = [scene |-> "Other", stable |-> NoCtx]
  /\ uploadNeeded = FALSE
  /\ pending = NoPending
  /\ lastFired = NoCtx
  /\ fired = NoCtx
  /\ quiet = 0
  /\ sent = NoCtx
  /\ moved = FALSE
  /\ carried = FALSE
  /\ owed = NoCtx

SomeFrame(dt) == \E s \in Session, needed \in BOOLEAN : Frame(s, needed, dt)

Next == \/ SomeFrame(0)
        \/ SomeFrame(1)
        \/ \E new \in Setting : ChangeSettings(new)

Spec == Init /\ [][Next]_vars

(* While an upload waits the UI asks for a repaint every 33 ms, and the     *)
(* detection loop repaints on every change, so frames go on and time with   *)
(* them.                                                                    *)
FairSpec == Spec /\ WF_vars(SomeFrame(1))

---------------------------------------------------------------------------
(* Every variable keeps its type; last_fired and the waiting snapshot are   *)
(* contexts the scheduler of auto_upload.rs can hold.                       *)
TypeOK ==
  /\ settings \in Setting
  /\ session \in Session
  /\ uploadNeeded \in BOOLEAN
  /\ pending \in PendingUpload \cup {NoPending}
  /\ lastFired \in Ctx \cup {NoCtx}
  /\ fired \in Ctx \cup {NoCtx}
  /\ quiet \in Nat
  /\ sent \in Ctx \cup {NoCtx}
  /\ moved \in BOOLEAN
  /\ carried \in BOOLEAN
  /\ owed \in Ctx \cup {NoCtx}

(* A value that tick handed out for upload is not handed out again, by the  *)
(* timer or by the flush on leaving the result screen, before another       *)
(* stable value was on screen: a failing upload is not retried every frame. *)
NotRepeated == [][fired' # NoCtx /\ fired' = sent => moved]_vars

(* A value that leaves by the timer has been on screen, stable and          *)
(* unchanged, for the whole delay that held when its wait began; flicker on *)
(* the result screen starts the wait anew.                                  *)
FiredByTimer == fired' # NoCtx /\ ~LeavesResult(session')
RequiredQuiet ==
  IF pending # NoPending /\ pending.snapshot = fired'
    THEN pending.delay
    ELSE EffectiveDelay(IsResult(session'), fired')
QuietBeforeTimer == [][FiredByTimer => quiet' >= RequiredQuiet]_vars

(* The last value a result screen owes an upload (stable there, better than *)
(* the V-Archive record, not yet handed out) is handed out by the frame     *)
(* that sees the screen gone, even if the reading flickered since.          *)
OwedIsFlushed ==
  [][IsResult(session) /\ ~IsResult(session') /\ settings.enabled /\ owed # NoCtx
       => fired' = owed]_vars

(* A value that is wanted and in scope, and that is not the value handed    *)
(* out last, is handed out from then on if it stays: neither the gate nor   *)
(* the arms of tick that cancel, interrupt or restart the wait keep it      *)
(* back.  The value in last_fired is another matter: it is held back while  *)
(* no other value is observed, and MovedAwayClears is about that.           *)
Settled(c) ==
  /\ session.stable = c /\ InScope(session)
  /\ uploadNeeded /\ settings.enabled /\ settings.account
SettledIsSent ==
  \A c \in Ctx : (Settled(c) /\ lastFired # c) ~> (fired = c \/ ~Settled(c))

(* auto_upload.rs says of last_fired: observing another stable value clears *)
(* it, so that moving the cursor away and back retries a failed upload.     *)
MovedAwayClears ==
  [][session' # session /\ settings.enabled /\ fired' = NoCtx
       => lastFired' \in {NoCtx, session'.stable} \/ session'.stable = NoCtx]_vars
===========================================================================
