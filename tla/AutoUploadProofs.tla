------------------------- MODULE AutoUploadProofs -------------------------
(* What the auto-upload scheduler guarantees for every set of contexts,    *)
(* every choice of delays and every sequence of frames.                    *)
EXTENDS AutoUpload, TLAPS

(* Frames and settings changes keep every variable in its type.            *)
LEMMA FireType ==
  ASSUME NEW c \in Ctx, Fire(c)
  PROVE  /\ pending' \in PendingUpload \cup {NoPending}
         /\ lastFired' \in Ctx \cup {NoCtx}
         /\ fired' \in Ctx \cup {NoCtx}
  BY DEF Fire

LEMMA WaitType ==
  ASSUME TypeOK, NEW p \in PendingUpload \cup {NoPending}, NEW s \in Session, Wait(p, s)
  PROVE  /\ pending' \in PendingUpload \cup {NoPending}
         /\ lastFired' \in Ctx \cup {NoCtx}
         /\ fired' \in Ctx \cup {NoCtx}
  BY DEF Wait, Cleared, TypeOK

LEMMA ElapsedType ==
  ASSUME NEW p \in PendingUpload, NEW dt \in 0..1
  PROVE  /\ Elapsed(p, dt) \in PendingUpload
         /\ Elapsed(p, dt).snapshot = p.snapshot
         /\ Elapsed(p, dt).isResult = p.isResult
         /\ Elapsed(p, dt).interrupted = p.interrupted
         /\ Elapsed(p, dt).delay = p.delay
         /\ Elapsed(p, dt).waited <= p.waited + dt
         /\ Elapsed(p, dt).waited <= Horizon \/ Elapsed(p, dt).waited = p.waited + dt
  BY DelayAssumption DEF Elapsed, Least, PendingUpload

LEMMA NewPendingType ==
  ASSUME TypeOK, NEW s \in Session, s.stable # NoCtx
  PROVE  /\ NewPending(s) \in PendingUpload
         /\ NewPending(s).snapshot = s.stable
         /\ NewPending(s).waited = 0
  BY DelayAssumption DEF NewPending, PendingUpload, TypeOK, Session, Setting,
     EffectiveDelay, IsResult

(* A frame's tick, gated or not, leaves the scheduler in its type.         *)
LEMMA TickType ==
  ASSUME TypeOK, NEW s \in Session, NEW needed \in BOOLEAN, NEW dt \in 0..1,
         SkipTick(s, needed) \/ RunTick(s, needed, dt)
  PROVE  /\ pending' \in PendingUpload \cup {NoPending}
         /\ lastFired' \in Ctx \cup {NoCtx}
         /\ fired' \in Ctx \cup {NoCtx}
<1> DEFINE e == needed /\ settings.account
<1>s. s.stable \in Ctx \cup {NoCtx}
  BY DEF Session
<1>1. CASE SkipTick(s, needed)
  BY <1>1 DEF SkipTick, TypeOK
<1>2. CASE Disabled
  BY <1>2 DEF Disabled, TypeOK
<1>3. CASE Flush(s)
  <2>1. pending.snapshot \in Ctx
    BY <1>3 DEF Flush, LeavesResult, TypeOK, PendingUpload
  <2> QED BY <2>1, <1>3, FireType DEF Flush
<1>4. CASE KeepWaiting(s, e, dt)
  <2> DEFINE p == IF pending.interrupted
                    THEN [pending EXCEPT !.interrupted = FALSE, !.waited = 0]
                    ELSE Elapsed(pending, dt)
  <2>0. pending \in PendingUpload
    BY <1>4 DEF KeepWaiting, WaitsFor, TypeOK
  <2>1. [pending EXCEPT !.interrupted = FALSE, !.waited = 0] \in PendingUpload
    BY <2>0 DEF PendingUpload
  <2>2. p \in PendingUpload
    BY <2>0, <2>1, ElapsedType
  <2>3. FireWhenDue(p, s)
    BY <1>4 DEF KeepWaiting
  <2>4. p.snapshot \in Ctx
    BY <2>2 DEF PendingUpload
  <2> HIDE DEF p
  <2> QED BY <2>2, <2>3, <2>4, FireType, WaitType DEF FireWhenDue
<1>5. CASE StartWaiting(s, e)
  <2>1. s.stable # NoCtx
    BY <1>5 DEF StartWaiting, IsCandidate
  <2>2. NewPending(s) \in PendingUpload
    BY <2>1, NewPendingType
  <2>3. NewPending(s).snapshot \in Ctx
    BY <2>2 DEF PendingUpload
  <2>4. FireWhenDue(NewPending(s), s)
    BY <1>5 DEF StartWaiting
  <2> QED BY <2>2, <2>3, <2>4, FireType, WaitType DEF FireWhenDue
<1>6. CASE Interrupt(s, dt)
  <2>0. pending \in PendingUpload
    BY <1>6 DEF Interrupt, TypeOK
  <2>1. Elapsed(pending, dt) \in PendingUpload
    BY <2>0, ElapsedType
  <2>2. [Elapsed(pending, dt) EXCEPT !.interrupted = TRUE] \in PendingUpload
    BY <2>1 DEF PendingUpload
  <2> QED BY <2>2, <1>6, WaitType DEF Interrupt
<1>7. CASE Cancel(s, e)
  BY <1>7, WaitType DEF Cancel
<1> QED
  BY <1>1, <1>2, <1>3, <1>4, <1>5, <1>6, <1>7 DEF RunTick, Tick

(* The type invariant of the scheduler and of the history kept beside it.  *)
THEOREM TypeCorrect == Spec => []TypeOK
<1>0. [scene |-> "Other", stable |-> NoCtx] \in Session
  <2> DEFINE s0 == [scene |-> "Other", stable |-> NoCtx]
  <2>1. s0 \in [scene : Scene, stable : Ctx \cup {NoCtx}]
    BY DEF Scene
  <2>2. s0.scene = "Other" => s0.stable = NoCtx
    OBVIOUS
  <2> QED BY <2>1, <2>2 DEF Session
<1>1. Init => TypeOK
  <2> SUFFICES ASSUME Init PROVE TypeOK
    OBVIOUS
  <2>1. session \in Session
    BY <1>0 DEF Init
  <2>2. uploadNeeded \in BOOLEAN /\ moved \in BOOLEAN /\ carried \in BOOLEAN
    BY DEF Init
  <2>3. quiet \in Nat
    BY DEF Init
  <2> QED BY <2>1, <2>2, <2>3 DEF Init, TypeOK
<1>2. TypeOK /\ [Next]_vars => TypeOK'
  <2> SUFFICES ASSUME TypeOK, [Next]_vars PROVE TypeOK'
    OBVIOUS
  <2>1. ASSUME NEW dt \in 0..1, NEW s \in Session, NEW needed \in BOOLEAN,
               Frame(s, needed, dt)
        PROVE  TypeOK'
    <3>1. /\ pending' \in PendingUpload \cup {NoPending}
          /\ lastFired' \in Ctx \cup {NoCtx}
          /\ fired' \in Ctx \cup {NoCtx}
      BY <2>1, TickType DEF Frame
    <3>2. settings' \in Setting /\ session' \in Session /\ uploadNeeded' \in BOOLEAN
      BY <2>1 DEF Frame, TypeOK
    <3>3. quiet' \in Nat
      BY <2>1, DelayAssumption DEF Frame, RecordHistory, TypeOK, Least
    <3>4. sent' \in Ctx \cup {NoCtx}
      BY <2>1, <3>1 DEF Frame, RecordHistory, TypeOK
    <3>5. s.stable \in Ctx \cup {NoCtx}
      BY DEF Session
    <3>6. owed' \in Ctx \cup {NoCtx}
      BY <2>1, <3>5 DEF Frame, RecordHistory, TypeOK
    <3>7. moved' \in BOOLEAN /\ carried' \in BOOLEAN
      BY <2>1 DEF Frame, RecordHistory, TypeOK
    <3> QED BY <3>1, <3>2, <3>3, <3>4, <3>6, <3>7 DEF TypeOK
  <2>2. ASSUME NEW new \in Setting, ChangeSettings(new)
        PROVE  TypeOK'
    BY <2>2 DEF ChangeSettings, TypeOK, history
  <2>3. CASE UNCHANGED vars
    BY <2>3 DEF vars, code, history, TypeOK
  <2> QED BY <2>1, <2>2, <2>3 DEF Next, SomeFrame
<1> QED BY <1>1, <1>2, PTL DEF Spec

---------------------------------------------------------------------------
(* Why no value is handed out twice in a row: last_fired remembers the     *)
(* value sent last until another stable value was seen, and what waits is  *)
(* never that value unless another one was seen in between.                *)
RepeatInv ==
  /\ lastFired # NoCtx => lastFired = sent
  /\ lastFired = NoCtx /\ sent # NoCtx => moved
  /\ pending # NoPending /\ pending.snapshot = sent => moved

(* A fire records its value as the one sent last.                          *)
LEMMA FireKeepsRepeatInv ==
  ASSUME NEW c \in Ctx, Fire(c), sent' = IF fired' # NoCtx THEN fired' ELSE sent
  PROVE  RepeatInv'
  BY CtxAssumption DEF Fire, RepeatInv

(* A wait keeps it if what waits is a candidate or was waiting before.     *)
LEMMA WaitKeepsRepeatInv ==
  ASSUME TypeOK, RepeatInv,
         NEW s \in Session, NEW p \in PendingUpload \cup {NoPending},
         Wait(p, s),
         \/ p = NoPending
         \/ pending # NoPending /\ p.snapshot = pending.snapshot
         \/ p.snapshot = s.stable /\ Cleared(s) # s.stable,
         sent' = IF fired' # NoCtx THEN fired' ELSE sent,
         moved' = IF fired' # NoCtx THEN s.stable \notin {NoCtx, fired'}
                  ELSE moved \/ s.stable \notin {NoCtx, sent}
  PROVE  RepeatInv'
<1>1. fired' = NoCtx /\ pending' = p /\ lastFired' = Cleared(s)
  BY DEF Wait
<1>2. sent' = sent /\ moved' = (moved \/ s.stable \notin {NoCtx, sent})
  BY <1>1
<1>3. lastFired' # NoCtx => lastFired' = sent'
  BY <1>1, <1>2 DEF Cleared, RepeatInv
<1>4. lastFired' = NoCtx /\ sent' # NoCtx => moved'
  BY <1>1, <1>2 DEF Cleared, RepeatInv
<1>5. pending' # NoPending /\ pending'.snapshot = sent' => moved'
  <2> SUFFICES ASSUME p # NoPending, p.snapshot = sent PROVE moved'
    BY <1>1, <1>2
  <2>1. CASE pending # NoPending /\ p.snapshot = pending.snapshot
    BY <2>1, <1>2 DEF RepeatInv
  <2>2. CASE p.snapshot = s.stable /\ Cleared(s) # s.stable
    <3>1. sent # NoCtx
      BY CtxAssumption DEF PendingUpload
    <3>2. lastFired # sent
      BY <2>2, <3>1 DEF Cleared
    <3> QED BY <3>1, <3>2, <1>2 DEF RepeatInv
  <2> QED BY <2>1, <2>2
<1> QED BY <1>3, <1>4, <1>5 DEF RepeatInv

(* A frame of the application keeps RepeatInv.                             *)
LEMMA FrameKeepsRepeatInv ==
  ASSUME TypeOK, RepeatInv, NEW s \in Session, NEW needed \in BOOLEAN,
         NEW dt \in 0..1, Frame(s, needed, dt)
  PROVE  RepeatInv'
<1> DEFINE e == needed /\ settings.account
<1>h. /\ sent' = IF fired' # NoCtx THEN fired' ELSE sent
      /\ moved' = IF fired' # NoCtx THEN s.stable \notin {NoCtx, fired'}
                  ELSE moved \/ s.stable \notin {NoCtx, sent}
  BY DEF Frame, RecordHistory
<1>s. s.stable \in Ctx \cup {NoCtx}
  BY DEF Session
<1>1. CASE SkipTick(s, needed) \/ Disabled
  <2>1. fired' = NoCtx /\ lastFired' = lastFired /\ pending' = NoPending
    BY <1>1 DEF SkipTick, GateClosed, Disabled
  <2> QED BY <2>1, <1>h DEF RepeatInv
<1>3. CASE Flush(s)
  <2>1. pending.snapshot \in Ctx
    BY <1>3 DEF Flush, LeavesResult, TypeOK, PendingUpload
  <2> QED BY <2>1, <1>3, <1>h, FireKeepsRepeatInv DEF Flush
<1>4. CASE KeepWaiting(s, e, dt)
  <2> DEFINE p == IF pending.interrupted
                    THEN [pending EXCEPT !.interrupted = FALSE, !.waited = 0]
                    ELSE Elapsed(pending, dt)
  <2>0. pending \in PendingUpload /\ pending # NoPending
    BY <1>4 DEF KeepWaiting, WaitsFor, TypeOK
  <2>1. LET q == [pending EXCEPT !.interrupted = FALSE, !.waited = 0]
        IN  q \in PendingUpload /\ q.snapshot = pending.snapshot
    BY <2>0 DEF PendingUpload
  <2>2. p \in PendingUpload /\ p.snapshot = pending.snapshot
    BY <2>0, <2>1, ElapsedType
  <2>3. FireWhenDue(p, s)
    BY <1>4 DEF KeepWaiting
  <2>4. p.snapshot \in Ctx
    BY <2>2 DEF PendingUpload
  <2> HIDE DEF p
  <2>5. CASE Fire(p.snapshot)
    BY <2>4, <2>5, <1>h, FireKeepsRepeatInv
  <2>6. CASE Wait(p, s)
    BY <2>0, <2>2, <2>6, <1>h, WaitKeepsRepeatInv
  <2> QED BY <2>3, <2>5, <2>6 DEF FireWhenDue
<1>5. CASE StartWaiting(s, e)
  <2>1. s.stable # NoCtx /\ Cleared(s) # s.stable
    BY <1>5 DEF StartWaiting, IsCandidate
  <2>2. NewPending(s) \in PendingUpload /\ NewPending(s).snapshot = s.stable
    BY <2>1, NewPendingType
  <2>3. NewPending(s).snapshot \in Ctx
    BY <2>2 DEF PendingUpload
  <2>4. FireWhenDue(NewPending(s), s)
    BY <1>5 DEF StartWaiting
  <2>5. CASE Fire(NewPending(s).snapshot)
    BY <2>3, <2>5, <1>h, FireKeepsRepeatInv
  <2>6. CASE Wait(NewPending(s), s)
    BY <2>1, <2>2, <2>6, <1>h, WaitKeepsRepeatInv
  <2> QED BY <2>4, <2>5, <2>6 DEF FireWhenDue
<1>6. CASE Interrupt(s, dt)
  <2>0. pending \in PendingUpload /\ pending # NoPending
    BY <1>6 DEF Interrupt, TypeOK
  <2>1. Elapsed(pending, dt) \in PendingUpload /\ Elapsed(pending, dt).snapshot = pending.snapshot
    BY <2>0, ElapsedType
  <2> DEFINE q == [Elapsed(pending, dt) EXCEPT !.interrupted = TRUE]
  <2>2. q \in PendingUpload /\ q.snapshot = pending.snapshot
    BY <2>1 DEF PendingUpload
  <2>3. Wait(q, s)
    BY <1>6 DEF Interrupt
  <2> HIDE DEF q
  <2> QED BY <2>0, <2>2, <2>3, <1>h, WaitKeepsRepeatInv
<1>7. CASE Cancel(s, e)
  BY <1>7, <1>h, WaitKeepsRepeatInv DEF Cancel
<1> QED
  BY <1>1, <1>3, <1>4, <1>5, <1>6, <1>7 DEF Frame, RunTick, Tick

(* A frame hands out only what waited or what it sees as a candidate.      *)
LEMMA FiredIsWaitingOrNew ==
  ASSUME TypeOK, NEW s \in Session, NEW needed \in BOOLEAN, NEW dt \in 0..1,
         Frame(s, needed, dt), fired' # NoCtx
  PROVE  \/ pending # NoPending /\ fired' = pending.snapshot
         \/ fired' = s.stable /\ Cleared(s) # s.stable
<1>1. CASE SkipTick(s, needed) \/ Disabled \/ Interrupt(s, dt)
           \/ Cancel(s, needed /\ settings.account)
  BY <1>1 DEF SkipTick, Disabled, Interrupt, Cancel, Wait
<1>2. CASE Flush(s)
  BY <1>2 DEF Flush, LeavesResult, Fire
<1>3. CASE KeepWaiting(s, needed /\ settings.account, dt)
  <2> DEFINE p == IF pending.interrupted
                    THEN [pending EXCEPT !.interrupted = FALSE, !.waited = 0]
                    ELSE Elapsed(pending, dt)
  <2>0. pending \in PendingUpload /\ pending # NoPending
    BY <1>3 DEF KeepWaiting, WaitsFor, TypeOK
  <2>1. [pending EXCEPT !.interrupted = FALSE, !.waited = 0].snapshot = pending.snapshot
    BY <2>0 DEF PendingUpload
  <2>2. p.snapshot = pending.snapshot
    BY <2>0, <2>1, ElapsedType
  <2>3. FireWhenDue(p, s)
    BY <1>3 DEF KeepWaiting
  <2> HIDE DEF p
  <2> QED BY <2>0, <2>2, <2>3 DEF FireWhenDue, Fire, Wait
<1>4. CASE StartWaiting(s, needed /\ settings.account)
  <2>1. Cleared(s) # s.stable /\ s.stable # NoCtx /\ FireWhenDue(NewPending(s), s)
    BY <1>4 DEF StartWaiting, IsCandidate
  <2>2. NewPending(s).snapshot = s.stable
    BY <2>1, NewPendingType
  <2> QED BY <2>1, <2>2 DEF FireWhenDue, Fire, Wait
<1> QED
  BY <1>1, <1>2, <1>3, <1>4 DEF Frame, RunTick, Tick

(* RepeatInv holds in every reachable state.                               *)
THEOREM RepeatInvariant == Spec => []RepeatInv
<1>1. Init => RepeatInv
  BY DEF Init, RepeatInv
<1>2. TypeOK /\ RepeatInv /\ [Next]_vars => RepeatInv'
  <2> SUFFICES ASSUME TypeOK, RepeatInv, [Next]_vars PROVE RepeatInv'
    OBVIOUS
  <2>1. CASE \E dt \in 0..1 : SomeFrame(dt)
    BY <2>1, FrameKeepsRepeatInv DEF SomeFrame
  <2>2. CASE \E new \in Setting : ChangeSettings(new)
    BY <2>2 DEF ChangeSettings, RepeatInv, history
  <2>3. CASE UNCHANGED vars
    BY <2>3 DEF vars, code, history, RepeatInv
  <2> QED BY <2>1, <2>2, <2>3 DEF Next
<1> QED BY <1>1, <1>2, TypeCorrect, PTL DEF Spec

(* The uploader never gets the same value twice in a row unless another    *)
(* stable value was on screen in between, for any number of contexts.      *)
THEOREM NeverRepeated == Spec => NotRepeated
<1>1. TypeOK /\ RepeatInv /\ [Next]_vars
        => [fired' # NoCtx /\ fired' = sent => moved]_vars
  <2> SUFFICES ASSUME TypeOK, RepeatInv, Next, fired' # NoCtx, fired' = sent
               PROVE  moved
    OBVIOUS
  <2>1. ASSUME NEW dt \in 0..1, NEW s \in Session, NEW needed \in BOOLEAN,
               Frame(s, needed, dt)
        PROVE  moved
    <3>1. CASE pending # NoPending /\ fired' = pending.snapshot
      BY <3>1 DEF RepeatInv
    <3>2. CASE fired' = s.stable /\ Cleared(s) # s.stable
      <4>1. lastFired # sent
        BY <3>2 DEF Cleared
      <4> QED BY <4>1 DEF RepeatInv
    <3> QED BY <2>1, <3>1, <3>2, FiredIsWaitingOrNew
  <2>2. ASSUME NEW new \in Setting, ChangeSettings(new)
        PROVE  moved
    BY <2>2 DEF ChangeSettings
  <2> QED BY <2>1, <2>2 DEF Next, SomeFrame
<1> QED BY <1>1, TypeCorrect, RepeatInvariant, PTL DEF Spec, NotRepeated

---------------------------------------------------------------------------
(* Why nothing leaves too early and nothing owed is lost.  What waits       *)
(* undisturbed is the value on screen, and has waited no longer than that   *)
(* value has been there; what waits since song select was seen there or     *)
(* carried over; and what a result screen owes is waiting.                  *)
WaitInv ==
  /\ pending # NoPending /\ ~pending.interrupted =>
       session.stable = pending.snapshot /\ pending.waited <= quiet
  /\ pending # NoPending /\ ~pending.isResult =>
       ~pending.interrupted /\ (session.scene = "Select" \/ carried)
  /\ owed # NoCtx => /\ pending # NoPending
                     /\ pending.snapshot = owed /\ pending.isResult

LEMMA FireKeepsWaitInv ==
  ASSUME pending' = NoPending, owed' = NoCtx
  PROVE  WaitInv'
BY DEF WaitInv

(* While a value that may be owed waits on, it waits as a result's.         *)
LEMMA WaitKeepsWaitInv ==
  ASSUME NEW p \in PendingUpload, NEW s \in Session,
         pending' = p, session' = s,
         s.stable = p.snapshot, ~p.interrupted, p.waited <= quiet',
         ~p.isResult => s.scene = "Select" \/ carried',
         owed' \in {NoCtx, s.stable}, owed' # NoCtx => IsResult(s) /\ ~carried'
  PROVE  WaitInv'
<1>1. NoPending # p
  BY PendingAssumption
<1>2. owed' # NoCtx => p.isResult
  BY DEF IsResult
<1> QED BY <1>1, <1>2 DEF WaitInv

LEMMA FrameKeepsWaitInv ==
  ASSUME TypeOK, WaitInv, NEW s \in Session, NEW needed \in BOOLEAN,
         NEW dt \in 0..1, Frame(s, needed, dt)
  PROVE  /\ WaitInv'
         /\ FiredByTimer => quiet' >= RequiredQuiet
<1> DEFINE e == needed /\ settings.account
<1>h. /\ session' = s /\ settings' = settings
      /\ quiet' = IF s.stable # NoCtx /\ s.stable = session.stable
                    THEN Least(quiet + dt, Horizon) ELSE 0
      /\ carried' = (/\ IsResult(s) /\ s.stable # NoCtx /\ s.stable = session.stable
                     /\ session.scene = "Select" \/ carried)
      /\ owed' = IF ~IsResult(s) \/ ~settings.enabled \/ fired' # NoCtx THEN NoCtx
                 ELSE IF s.stable = NoCtx THEN owed
                 ELSE IF needed /\ settings.account /\ lastFired # s.stable /\ ~carried'
                   THEN s.stable ELSE NoCtx
  BY DEF Frame, RecordHistory
<1>s. /\ s.scene \in Scene /\ s.stable \in Ctx \cup {NoCtx}
      /\ s.scene = "Other" => s.stable = NoCtx
  BY DEF Session
<1>q. quiet' \in Nat /\ quiet \in Nat
  BY <1>h, DelayAssumption DEF TypeOK, Least
<1>o. owed' # NoCtx /\ s.stable # NoCtx => /\ owed' = s.stable /\ IsResult(s) /\ ~carried'
                                           /\ IsCandidate(s, e)
  BY <1>h DEF IsCandidate, InScope, Cleared
<1>1. CASE SkipTick(s, needed)
  <2>1. pending = NoPending /\ pending' = NoPending /\ fired' = NoCtx
    BY <1>1 DEF SkipTick, GateClosed
  <2>2. owed = NoCtx /\ (s.stable # NoCtx => ~needed)
    BY <1>1, <2>1 DEF WaitInv, SkipTick, GateClosed
  <2>3. owed' = NoCtx
    BY <1>h, <2>2
  <2> QED BY <2>1, <2>3, FireKeepsWaitInv DEF FiredByTimer
<1>2. CASE Disabled
  BY <1>2, <1>h, FireKeepsWaitInv DEF Disabled, FiredByTimer
<1>3. CASE Flush(s)
  <2>1. fired' # NoCtx /\ pending' = NoPending
    BY <1>3, CtxAssumption DEF Flush, LeavesResult, Fire, TypeOK, PendingUpload
  <2>2. ~FiredByTimer
    BY <1>3, <1>h DEF Flush, FiredByTimer
  <2> QED BY <2>1, <2>2, <1>h, FireKeepsWaitInv
<1>4. CASE KeepWaiting(s, e, dt)
  <2> DEFINE p == IF pending.interrupted
                    THEN [pending EXCEPT !.interrupted = FALSE, !.waited = 0]
                    ELSE Elapsed(pending, dt)
  <2>0. /\ pending \in PendingUpload /\ pending # NoPending
        /\ pending.snapshot = s.stable /\ s.stable # NoCtx
    BY <1>4 DEF KeepWaiting, WaitsFor, IsCandidate, TypeOK
  <2>1. LET q == [pending EXCEPT !.interrupted = FALSE, !.waited = 0]
        IN  /\ q \in PendingUpload /\ q.snapshot = pending.snapshot
            /\ q.delay = pending.delay /\ q.isResult = pending.isResult
            /\ ~q.interrupted /\ q.waited = 0
    BY <2>0 DEF PendingUpload
  <2>2. /\ p \in PendingUpload /\ p.snapshot = pending.snapshot
        /\ p.delay = pending.delay /\ p.isResult = pending.isResult /\ ~p.interrupted
    BY <2>0, <2>1, ElapsedType
  <2>3. p.waited <= quiet'
    <3>1. CASE pending.interrupted
      BY <2>1, <3>1, <1>q
    <3>2. CASE ~pending.interrupted
      <4>1. session.stable = s.stable /\ pending.waited <= quiet
        BY <2>0, <3>2 DEF WaitInv
      <4>2. quiet' = Least(quiet + dt, Horizon)
        BY <1>h, <2>0, <4>1
      <4>3. Elapsed(pending, dt).waited = Least(pending.waited + dt, Horizon)
        BY <2>0 DEF Elapsed, PendingUpload
      <4>4. p.waited = Least(pending.waited + dt, Horizon)
        BY <3>2, <4>3
      <4>5. pending.waited \in Nat /\ Horizon \in Nat /\ dt \in Nat
        BY <2>0, DelayAssumption DEF PendingUpload
      <4> HIDE DEF p
      <4> QED BY <4>1, <4>2, <4>4, <4>5, <1>q DEF Least
    <3> QED BY <3>1, <3>2
  <2>4. FireWhenDue(p, s)
    BY <1>4 DEF KeepWaiting
  <2> HIDE DEF p
  <2>5. p.snapshot # NoCtx /\ p.waited \in Nat /\ p.delay \in Nat
    BY <2>2, CtxAssumption DEF PendingUpload
  <2>6. CASE p.waited >= p.delay
    <3>1. fired' = p.snapshot /\ pending' = NoPending
      BY <2>4, <2>6 DEF FireWhenDue, Fire
    <3>2. RequiredQuiet = p.delay
      BY <2>0, <2>2, <3>1 DEF RequiredQuiet
    <3>3. quiet' >= RequiredQuiet
      BY <2>3, <2>5, <2>6, <3>2, <1>q
    <3>4. owed' = NoCtx
      BY <1>h, <2>5, <3>1
    <3> QED BY <3>1, <3>3, <3>4, FireKeepsWaitInv
  <2>7. CASE ~(p.waited >= p.delay)
    <3>1. fired' = NoCtx /\ pending' = p
      BY <2>4, <2>7 DEF FireWhenDue, Wait
    <3>2. ~p.isResult => s.scene = "Select" \/ carried'
      <4> SUFFICES ASSUME ~pending.isResult, s.scene # "Select" PROVE carried'
        BY <2>2
      <4>1. ~pending.interrupted /\ (session.scene = "Select" \/ carried)
        BY <2>0 DEF WaitInv
      <4>2. session.stable = s.stable
        BY <2>0, <4>1 DEF WaitInv
      <4>3. IsResult(s)
        BY <1>s, <2>0 DEF Scene, IsResult
      <4> QED BY <1>h, <2>0, <4>1, <4>2, <4>3
    <3>3. owed' \in {NoCtx, s.stable} /\ (owed' # NoCtx => IsResult(s) /\ ~carried')
      BY <1>o, <2>0
    <3>4. WaitInv'
      BY <1>h, <2>0, <2>2, <2>3, <3>1, <3>2, <3>3, WaitKeepsWaitInv
    <3> QED BY <3>1, <3>4 DEF FiredByTimer
  <2> QED BY <2>6, <2>7
<1>5. CASE StartWaiting(s, e)
  <2> DEFINE p == NewPending(s)
  <2>1. s.stable # NoCtx /\ InScope(s) /\ ~WaitsFor(s.stable)
    BY <1>5 DEF StartWaiting, IsCandidate
  <2>2. p \in PendingUpload /\ p.snapshot = s.stable /\ p.waited = 0
    BY <2>1, NewPendingType
  <2>3. /\ p.delay = EffectiveDelay(IsResult(s), s.stable)
        /\ p.isResult = IsResult(s) /\ p.interrupted = FALSE
    BY DEF NewPending
  <2>4. FireWhenDue(p, s)
    BY <1>5 DEF StartWaiting
  <2> HIDE DEF p
  <2>5. p.delay \in Nat
    BY <2>2 DEF PendingUpload
  <2>6. CASE p.waited >= p.delay
    <3>1. fired' = s.stable /\ pending' = NoPending
      BY <2>2, <2>4, <2>6 DEF FireWhenDue, Fire
    <3>2. RequiredQuiet = EffectiveDelay(IsResult(session'), fired')
      BY <2>1, <3>1 DEF RequiredQuiet, WaitsFor
    <3>3. RequiredQuiet = p.delay
      BY <1>h, <2>3, <3>1, <3>2
    <3>4. quiet' >= RequiredQuiet
      BY <2>2, <2>5, <2>6, <3>3, <1>q
    <3>5. owed' = NoCtx
      BY <1>h, <2>1, <3>1
    <3> QED BY <3>1, <3>4, <3>5, FireKeepsWaitInv
  <2>7. CASE ~(p.waited >= p.delay)
    <3>1. fired' = NoCtx /\ pending' = p
      BY <2>4, <2>7 DEF FireWhenDue, Wait
    <3>2. ~p.isResult => s.scene = "Select"
      BY <2>1, <2>3 DEF InScope
    <3>3. owed' \in {NoCtx, s.stable} /\ (owed' # NoCtx => IsResult(s) /\ ~carried')
      BY <1>o, <2>1
    <3>4. p.waited <= quiet' /\ ~p.interrupted
      BY <2>2, <2>3, <1>q
    <3>5. WaitInv'
      BY <1>h, <2>2, <3>1, <3>2, <3>3, <3>4, WaitKeepsWaitInv
    <3> QED BY <3>1, <3>5 DEF FiredByTimer
  <2> QED BY <2>6, <2>7
<1>6. CASE Interrupt(s, dt)
  <2>0. /\ pending \in PendingUpload /\ pending # NoPending /\ pending.isResult
        /\ s.stable = NoCtx /\ fired' = NoCtx
    BY <1>6 DEF Interrupt, Wait, TypeOK
  <2> DEFINE p == Elapsed(pending, dt)
             q == [p EXCEPT !.interrupted = TRUE]
  <2>1. p \in PendingUpload /\ p.snapshot = pending.snapshot /\ p.isResult = pending.isResult
    BY <2>0, ElapsedType
  <2> HIDE DEF p
  <2>2. /\ q \in PendingUpload /\ q.snapshot = pending.snapshot /\ q.isResult = pending.isResult
        /\ q.interrupted
    BY <2>1 DEF PendingUpload
  <2>3. pending' = q
    BY <1>6 DEF Interrupt, Wait, p
  <2> HIDE DEF q
  <2>4. owed' \in {NoCtx, owed}
    BY <1>h, <2>0
  <2>5. q # NoPending
    BY <2>2, PendingAssumption
  <2> QED BY <2>0, <2>2, <2>3, <2>4, <2>5 DEF WaitInv, FiredByTimer
<1>7. CASE Cancel(s, e)
  <2>1. /\ pending' = NoPending /\ fired' = NoCtx /\ ~IsCandidate(s, e)
        /\ ~(s.stable = NoCtx /\ IsResult(s) /\ pending # NoPending /\ pending.isResult)
    BY <1>7 DEF Cancel, Wait
  <2>2. owed' = NoCtx
    <3>1. CASE s.stable = NoCtx
      BY <1>h, <2>1, <3>1 DEF WaitInv
    <3>2. CASE s.stable # NoCtx
      BY <1>o, <2>1, <3>2
    <3> QED BY <3>1, <3>2
  <2> QED BY <2>1, <2>2, FireKeepsWaitInv DEF FiredByTimer
<1> QED
  BY <1>1, <1>2, <1>3, <1>4, <1>5, <1>6, <1>7 DEF Frame, RunTick, Tick

(* The frame that sees the result screen gone hands out what was owed.      *)
LEMMA LeavingHandsOut ==
  ASSUME WaitInv, NEW s \in Session, NEW needed \in BOOLEAN, NEW dt \in 0..1,
         Frame(s, needed, dt), ~IsResult(s), settings.enabled, owed # NoCtx
  PROVE  fired' = owed
<1>1. pending # NoPending /\ pending.snapshot = owed /\ LeavesResult(s)
  BY DEF WaitInv, LeavesResult
<1>2. Flush(s)
  BY <1>1 DEF Frame, SkipTick, GateClosed, RunTick, Tick, Disabled, KeepWaiting,
              StartWaiting, Interrupt, Cancel
<1> QED BY <1>1, <1>2 DEF Flush, Fire

(* WaitInv holds in every reachable state. *)
THEOREM WaitInvariant == Spec => []WaitInv
<1>1. Init => WaitInv
  BY DEF Init, WaitInv
<1>2. TypeOK /\ WaitInv /\ [Next]_vars => WaitInv'
  <2> SUFFICES ASSUME TypeOK, WaitInv, [Next]_vars PROVE WaitInv'
    OBVIOUS
  <2>1. CASE \E dt \in 0..1 : SomeFrame(dt)
    BY <2>1, FrameKeepsWaitInv DEF SomeFrame
  <2>2. CASE \E new \in Setting : ChangeSettings(new)
    BY <2>2 DEF ChangeSettings, WaitInv, history
  <2>3. CASE UNCHANGED vars
    BY <2>3 DEF vars, code, history, WaitInv
  <2> QED BY <2>1, <2>2, <2>3 DEF Next
<1> QED BY <1>1, <1>2, TypeCorrect, PTL DEF Spec

(* What leaves by the timer was on screen, unchanged, for the whole delay,  *)
(* for any delays and any sequence of frames and settings changes.          *)
THEOREM WaitsItsDelay == Spec => QuietBeforeTimer
<1>1. TypeOK /\ WaitInv /\ [Next]_vars => [FiredByTimer => quiet' >= RequiredQuiet]_vars
  <2> SUFFICES ASSUME TypeOK, WaitInv, Next, FiredByTimer
               PROVE  quiet' >= RequiredQuiet
    OBVIOUS
  <2>1. CASE \E dt \in 0..1 : SomeFrame(dt)
    BY <2>1, FrameKeepsWaitInv DEF SomeFrame
  <2>2. CASE \E new \in Setting : ChangeSettings(new)
    BY <2>2 DEF ChangeSettings, FiredByTimer
  <2> QED BY <2>1, <2>2 DEF Next
<1> QED BY <1>1, TypeCorrect, WaitInvariant, PTL DEF Spec, QuietBeforeTimer

(* A result screen's last owed value goes out when the screen goes, however *)
(* the reading flickered in between.                                        *)
THEOREM OwedGoesOut == Spec => OwedIsFlushed
<1>1. WaitInv /\ [Next]_vars
        => [IsResult(session) /\ ~IsResult(session') /\ settings.enabled /\ owed # NoCtx
              => fired' = owed]_vars
  <2> SUFFICES ASSUME WaitInv, Next, IsResult(session), ~IsResult(session'),
                      settings.enabled, owed # NoCtx
               PROVE  fired' = owed
    OBVIOUS
  <2>1. ASSUME NEW dt \in 0..1, NEW s \in Session, NEW needed \in BOOLEAN,
               Frame(s, needed, dt)
        PROVE  fired' = owed
    <3>1. ~IsResult(s)
      BY <2>1 DEF Frame
    <3> QED BY <2>1, <3>1, LeavingHandsOut
  <2>2. ASSUME NEW new \in Setting, ChangeSettings(new)
        PROVE  fired' = owed
    BY <2>2 DEF ChangeSettings
  <2> QED BY <2>1, <2>2 DEF Next, SomeFrame
<1> QED BY <1>1, WaitInvariant, PTL DEF Spec, OwedIsFlushed
===========================================================================
