---------------------------- MODULE RuntimeHub ----------------------------
(***************************************************************************)
(* The runtime hub (overmax_runtime hub.rs): every detection output first  *)
(* goes through the result-session tracker, then through the record store. *)
(* The UI thread runs it, and between two outputs the same thread may      *)
(* refresh the store, switch the Steam account, upload or summarise;       *)
(* fetch and upload threads write table varchive_records at any time.      *)
(***************************************************************************)
EXTENDS Records

CONSTANTS
  NoSnapshot,   \* SessionTracker::initial_record = None
  NoPattern     \* the detection output has no context

Zero == [rate |-> 0, mc |-> FALSE]
SnapshotValue == [rate : Rates \cup {0}, mc : BOOLEAN]

ASSUME SnapshotAssumption == /\ NoSnapshot \notin SnapshotValue
                             /\ NoPattern \notin Patterns

VARIABLES
  initial,   \* SessionTracker::initial_record
  entry,     \* history: the rates read when the result screen showed a pattern first
  snapped    \* history: that pattern

vars == <<recordVars, initial, entry, snapped>>

Scene == {"Select", "Result", "Other"}

---------------------------------------------------------------------------
(* SessionTracker::observe *)
TakesSnapshot(scene, ctx) == scene = "Result" /\ ctx # NoPattern /\ initial = NoSnapshot

(* Mistake: the snapshot is taken again at every output. *)
ObservedAnew(scene, ctx, read) ==
  IF scene # "Result" THEN NoSnapshot
  ELSE IF ctx = NoPattern THEN initial
  ELSE IF read = NoRecord THEN Zero ELSE read

Observed(scene, ctx, read) ==
  IF scene # "Result" THEN NoSnapshot
  ELSE IF ~TakesSnapshot(scene, ctx) THEN initial
  ELSE IF read = NoRecord THEN Zero ELSE read

(* SessionTracker::is_pb, asked after observe. *)
IsPb(snapshot, e) == snapshot # NoSnapshot /\ e.rate > snapshot.rate

RecordSession(scene, ctx, read) ==
  /\ initial' = Observed(scene, ctx, read)
  /\ IF scene # "Result" THEN
       /\ entry' = [p \in Patterns |-> 0] /\ snapped' = NoPattern
     ELSE IF snapped = NoPattern /\ ctx # NoPattern THEN
       /\ entry' = [p \in Patterns |-> RateOf(IF p = ctx THEN read ELSE RateMap(p))]
       /\ snapped' = ctx
     ELSE UNCHANGED <<entry, snapped>>

(* Runtime::on_detection without and with a verified play. *)
OnState(scene, ctx) ==
  /\ \E read \in IF ctx = NoPattern THEN {NoRecord} ELSE RateReads(ctx) :
       RecordSession(scene, ctx, read)
  /\ UNCHANGED recordVars

OnVerifiedPlay(e, unread) ==
  /\ \E read \in RateReads(e.pattern) :
       RecordSession(IF e.isResult THEN "Result" ELSE "Select", e.pattern, read)
  /\ HandleVerifiedPlay(e, unread)
  /\ UNCHANGED steamId

Background == StoreStep /\ UNCHANGED <<initial, entry, snapped>>

RestartApp ==
  /\ Restart
  /\ initial' = NoSnapshot
  /\ entry' = [p \in Patterns |-> 0]
  /\ snapped' = NoPattern

Init ==
  /\ RecordsInit
  /\ initial = NoSnapshot
  /\ entry = [p \in Patterns |-> 0]
  /\ snapped = NoPattern

Next ==
  \/ \E scene \in Scene, ctx \in Patterns \cup {NoPattern} : OnState(scene, ctx)
  \/ \E e \in Events, unread \in Unreadable : OnVerifiedPlay(e, unread)
  \/ Background
  \/ RestartApp

Spec == Init /\ [][Next]_vars

---------------------------------------------------------------------------
(* Type invariant of the store and of the hub (hub.rs, record_manager.rs). *)
TypeOK ==
  /\ RecordsTypeOK
  /\ initial \in SnapshotValue \cup {NoSnapshot}
  /\ entry \in [Patterns -> Rates \cup {0}]
  /\ snapped \in Patterns \cup {NoPattern}

(* A verified play of the result screen costs the player no record on any   *)
(* account: no row goes, no rate falls and no max combo is lost, but for    *)
(* what try_upsert could not read of the played pattern's own row.  That it *)
(* then overwrites; the rate must survive a combo that was unread, the      *)
(* combo a rate.                                                            *)
Keeps(st, p, unread) ==
  records[st][p] # NoRecord =>
    /\ records'[st][p] # NoRecord
    /\ "rate" \in unread \/ records'[st][p].rate >= records[st][p].rate
    /\ "mc" \in unread \/ (records[st][p].mc => records'[st][p].mc)
UnreadOf(e, unread, st, p) == IF st = steamId /\ p = e.pattern THEN unread ELSE {}
ResultKeepsBest ==
  [][records' # records =>
       \A e \in Events, unread \in Unreadable : e.isResult =>
         \/ \A st \in Steams, p \in Patterns : Keeps(st, p, UnreadOf(e, unread, st, p))
         \/ ~OnVerifiedPlay(e, unread)]_vars

(* A play is announced as a personal best exactly when it beats what the    *)
(* store showed of its pattern when the result screen showed it first: a    *)
(* record stored for this very play, or fetched meanwhile, never decides.   *)
JudgedAgainstEntry(e) == IsPb(initial', e) <=> e.rate > entry'[e.pattern]
PbAgainstEntry ==
  [][\A e \in Events : e.isResult /\ snapped' = e.pattern
       => \/ JudgedAgainstEntry(e)
          \/ \A unread \in Unreadable : ~OnVerifiedPlay(e, unread)]_vars
===========================================================================
