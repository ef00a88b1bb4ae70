---------------------------- MODULE StoreProofs ----------------------------
(***************************************************************************)
(* Proofs about what is built on the record store: the runtime hub and     *)
(* the floor cache.  First the operations of the store keep their types;   *)
(* then, of the hub, a result play costs no record it could read, and a    *)
(* personal best is judged against what the store showed when the screen   *)
(* came up; last, no summary of the floor cache is stale without a flag.   *)
(* All this for any set of patterns, accounts, rates and buckets.          *)
(***************************************************************************)
EXTENDS RuntimeHub, FloorCache, TLAPS

---------------------------------------------------------------------------
(* THE RECORD STORE                                                        *)

(* The best of two entries is an entry, and nothing only of two nothings.   *)
LEMMA BestType ==
  ASSUME NEW a \in Entry, NEW b \in Entry
  PROVE  /\ Best(a, b) \in Entry
         /\ a # NoRecord => Best(a, b) \in Value
         /\ b # NoRecord => Best(a, b) \in Value
<1>1. CASE a = NoRecord
  BY <1>1, RecordAssumption DEF Best, Entry
<1>2. CASE a # NoRecord /\ b = NoRecord
  BY <1>2, RecordAssumption DEF Best, Entry
<1>3. CASE a # NoRecord /\ b # NoRecord
  <2>1. a \in Value /\ b \in Value
    BY <1>3 DEF Entry
  <2>2. MaxRate(a.rate, b.rate) \in Rates /\ (a.mc \/ b.mc) \in BOOLEAN
    BY <2>1 DEF MaxRate, Value
  <2>3. Best(a, b) = [rate |-> MaxRate(a.rate, b.rate), mc |-> a.mc \/ b.mc]
    BY <1>3 DEF Best
  <2>4. Best(a, b) \in Value
    BY <2>2, <2>3 DEF Value
  <2> QED BY <2>4 DEF Entry
<1> QED BY <1>1, <1>2, <1>3

(* What a pattern counts for is a rate or nothing. *)
LEMMA RateOfType ==
  ASSUME NEW e \in Entry
  PROVE  RateOf(e) \in Rates \cup {0}
BY DEF RateOf, Entry, Value

(* The value a verified play shows is one its pattern may show. *)
LEMMA ShownType ==
  ASSUME NEW e \in Events, e.isResult \/ e.rate > 0
  PROVE  Shown(e) \in Value
<1>1. e \in Event
  BY DEF Events
<1>2. CASE Shown(e) \in Played[e.pattern]
  BY <1>1, <1>2, ValuesAssumption DEF Event
<1>3. CASE e.rate = 0 /\ ~e.isResult
  BY <1>3
<1> QED BY <1>2, <1>3 DEF Events

---------------------------------------------------------------------------
(* Storing, deleting and logging keep the types of the tables. *)

LEMMA StoreRecordType ==
  ASSUME RecordsTypeOK, NEW p \in Patterns, NEW v \in Value, StoreRecord(p, v)
  PROVE  /\ records' \in [Steams -> Map]
         /\ dirtyKeys' \subseteq Patterns
         /\ cache' \in Map /\ fullDirty' \in BOOLEAN /\ table' \in [Steams -> Map]
<1>1. v \in Entry
  BY DEF Entry
<1>2. [records[steamId] EXCEPT ![p] = v] \in Map
  BY <1>1 DEF RecordsTypeOK, Map
<1>3. records' = [records EXCEPT ![steamId] = [records[steamId] EXCEPT ![p] = v]]
  BY DEF StoreRecord
<1>4. records' \in [Steams -> Map]
  BY <1>2, <1>3 DEF RecordsTypeOK
<1>5. dirtyKeys' \subseteq Patterns /\ UNCHANGED <<table, cache, fullDirty>>
  BY DEF StoreRecord, RecordsTypeOK
<1> QED BY <1>4, <1>5 DEF RecordsTypeOK

LEMMA NothingStoredType ==
  ASSUME RecordsTypeOK, NothingStored
  PROVE  /\ records' \in [Steams -> Map]
         /\ dirtyKeys' \subseteq Patterns
         /\ cache' \in Map /\ fullDirty' \in BOOLEAN /\ table' \in [Steams -> Map]
BY DEF NothingStored, managerVars, RecordsTypeOK

(* A row merged with a value is a value, and has lost only what was unread. *)
LEMMA MergedType ==
  ASSUME NEW row \in Entry, NEW v \in Value, NEW unread
  PROVE  Merged(row, v, unread) \in Value
<1>1. CASE row = NoRecord
  BY <1>1 DEF Merged
<1>2. CASE row # NoRecord
  <2> DEFINE rate == IF "rate" \in unread THEN v.rate ELSE MaxRate(row.rate, v.rate)
             mc == IF "mc" \in unread THEN v.mc ELSE row.mc \/ v.mc
  <2>1. row \in Value
    BY <1>2 DEF Entry
  <2>2. rate \in Rates /\ mc \in BOOLEAN
    BY <2>1 DEF MaxRate, Value
  <2>3. Merged(row, v, unread) = [rate |-> rate, mc |-> mc]
    BY <1>2 DEF Merged
  <2> HIDE DEF rate, mc
  <2> QED BY <2>2, <2>3 DEF Value
<1> QED BY <1>1, <1>2

LEMMA UpsertImprovedType ==
  ASSUME RecordsTypeOK, NEW p \in Patterns, NEW v \in Value, NEW unread,
         UpsertImproved(p, v, unread)
  PROVE  /\ records' \in [Steams -> Map]
         /\ dirtyKeys' \subseteq Patterns
         /\ cache' \in Map /\ fullDirty' \in BOOLEAN /\ table' \in [Steams -> Map]
<1> DEFINE merged == Merged(records[steamId][p], v, unread)
<1>1. records[steamId][p] \in Entry
  BY DEF RecordsTypeOK, Map
<1>2. merged \in Value
  BY <1>1, MergedType
<1>3. CASE StoreRecord(p, merged)
  <2> HIDE DEF merged
  <2> QED BY <1>2, <1>3, StoreRecordType
<1>4. CASE NothingStored
  BY <1>4, NothingStoredType
<1> QED BY <1>3, <1>4 DEF UpsertImproved

LEMMA DeleteRecordType ==
  ASSUME RecordsTypeOK, NEW p \in Patterns, DeleteRecord(p)
  PROVE  /\ records' \in [Steams -> Map]
         /\ dirtyKeys' \subseteq Patterns
         /\ cache' \in Map /\ fullDirty' \in BOOLEAN /\ table' \in [Steams -> Map]
<1>1. CASE NothingStored
  BY <1>1, NothingStoredType
<1>2. CASE ~NothingStored
  <2>1. /\ records' = [records EXCEPT ![steamId][p] = NoRecord]
        /\ cache' = [cache EXCEPT ![p] = NoRecord]
        /\ dirtyKeys' = dirtyKeys \cup {p}
        /\ UNCHANGED <<table, fullDirty>>
    BY <1>2 DEF DeleteRecord
  <2>2. NoRecord \in Entry
    BY DEF Entry
  <2>3. [records[steamId] EXCEPT ![p] = NoRecord] \in Map
    BY <2>2 DEF RecordsTypeOK, Map
  <2>4. records' = [records EXCEPT ![steamId] = [records[steamId] EXCEPT ![p] = NoRecord]]
    BY <2>1
  <2>5. records' \in [Steams -> Map]
    BY <2>3, <2>4 DEF RecordsTypeOK
  <2>6. cache' \in Map
    BY <2>1, <2>2 DEF RecordsTypeOK, Map
  <2> QED BY <2>1, <2>5, <2>6 DEF RecordsTypeOK
<1> QED BY <1>1, <1>2

LEMMA LogPlayType ==
  ASSUME RecordsTypeOK, NEW p \in Patterns, NEW v \in Value, LogPlay(p, v)
  PROVE  plays' \in [Steams -> Map]
<1>1. CASE UNCHANGED plays
  BY <1>1 DEF RecordsTypeOK
<1>2. ASSUME NEW found \in {plays[steamId][p], NoRecord},
             plays' = [plays EXCEPT ![steamId][p] = Best(found, v)]
      PROVE  plays' \in [Steams -> Map]
  <2> DEFINE best == Best(found, v)
  <2>1. found \in Entry /\ v \in Entry
    BY DEF RecordsTypeOK, Map, Entry
  <2>2. best \in Entry
    BY <2>1, BestType
  <2>3. plays' = [plays EXCEPT ![steamId] = [plays[steamId] EXCEPT ![p] = best]]
    BY <1>2
  <2> HIDE DEF best
  <2>4. [plays[steamId] EXCEPT ![p] = best] \in Map
    BY <2>2 DEF RecordsTypeOK, Map
  <2> QED BY <2>3, <2>4 DEF RecordsTypeOK
<1> QED BY <1>1, <1>2 DEF LogPlay

---------------------------------------------------------------------------
(* Every step keeps the types. *)

LEMMA HandleVerifiedPlayType ==
  ASSUME RecordsTypeOK, NEW e \in Events, NEW unread, HandleVerifiedPlay(e, unread), UNCHANGED steamId
  PROVE  RecordsTypeOK'
<1>0. e \in Event
  BY DEF Events
<1>1. e.pattern \in Patterns
  BY <1>0 DEF Event
<1>2. plays' \in [Steams -> Map]
  <2>1. CASE e.isResult /\ LogPlay(e.pattern, Shown(e))
    BY <1>1, <2>1, ShownType, LogPlayType
  <2>2. CASE UNCHANGED plays
    BY <2>2 DEF RecordsTypeOK
  <2> QED BY <2>1, <2>2 DEF HandleVerifiedPlay
<1>3. /\ records' \in [Steams -> Map]
      /\ dirtyKeys' \subseteq Patterns
      /\ cache' \in Map /\ fullDirty' \in BOOLEAN /\ table' \in [Steams -> Map]
  <2>1. CASE e.isResult /\ UpsertImproved(e.pattern, Shown(e), unread)
    BY <1>1, <2>1, ShownType, UpsertImprovedType
  <2>2. CASE e.rate > 0 /\ UpsertShown(e.pattern, Shown(e), unread)
    <3>1. Shown(e) \in Value
      BY <2>2, ShownType
    <3>2. StoreRecord(e.pattern, Shown(e)) \/ NothingStored
      BY <2>2 DEF UpsertShown
    <3> QED BY <1>1, <3>1, <3>2, StoreRecordType, NothingStoredType
  <2>3. CASE DeleteRecord(e.pattern)
    BY <1>1, <2>3, DeleteRecordType
  <2>4. CASE NothingStored
    BY <2>4, NothingStoredType
  <2> QED BY <2>1, <2>2, <2>3, <2>4 DEF HandleVerifiedPlay
<1> QED BY <1>2, <1>3 DEF RecordsTypeOK

LEMMA RefreshType ==
  ASSUME RecordsTypeOK, NEW st \in Steams, RefreshFor(st)
  PROVE  cache' \in Map /\ dirtyKeys' \subseteq Patterns /\ fullDirty' \in BOOLEAN
<1>1. NoRecords \in Map
  BY DEF NoRecords, Map, Entry
<1> QED BY <1>1 DEF RefreshFor, RecordsTypeOK

LEMMA MergeFetchedType ==
  ASSUME RecordsTypeOK, NEW st \in Steams, NEW b, NEW fetched \in Map,
         NEW skipped, NEW all \in BOOLEAN, MergeFetched(st, b, fetched, skipped, all)
  PROVE  RecordsTypeOK'
<1> DEFINE merged == [p \in Patterns |->
                        IF Button[p] # b THEN table[st][p]
                        ELSE IF fetched[p] # NoRecord THEN fetched[p]
                        ELSE IF all THEN NoRecord ELSE table[st][p]]
<1>1. merged \in Map
  BY DEF RecordsTypeOK, Map, Entry
<1>2. table' = [table EXCEPT ![st] = merged]
  BY DEF MergeFetched
<1>3. UNCHANGED <<steamId, records, plays, cache, dirtyKeys, fullDirty>>
  BY DEF MergeFetched, managerVars
<1> HIDE DEF merged
<1> QED BY <1>1, <1>2, <1>3 DEF RecordsTypeOK

LEMMA StoreStepType ==
  ASSUME RecordsTypeOK, StoreStep
  PROVE  RecordsTypeOK'
<1>1. ASSUME NEW st \in Steams, SetSteamId(st)
      PROVE  RecordsTypeOK'
  BY <1>1, RefreshType DEF SetSteamId, RecordsTypeOK, dbVars
<1>2. CASE Refresh
  <2>1. steamId \in Steams /\ RefreshFor(steamId)
    BY <1>2 DEF Refresh, RecordsTypeOK
  <2>2. cache' \in Map /\ dirtyKeys' \subseteq Patterns /\ fullDirty' \in BOOLEAN
    BY <2>1, RefreshType
  <2> QED BY <1>2, <2>2 DEF Refresh, RecordsTypeOK, dbVars
<1>3. ASSUME NEW p \in Patterns, UpsertCached(p)
      PROVE  RecordsTypeOK'
  <2>1. cache' \in Map
    BY <1>3 DEF UpsertCached, RecordsTypeOK, Map
  <2> QED BY <1>3, <2>1 DEF UpsertCached, RecordsTypeOK, dbVars
<1>4. ASSUME NEW p \in Patterns, NEW v \in Played[p], UpsertForUpload(p, v)
      PROVE  RecordsTypeOK'
  <2>1. PICK local \in {records[steamId][p], NoRecord}, unread \in Unreadable :
          UpsertImproved(p, Best(local, v), unread) \/ NothingStored
    BY <1>4 DEF UpsertForUpload
  <2> DEFINE best == Best(local, v)
  <2>2. v \in Value /\ v \in Entry /\ v # NoRecord
    BY ValuesAssumption, RecordAssumption DEF Entry
  <2>3. local \in Entry
    BY DEF RecordsTypeOK, Map, Entry
  <2>4. best \in Value
    BY <2>2, <2>3, BestType
  <2>5. UpsertImproved(p, best, unread) \/ NothingStored
    BY <2>1
  <2> HIDE DEF best
  <2>6. /\ records' \in [Steams -> Map]
        /\ dirtyKeys' \subseteq Patterns
        /\ cache' \in Map /\ fullDirty' \in BOOLEAN /\ table' \in [Steams -> Map]
    BY <2>4, <2>5, UpsertImprovedType, NothingStoredType
  <2>7. UNCHANGED <<steamId, plays>>
    BY <1>4 DEF UpsertForUpload
  <2> QED BY <2>6, <2>7 DEF RecordsTypeOK
<1>5. ASSUME NEW st \in Steams, NEW b, NEW fetched \in Map, NEW skipped, NEW all \in BOOLEAN,
             MergeFetched(st, b, fetched, skipped, all)
      PROVE  RecordsTypeOK'
  BY <1>5, MergeFetchedType
<1>6. ASSUME NEW st \in Steams, NEW p \in Patterns, PlayAges(st, p)
      PROVE  RecordsTypeOK'
  <2>1. NoRecord \in Entry
    BY DEF Entry
  <2>2. [plays[st] EXCEPT ![p] = NoRecord] \in Map
    BY <2>1 DEF RecordsTypeOK, Map
  <2>3. plays' = [plays EXCEPT ![st] = [plays[st] EXCEPT ![p] = NoRecord]]
    BY <1>6 DEF PlayAges
  <2>4. plays' \in [Steams -> Map]
    BY <2>2, <2>3 DEF RecordsTypeOK
  <2> QED BY <1>6, <2>4 DEF PlayAges, RecordsTypeOK, managerVars
<1>7. ASSUME NEW p \in Patterns, DeleteLocal(p)
      PROVE  RecordsTypeOK'
  BY <1>7, DeleteRecordType DEF DeleteLocal, RecordsTypeOK
<1> QED BY <1>1, <1>2, <1>3, <1>4, <1>5, <1>6, <1>7 DEF StoreStep

LEMMA RestartType ==
  ASSUME RecordsTypeOK, Restart
  PROVE  RecordsTypeOK'
<1>1. NoRecords \in Map
  BY DEF NoRecords, Map, Entry
<1>2. PICK st \in Steams : steamId' = st /\ RefreshFor(st)
  BY DEF Restart
<1>3. cache' \in Map /\ dirtyKeys' \subseteq Patterns /\ fullDirty' \in BOOLEAN
  BY <1>1, <1>2 DEF RefreshFor, RecordsTypeOK
<1> QED BY <1>2, <1>3 DEF Restart, RecordsTypeOK, dbVars

(* The effective rate of a pattern is an entry. *)
LEMMA RateMapType ==
  ASSUME RecordsTypeOK, NEW p \in Patterns
  PROVE  RateMap(p) \in Entry
<1>1. records[steamId][p] \in Entry /\ cache[p] \in Entry
  BY DEF RecordsTypeOK, Map
<1> QED BY <1>1, BestType DEF RateMap

---------------------------------------------------------------------------
(* THE RUNTIME HUB                                                         *)
(*                                                                         *)
(* The session keeps its types.                                            *)

(* Whatever the store answers about a pattern is an entry. *)
LEMMA ReadType ==
  ASSUME RecordsTypeOK, NEW p \in Patterns, NEW read \in RateReads(p)
  PROVE  read \in Entry
<1>1. RateMap(p) \in Entry
  BY RateMapType
<1>2. cache[p] \in Entry
  BY DEF RecordsTypeOK, Map
<1> QED BY <1>1, <1>2 DEF RateReads

(* The types of the tracker and of its history. *)
SessionTypeOK ==
  /\ initial \in SnapshotValue \cup {NoSnapshot}
  /\ entry \in [Patterns -> Rates \cup {0}]
  /\ snapped \in Patterns \cup {NoPattern}

(* What an output reads is a value a snapshot can hold. *)
LEMMA ReadIsSnapshot ==
  ASSUME NEW read \in Entry
  PROVE  /\ (IF read = NoRecord THEN Zero ELSE read) \in SnapshotValue
         /\ (IF read = NoRecord THEN Zero ELSE read).rate = RateOf(read)
<1>1. CASE read = NoRecord
  BY <1>1 DEF Zero, SnapshotValue, RateOf
<1>2. CASE read # NoRecord
  <2>1. read \in Value
    BY <1>2 DEF Entry
  <2>2. read \in SnapshotValue
    BY <2>1 DEF Value, SnapshotValue
  <2> QED BY <1>2, <2>2 DEF RateOf
<1> QED BY <1>1, <1>2

LEMMA RecordSessionType ==
  ASSUME RecordsTypeOK, SessionTypeOK, NEW scene, NEW ctx \in Patterns \cup {NoPattern},
         NEW read \in Entry, RecordSession(scene, ctx, read)
  PROVE  SessionTypeOK'
<1>1. initial' \in SnapshotValue \cup {NoSnapshot}
  <2>1. initial' \in {NoSnapshot, initial, IF read = NoRecord THEN Zero ELSE read}
    BY DEF RecordSession, Observed
  <2> QED BY <2>1, ReadIsSnapshot DEF SessionTypeOK
<1>2. entry' \in [Patterns -> Rates \cup {0}]
  <2>1. CASE entry' = [p \in Patterns |-> 0]
    BY <2>1
  <2>2. CASE entry' = [p \in Patterns |-> RateOf(IF p = ctx THEN read ELSE RateMap(p))]
    <3>1. \A p \in Patterns :
             RateOf(IF p = ctx THEN read ELSE RateMap(p)) \in Rates \cup {0}
      BY RateMapType, RateOfType
    <3> QED BY <2>2, <3>1
  <2>3. CASE entry' = entry
    BY <2>3 DEF SessionTypeOK
  <2> QED BY <2>1, <2>2, <2>3 DEF RecordSession
<1>3. snapped' \in Patterns \cup {NoPattern}
  BY DEF RecordSession, SessionTypeOK
<1> QED BY <1>1, <1>2, <1>3 DEF SessionTypeOK

(* An output, with or without a verified play, is one step of the session. *)
LEMMA OutputStep ==
  ASSUME RecordsTypeOK, NEW e \in Events, NEW unread \in Unreadable, OnVerifiedPlay(e, unread)
  PROVE  /\ e.pattern \in Patterns
         /\ HandleVerifiedPlay(e, unread) /\ steamId' = steamId
         /\ \E read \in Entry :
              RecordSession(IF e.isResult THEN "Result" ELSE "Select", e.pattern, read)
<1>1. e.pattern \in Patterns
  BY DEF Events, Event
<1>2. PICK read \in RateReads(e.pattern) :
        RecordSession(IF e.isResult THEN "Result" ELSE "Select", e.pattern, read)
  BY DEF OnVerifiedPlay
<1>3. read \in Entry
  BY <1>1, ReadType
<1> QED BY <1>1, <1>2, <1>3 DEF OnVerifiedPlay

LEMMA StateStep ==
  ASSUME RecordsTypeOK, NEW scene, NEW ctx \in Patterns \cup {NoPattern}, OnState(scene, ctx)
  PROVE  \E read \in Entry : RecordSession(scene, ctx, read)
<1>1. PICK read \in IF ctx = NoPattern THEN {NoRecord} ELSE RateReads(ctx) :
        RecordSession(scene, ctx, read)
  BY DEF OnState
<1>2. read \in Entry
  <2>1. CASE ctx = NoPattern
    BY <2>1 DEF Entry
  <2>2. CASE ctx # NoPattern
    BY <2>2, ReadType
  <2> QED BY <2>1, <2>2
<1> QED BY <1>1, <1>2

LEMMA InitTypeOK == Init => TypeOK
<1> SUFFICES ASSUME Init PROVE TypeOK
  OBVIOUS
<1>1. NoRecords \in Map
  BY DEF NoRecords, Map, Entry
<1>2. [st \in Steams |-> NoRecords] \in [Steams -> Map]
  BY <1>1
<1>3. [p \in Patterns |-> 0] \in [Patterns -> Rates \cup {0}]
  OBVIOUS
<1> QED BY <1>1, <1>2, <1>3 DEF Init, RecordsInit, TypeOK, RecordsTypeOK

LEMMA NextTypeOK == TypeOK /\ [Next]_vars => TypeOK'
<1> SUFFICES ASSUME TypeOK, [Next]_vars PROVE TypeOK'
  OBVIOUS
<1>0. RecordsTypeOK /\ SessionTypeOK
  BY DEF TypeOK, SessionTypeOK
<1>a. SUFFICES RecordsTypeOK' /\ SessionTypeOK'
  BY DEF TypeOK, SessionTypeOK
<1>1. ASSUME NEW scene \in Scene, NEW ctx \in Patterns \cup {NoPattern}, OnState(scene, ctx)
      PROVE  RecordsTypeOK' /\ SessionTypeOK'
  <2>1. SessionTypeOK'
    BY <1>0, <1>1, StateStep, RecordSessionType
  <2>2. RecordsTypeOK'
    BY <1>0, <1>1 DEF OnState, recordVars, dbVars, managerVars, RecordsTypeOK
  <2> QED BY <2>1, <2>2
<1>2. ASSUME NEW e \in Events, NEW unread \in Unreadable, OnVerifiedPlay(e, unread)
      PROVE  RecordsTypeOK' /\ SessionTypeOK'
  <2>1. PICK read \in Entry :
          RecordSession(IF e.isResult THEN "Result" ELSE "Select", e.pattern, read)
    BY <1>0, <1>2, OutputStep
  <2>2. e.pattern \in Patterns /\ HandleVerifiedPlay(e, unread) /\ steamId' = steamId
    BY <1>0, <1>2, OutputStep
  <2>3. SessionTypeOK'
    BY <1>0, <2>1, <2>2, RecordSessionType
  <2>4. RecordsTypeOK'
    BY <1>0, <2>2, HandleVerifiedPlayType
  <2> QED BY <2>3, <2>4
<1>3. CASE Background
  BY <1>0, <1>3, StoreStepType DEF Background, SessionTypeOK
<1>4. CASE RestartApp
  <2>1. SessionTypeOK'
    BY <1>4 DEF RestartApp, SessionTypeOK
  <2> QED BY <1>0, <1>4, <2>1, RestartType DEF RestartApp
<1>5. CASE UNCHANGED vars
  BY <1>0, <1>5 DEF vars, recordVars, dbVars, managerVars, SessionTypeOK, RecordsTypeOK
<1> QED BY <1>1, <1>2, <1>3, <1>4, <1>5 DEF Next

(* The store and the tracker always hold values of their types.            *)
THEOREM TypeCorrect == Spec => []TypeOK
<1> QED BY InitTypeOK, NextTypeOK, PTL DEF Spec

---------------------------------------------------------------------------
(* A verified play of the result screen costs no record.                   *)

LEMMA RateIsInt == \A r \in Rates : r \in Int
BY RateAssumption

(* A merged row falls short of the row only in a field that was unread. *)
LEMMA MergedKeeps ==
  ASSUME NEW row \in Entry, NEW v \in Value, NEW unread, row # NoRecord
  PROVE  /\ Merged(row, v, unread) # NoRecord
         /\ "rate" \in unread \/ Merged(row, v, unread).rate >= row.rate
         /\ "mc" \in unread \/ (row.mc => Merged(row, v, unread).mc)
<1>1. row \in Value
  BY DEF Entry
<1>2. row.rate \in Int /\ v.rate \in Int
  <2>1. row.rate \in Rates /\ v.rate \in Rates
    BY <1>1 DEF Value
  <2> QED BY <2>1, RateIsInt
<1>3. MaxRate(row.rate, v.rate) >= row.rate
  BY <1>2 DEF MaxRate
<1>4. Merged(row, v, unread) # NoRecord
  BY MergedType, RecordAssumption
<1>5. "rate" \in unread \/ Merged(row, v, unread).rate = MaxRate(row.rate, v.rate)
  BY DEF Merged
<1>6. "mc" \in unread \/ Merged(row, v, unread).mc = (row.mc \/ v.mc)
  BY DEF Merged
<1> QED BY <1>3, <1>4, <1>5, <1>6

(* Rows that stay as they are lose nothing. *)
LEMMA UnchangedRowKept ==
  ASSUME RecordsTypeOK, NEW st \in Steams, NEW p \in Patterns, NEW unread,
         records'[st][p] = records[st][p]
  PROVE  Keeps(st, p, unread)
<1>1. records[st][p] \in Entry
  BY DEF RecordsTypeOK, Map
<1>2. records[st][p] # NoRecord => records[st][p].rate \in Int
  <2>1. records[st][p] # NoRecord => records[st][p].rate \in Rates
    BY <1>1 DEF Entry, Value
  <2> QED BY <2>1, RateIsInt
<1> QED BY <1>2 DEF Keeps

LEMMA UpsertKeepsBest ==
  ASSUME RecordsTypeOK, NEW q \in Patterns, NEW v \in Value, NEW unread,
         UpsertImproved(q, v, unread), NEW st \in Steams, NEW p \in Patterns
  PROVE  Keeps(st, p, IF st = steamId /\ p = q THEN unread ELSE {})
<1> DEFINE row == records[steamId][q]
           merged == Merged(row, v, unread)
<1>1. CASE NothingStored
  BY <1>1, UnchangedRowKept DEF NothingStored
<1>2. CASE StoreRecord(q, merged)
  <2>1. row \in Entry
    BY DEF RecordsTypeOK, Map
  <2>2. row # NoRecord =>
          /\ merged # NoRecord
          /\ "rate" \in unread \/ merged.rate >= row.rate
          /\ "mc" \in unread \/ (row.mc => merged.mc)
    BY <2>1, MergedKeeps
  <2> HIDE DEF merged
  <2>3. records' = [records EXCEPT ![steamId] = [records[steamId] EXCEPT ![q] = merged]]
    BY <1>2 DEF StoreRecord
  <2>4. CASE st = steamId /\ p = q
    <3>1. records'[st][p] = merged
      BY <2>3, <2>4 DEF RecordsTypeOK, Map
    <3> QED BY <2>2, <2>4, <3>1 DEF Keeps
  <2>5. CASE ~(st = steamId /\ p = q)
    <3>1. records'[st][p] = records[st][p]
      BY <2>3, <2>5 DEF RecordsTypeOK, Map
    <3> QED BY <2>5, <3>1, UnchangedRowKept
  <2> QED BY <2>4, <2>5
<1> QED BY <1>1, <1>2 DEF UpsertImproved

LEMMA ResultPlayKeepsBest ==
  ASSUME TypeOK, NEW e \in Events, NEW unread \in Unreadable, e.isResult,
         OnVerifiedPlay(e, unread), NEW st \in Steams, NEW p \in Patterns
  PROVE  Keeps(st, p, UnreadOf(e, unread, st, p))
<1>0. RecordsTypeOK
  BY DEF TypeOK
<1>1. e.pattern \in Patterns /\ HandleVerifiedPlay(e, unread)
  BY <1>0, OutputStep
<1>2. Shown(e) \in Value
  BY ShownType
<1>3. CASE UpsertImproved(e.pattern, Shown(e), unread)
  BY <1>0, <1>1, <1>2, <1>3, UpsertKeepsBest DEF UnreadOf
<1>4. CASE NothingStored
  BY <1>0, <1>4, UnchangedRowKept DEF NothingStored
<1> QED BY <1>1, <1>3, <1>4 DEF HandleVerifiedPlay

(* A verified play of the result screen takes no row, lowers no rate and    *)
(* takes no max combo, on any account, whether its write succeeds, fails or *)
(* improves one field only; where its read of the row failed, it may lower  *)
(* of the played pattern's row exactly the fields it could not read         *)
(* (try_handle_verified_play, try_upsert).                                  *)
THEOREM KeepsBest == Spec => ResultKeepsBest
<1>1. TypeOK /\ [Next]_vars =>
        [records' # records =>
           \A e \in Events, unread \in Unreadable : e.isResult =>
             \/ \A st \in Steams, p \in Patterns : Keeps(st, p, UnreadOf(e, unread, st, p))
             \/ ~OnVerifiedPlay(e, unread)]_vars
  BY ResultPlayKeepsBest
<1> QED BY <1>1, TypeCorrect, PTL DEF Spec, ResultKeepsBest

---------------------------------------------------------------------------
(* A personal best is judged against the entry of the result screen.       *)

(* The snapshot is taken exactly when the result screen first shows a      *)
(* pattern, and keeps the rate that was read of that pattern then.         *)
SnapshotOfEntry ==
  /\ initial = NoSnapshot <=> snapped = NoPattern
  /\ snapped # NoPattern => initial.rate = entry[snapped]

LEMMA SessionKeepsEntry ==
  ASSUME SessionTypeOK, SnapshotOfEntry, NEW scene,
         NEW ctx \in Patterns \cup {NoPattern}, NEW read \in Entry,
         RecordSession(scene, ctx, read)
  PROVE  SnapshotOfEntry'
<1>1. CASE scene # "Result"
  BY <1>1 DEF RecordSession, Observed, SnapshotOfEntry
<1>2. CASE scene = "Result" /\ ~(ctx # NoPattern /\ initial = NoSnapshot)
  <2>1. initial' = initial
    BY <1>2 DEF RecordSession, Observed, TakesSnapshot
  <2>2. UNCHANGED <<entry, snapped>>
    BY <1>2 DEF RecordSession, SnapshotOfEntry
  <2> QED BY <2>1, <2>2 DEF SnapshotOfEntry
<1>3. CASE scene = "Result" /\ ctx # NoPattern /\ initial = NoSnapshot
  <2> DEFINE first == IF read = NoRecord THEN Zero ELSE read
  <2>1. initial' = first
    BY <1>3 DEF RecordSession, Observed, TakesSnapshot
  <2>2. snapped' = ctx /\ entry' = [p \in Patterns |-> RateOf(IF p = ctx THEN read ELSE RateMap(p))]
    BY <1>3 DEF RecordSession, SnapshotOfEntry
  <2>3. ctx \in Patterns /\ entry'[ctx] = RateOf(read)
    BY <1>3, <2>2
  <2>4. first \in SnapshotValue /\ first.rate = RateOf(read)
    BY ReadIsSnapshot
  <2> HIDE DEF first
  <2>5. initial' # NoSnapshot
    BY <2>1, <2>4, SnapshotAssumption
  <2> QED BY <1>3, <2>1, <2>2, <2>3, <2>4, <2>5 DEF SnapshotOfEntry
<1> QED BY <1>1, <1>2, <1>3

LEMMA NextSnapshotOfEntry ==
  TypeOK /\ SnapshotOfEntry /\ [Next]_vars => SnapshotOfEntry'
<1> SUFFICES ASSUME TypeOK, SnapshotOfEntry, [Next]_vars PROVE SnapshotOfEntry'
  OBVIOUS
<1>0. RecordsTypeOK /\ SessionTypeOK
  BY DEF TypeOK, SessionTypeOK
<1>1. ASSUME NEW scene \in Scene, NEW ctx \in Patterns \cup {NoPattern}, OnState(scene, ctx)
      PROVE  SnapshotOfEntry'
  BY <1>0, <1>1, StateStep, SessionKeepsEntry
<1>2. ASSUME NEW e \in Events, NEW unread \in Unreadable, OnVerifiedPlay(e, unread)
      PROVE  SnapshotOfEntry'
  BY <1>0, <1>2, OutputStep, SessionKeepsEntry
<1>3. CASE Background
  BY <1>3 DEF Background, SnapshotOfEntry
<1>4. CASE RestartApp
  BY <1>4 DEF RestartApp, SnapshotOfEntry
<1>5. CASE UNCHANGED vars
  BY <1>5 DEF vars, SnapshotOfEntry
<1> QED BY <1>1, <1>2, <1>3, <1>4, <1>5 DEF Next

(* The snapshot always stands for the entry of the result screen.          *)
THEOREM SnapshotKept == Spec => []SnapshotOfEntry
<1>1. Init => SnapshotOfEntry
  BY DEF Init, SnapshotOfEntry
<1> QED BY <1>1, NextSnapshotOfEntry, TypeCorrect, PTL DEF Spec

(* Once the result screen shows the pattern it came up with, the answer of *)
(* is_pb is the comparison with the entry: a play stored meanwhile, a      *)
(* fetch or a refresh decides nothing.                                     *)
LEMMA PbOfEntry ==
  ASSUME SnapshotOfEntry', NEW e \in Events, snapped' = e.pattern
  PROVE  JudgedAgainstEntry(e)
<1>1. e.pattern \in Patterns
  BY DEF Events, Event
<1>2. snapped' # NoPattern
  BY <1>1, SnapshotAssumption
<1>3. initial' # NoSnapshot /\ initial'.rate = entry'[e.pattern]
  BY <1>2 DEF SnapshotOfEntry
<1> QED BY <1>3 DEF JudgedAgainstEntry, IsPb

(* A play is announced as a personal best exactly when it beats what the   *)
(* store showed of its pattern when the result screen came up with it,     *)
(* whatever was stored, fetched, refreshed or failed to be read since      *)
(* (SessionTracker::observe, is_pb).                                       *)
THEOREM PbOfThisScreen == Spec => PbAgainstEntry
<1>1. SnapshotOfEntry' =>
        [\A e \in Events : e.isResult /\ snapped' = e.pattern
           => \/ JudgedAgainstEntry(e)
              \/ \A unread \in Unreadable : ~OnVerifiedPlay(e, unread)]_vars
  BY PbOfEntry
<1> QED BY <1>1, SnapshotKept, PTL DEF PbAgainstEntry

---------------------------------------------------------------------------
(* THE FLOOR CACHE                                                         *)

LEMMA FloorInitTypeOK == FloorInit => FloorTypeOK
<1> SUFFICES ASSUME FloorInit PROVE FloorTypeOK
  OBVIOUS
<1>1. NoRecords \in Map
  BY DEF NoRecords, Map, Entry
<1>2. [st \in Steams |-> NoRecords] \in [Steams -> Map]
  BY <1>1
<1>3. [p \in Patterns |-> 0] \in [Patterns -> Rates \cup {0}]
  OBVIOUS
<1> QED BY <1>1, <1>2, <1>3 DEF FloorInit, RecordsInit, FloorTypeOK, RecordsTypeOK

LEMMA FloorNextTypeOK == FloorTypeOK /\ [FloorNext]_floorCacheVars => FloorTypeOK'
<1> SUFFICES ASSUME FloorTypeOK, [FloorNext]_floorCacheVars PROVE FloorTypeOK'
  OBVIOUS
<1>0. /\ RecordsTypeOK /\ floorDirty \subseteq Buckets
      /\ floorView \in [Patterns -> Rates \cup {0}] /\ misread \subseteq Patterns
  BY DEF FloorTypeOK
<1>1. ASSUME NEW e \in Events, PlayVerified(e)
      PROVE  FloorTypeOK'
  BY <1>0, <1>1, HandleVerifiedPlayType DEF PlayVerified, floorVars, FloorTypeOK
<1>2. CASE StoreStep /\ UNCHANGED floorVars
  BY <1>0, <1>2, StoreStepType DEF floorVars, FloorTypeOK
<1>3. CASE EnsureFloorRateCache
  <2>1. PICK read \in [Patterns -> Entry] :
           floorView' = [p \in Patterns |->
                           IF Touched(p) THEN RateOf(read[p]) ELSE floorView[p]]
    BY <1>3 DEF EnsureFloorRateCache
  <2>2. floorView' \in [Patterns -> Rates \cup {0}]
    BY <1>0, <2>1, RateOfType
  <2>3. RecordsTypeOK'
    BY <1>0, <1>3 DEF EnsureFloorRateCache, RecordsTypeOK, dbVars
  <2> QED BY <1>3, <2>2, <2>3 DEF EnsureFloorRateCache, FloorTypeOK
<1>4. ASSUME EmptySummaries
      PROVE  /\ floorDirty' \subseteq Buckets
             /\ floorView' \in [Patterns -> Rates \cup {0}]
             /\ misread' \subseteq Patterns
  BY <1>4 DEF EmptySummaries
<1>5. CASE SwapSongDB
  <2>1. RecordsTypeOK'
    BY <1>0, <1>5, RefreshType DEF SwapSongDB, Refresh, dbVars, RecordsTypeOK
  <2> QED BY <1>4, <1>5, <2>1 DEF SwapSongDB, FloorTypeOK
<1>6. CASE RestartRecommender
  BY <1>0, <1>4, <1>6, RestartType DEF RestartRecommender, FloorTypeOK
<1>7. CASE UNCHANGED floorCacheVars
  BY <1>0, <1>7 DEF floorCacheVars, recordVars, dbVars, managerVars, floorVars, FloorTypeOK, RecordsTypeOK
<1> QED BY <1>1, <1>2, <1>3, <1>5, <1>6, <1>7 DEF FloorNext

(* The store and the floor cache always hold values of their types.         *)
THEOREM FloorTypeCorrect == FloorSpec => []FloorTypeOK
<1> QED BY FloorInitTypeOK, FloorNextTypeOK, PTL DEF FloorSpec

---------------------------------------------------------------------------
(* No summary is stale without a flag.                                      *)

(* A step that changes one pattern's row or cache entry, and flags it.      *)
LEMMA ChangedKeyIsFlagged ==
  ASSUME StaleIsFlagged, NEW q \in Patterns,
         UNCHANGED <<steamId, fullDirty, floorDirty, floorView, misread>>,
         dirtyKeys' = dirtyKeys \cup {q},
         \A p \in Patterns \ {q} : /\ records'[steamId][p] = records[steamId][p]
                                   /\ cache'[p] = cache[p]
  PROVE  StaleIsFlagged'
<1> SUFFICES ASSUME NEW p \in Patterns, p \notin misread,
                    floorView'[p] # RateOf(RateMap(p))'
             PROVE  fullDirty' \/ p \in dirtyKeys' \/ Bucket[p] \in floorDirty'
  BY DEF StaleIsFlagged
<1>1. CASE p = q
  BY <1>1
<1>2. CASE p # q
  <2>1. RateOf(RateMap(p))' = RateOf(RateMap(p))
    BY <1>2 DEF RateMap, RateOf, Best
  <2>2. floorView[p] # RateOf(RateMap(p))
    BY <2>1
  <2> QED BY <2>2 DEF StaleIsFlagged
<1> QED BY <1>1, <1>2

(* A step that changes neither rates nor flags nor summaries. *)
LEMMA NothingChanged ==
  ASSUME StaleIsFlagged,
         UNCHANGED <<steamId, records, cache, dirtyKeys, fullDirty, floorDirty, floorView, misread>>
  PROVE  StaleIsFlagged'
BY DEF StaleIsFlagged, RateMap, RateOf, Best

LEMMA StoreRecordFlags ==
  ASSUME RecordsTypeOK, StaleIsFlagged, NEW q \in Patterns, NEW v, StoreRecord(q, v),
         UNCHANGED <<steamId, floorDirty, floorView, misread>>
  PROVE  StaleIsFlagged'
<1>1. \A p \in Patterns \ {q} : records'[steamId][p] = records[steamId][p]
  BY DEF StoreRecord, RecordsTypeOK, Map
<1>2. dirtyKeys' = dirtyKeys \cup {q} /\ UNCHANGED <<cache, fullDirty>>
  BY DEF StoreRecord
<1> QED BY <1>1, <1>2, ChangedKeyIsFlagged

LEMMA DeleteRecordFlags ==
  ASSUME RecordsTypeOK, StaleIsFlagged, NEW q \in Patterns, DeleteRecord(q),
         UNCHANGED <<steamId, floorDirty, floorView, misread>>
  PROVE  StaleIsFlagged'
<1>1. CASE NothingStored
  BY <1>1, NothingChanged DEF NothingStored, managerVars
<1>2. CASE ~NothingStored
  <2>1. /\ records' = [records EXCEPT ![steamId][q] = NoRecord]
        /\ cache' = [cache EXCEPT ![q] = NoRecord]
        /\ dirtyKeys' = dirtyKeys \cup {q}
        /\ UNCHANGED fullDirty
    BY <1>2 DEF DeleteRecord
  <2>2. \A p \in Patterns \ {q} : /\ records'[steamId][p] = records[steamId][p]
                                  /\ cache'[p] = cache[p]
    BY <2>1 DEF RecordsTypeOK, Map
  <2> QED BY <2>1, <2>2, ChangedKeyIsFlagged
<1> QED BY <1>1, <1>2

LEMMA HandleVerifiedPlayFlags ==
  ASSUME RecordsTypeOK, StaleIsFlagged, NEW e \in Events, NEW unread, HandleVerifiedPlay(e, unread),
         UNCHANGED <<steamId, floorDirty, floorView, misread>>
  PROVE  StaleIsFlagged'
<1>1. e.pattern \in Patterns
  BY DEF Events, Event
<1>2. CASE NothingStored
  BY <1>2, NothingChanged DEF NothingStored, managerVars
<1>3. ASSUME NEW v, StoreRecord(e.pattern, v)
      PROVE  StaleIsFlagged'
  BY <1>1, <1>3, StoreRecordFlags
<1>4. CASE DeleteRecord(e.pattern)
  BY <1>1, <1>4, DeleteRecordFlags
<1>5. CASE UpsertImproved(e.pattern, Shown(e), unread)
  BY <1>2, <1>3, <1>5 DEF UpsertImproved
<1>6. CASE UpsertShown(e.pattern, Shown(e), unread)
  BY <1>2, <1>3, <1>6 DEF UpsertShown
<1> QED BY <1>2, <1>4, <1>5, <1>6 DEF HandleVerifiedPlay

LEMMA StoreStepFlags ==
  ASSUME RecordsTypeOK, StaleIsFlagged, StoreStep, UNCHANGED <<floorDirty, floorView, misread>>
  PROVE  StaleIsFlagged'
<1>1. ASSUME NEW st \in Steams, SetSteamId(st) \/ Refresh
      PROVE  StaleIsFlagged'
  BY <1>1 DEF SetSteamId, Refresh, RefreshFor, StaleIsFlagged
<1>2. ASSUME NEW q \in Patterns, UpsertCached(q)
      PROVE  StaleIsFlagged'
  <2>1. \A p \in Patterns \ {q} : cache'[p] = cache[p]
    BY <1>2 DEF UpsertCached, RecordsTypeOK, Map
  <2>2. dirtyKeys' = dirtyKeys \cup {q} /\ UNCHANGED <<steamId, records, fullDirty>>
    BY <1>2 DEF UpsertCached, dbVars
  <2> QED BY <2>1, <2>2, ChangedKeyIsFlagged
<1>3. ASSUME NEW q \in Patterns, NEW v, UpsertForUpload(q, v)
      PROVE  StaleIsFlagged'
  <2>1. UNCHANGED steamId
    BY <1>3 DEF UpsertForUpload
  <2>2. NothingStored \/ \E w : StoreRecord(q, w)
    BY <1>3 DEF UpsertForUpload, UpsertImproved
  <2>3. CASE NothingStored
    BY <2>1, <2>3, NothingChanged DEF NothingStored, managerVars
  <2> QED BY <2>1, <2>2, <2>3, StoreRecordFlags
<1>4. ASSUME NEW st, NEW b, NEW fetched, NEW skipped, NEW all, MergeFetched(st, b, fetched, skipped, all)
      PROVE  StaleIsFlagged'
  BY <1>4, NothingChanged DEF MergeFetched, managerVars
<1>5. ASSUME NEW st, NEW q, PlayAges(st, q)
      PROVE  StaleIsFlagged'
  BY <1>5, NothingChanged DEF PlayAges, managerVars
<1>6. ASSUME NEW q \in Patterns, DeleteLocal(q)
      PROVE  StaleIsFlagged'
  BY <1>6, DeleteRecordFlags DEF DeleteLocal
<1> QED BY <1>1, <1>2, <1>3, <1>4, <1>5, <1>6, SteamAssumption DEF StoreStep

(* The recommender sums again exactly the buckets that may be stale. *)
LEMMA EnsureLeavesNothingStale ==
  ASSUME StaleIsFlagged, EnsureFloorRateCache
  PROVE  StaleIsFlagged'
<1> SUFFICES ASSUME NEW p \in Patterns, p \notin misread'
             PROVE  floorView'[p] = RateOf(RateMap(p))'
  BY DEF StaleIsFlagged
<1>1. RateOf(RateMap(p))' = RateOf(RateMap(p))
  BY DEF EnsureFloorRateCache, dbVars, RateMap, RateOf, Best
<1>2. PICK read \in [Patterns -> Entry] :
        /\ floorView' = [q \in Patterns |->
                           IF Touched(q) THEN RateOf(read[q]) ELSE floorView[q]]
        /\ misread' = {q \in Patterns :
                         IF Touched(q) THEN read[q] # RateMap(q) ELSE q \in misread}
  BY DEF EnsureFloorRateCache
<1>3. CASE Touched(p)
  BY <1>1, <1>2, <1>3
<1>4. CASE ~Touched(p)
  <2>1. ~fullDirty /\ p \notin dirtyKeys /\ Bucket[p] \notin floorDirty
    BY <1>4 DEF Touched, TouchedBuckets, Buckets
  <2>2. p \notin misread
    BY <1>2, <1>4
  <2>3. floorView[p] = RateOf(RateMap(p))
    BY <2>1, <2>2 DEF StaleIsFlagged
  <2> QED BY <1>1, <1>2, <1>4, <2>3
<1> QED BY <1>3, <1>4

LEMMA EmptyIsFlagged ==
  ASSUME EmptySummaries
  PROVE  StaleIsFlagged'
BY DEF EmptySummaries, StaleIsFlagged, Buckets

LEMMA NextFlags == FloorTypeOK /\ StaleIsFlagged /\ [FloorNext]_floorCacheVars => StaleIsFlagged'
<1> SUFFICES ASSUME FloorTypeOK, StaleIsFlagged, [FloorNext]_floorCacheVars PROVE StaleIsFlagged'
  OBVIOUS
<1>0. RecordsTypeOK
  BY DEF FloorTypeOK
<1>1. ASSUME NEW e \in Events, PlayVerified(e)
      PROVE  StaleIsFlagged'
  BY <1>0, <1>1, HandleVerifiedPlayFlags DEF PlayVerified, floorVars
<1>2. CASE StoreStep /\ UNCHANGED floorVars
  BY <1>0, <1>2, StoreStepFlags DEF floorVars
<1>3. CASE EnsureFloorRateCache
  BY <1>3, EnsureLeavesNothingStale
<1>4. CASE SwapSongDB \/ RestartRecommender
  BY <1>4, EmptyIsFlagged DEF SwapSongDB, RestartRecommender
<1>5. CASE UNCHANGED floorCacheVars
  BY <1>5, NothingChanged DEF floorCacheVars, recordVars, dbVars, managerVars, floorVars
<1> QED BY <1>1, <1>2, <1>3, <1>4, <1>5 DEF FloorNext

(* However plays, deletions, uploads, fetches, account switches, song DB    *)
(* swaps and restarts are interleaved with the recommender's reads, a       *)
(* summary that lags the records is flagged (consume_dirty_info is sound).  *)
THEOREM NeverStaleUnnoticed == FloorSpec => []StaleIsFlagged
<1>1. FloorInit => StaleIsFlagged
  BY DEF FloorInit, RecordsInit, StaleIsFlagged
<1> QED BY <1>1, FloorInitTypeOK, FloorNextTypeOK, NextFlags, PTL DEF FloorSpec
============================================================================
