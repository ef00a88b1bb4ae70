------------------------------ MODULE Records ------------------------------
(***************************************************************************)
(* The record store: RecordDB's tables (record_db/mod.rs, sync.rs) and the *)
(* V-Archive cache and dirty flags RecordManager keeps in memory.          *)
(*                                                                         *)
(* A pattern stands for (song, mode, difficulty), a rate for the percent   *)
(* value; only the order of rates matters.  The UI thread is the only      *)
(* caller of the methods; fetch and upload threads write varchive_records  *)
(* behind its back.  RuntimeHub and FloorCache build on this module.       *)
(***************************************************************************)
EXTENDS Integers, FiniteSets

CONSTANTS
  Patterns,    \* (song_id, mode, difficulty) keys
  Steams,      \* Steam ids, UNKNOWN_STEAM_ID included
  UnknownSteam,
  Rates,       \* rates a screen can show for a played pattern
  Button,      \* the button mode of each pattern
  Played,      \* the values a screen may show of each pattern
  Fetched,     \* the values V-Archive may return for each pattern
  NoRecord     \* no row, no cache entry

ASSUME RateAssumption == Rates \subseteq Nat \ {0}
ASSUME SteamAssumption == UnknownSteam \in Steams

Value == [rate : Rates, mc : BOOLEAN]
ASSUME RecordAssumption == NoRecord \notin Value
Entry == Value \cup {NoRecord}
Map == [Patterns -> Entry]
NoRecords == [p \in Patterns |-> NoRecord]

ASSUME ValuesAssumption == /\ Played \in [Patterns -> SUBSET Value]
                           /\ Fetched \in [Patterns -> SUBSET Value]

VARIABLES
  steamId,      \* RecordDB::steam_id
  records,      \* table records: [steam -> [pattern -> row]]
  table,        \* table varchive_records
  plays,        \* the play_events row of the last 45 seconds
  cache,        \* RecordManager::varchive_cache
  dirtyKeys,    \* RecordManager::dirty_record_keys
  fullDirty     \* RecordManager::full_dirty

dbVars == <<records, table, plays>>
managerVars == <<cache, dirtyKeys, fullDirty>>
recordVars == <<steamId, dbVars, managerVars>>

MaxRate(a, b) == IF a < b THEN b ELSE a

(* The best of two records, field by field. *)
Best(a, b) ==
  IF a = NoRecord THEN b
  ELSE IF b = NoRecord THEN a
  ELSE [rate |-> MaxRate(a.rate, b.rate), mc |-> a.mc \/ b.mc]

RateOf(e) == IF e = NoRecord THEN 0 ELSE e.rate

(* RecordManager::get_rate_map: the local row merged with the cache. *)
RateMap(p) == Best(records[steamId][p], cache[p])

(* Its query may fail: the row then reads as absent, and nobody is told. *)
RateReads(p) == {RateMap(p), cache[p]}

Improves(old, v) ==
  old # NoRecord => v.rate > old.rate \/ (v.mc /\ ~old.mc)

---------------------------------------------------------------------------
(* RecordManager methods.  "TryUpsert fails" covers every Err of the DB.    *)

StoreRecord(p, v) ==
  /\ records' = [records EXCEPT ![steamId][p] = v]
  /\ dirtyKeys' = dirtyKeys \cup {p}
  /\ UNCHANGED <<table, cache, fullDirty>>

NothingStored == UNCHANGED <<records, table, managerVars>>

(* try_upsert reads the row before it writes.  What a failing SELECT or a   *)
(* column that does not convert leaves out reads as absent: unread names it. *)
Unreadable == SUBSET {"rate", "mc"}

Merged(row, v, unread) ==
  IF row = NoRecord THEN v
  ELSE [rate |-> IF "rate" \in unread THEN v.rate ELSE MaxRate(row.rate, v.rate),
        mc |-> IF "mc" \in unread THEN v.mc ELSE row.mc \/ v.mc]

(* Mistake: an improvement of one field loses the other. *)
UpsertUnmerged(p, v, unread) ==
  LET writes == unread # {} \/ Improves(records[steamId][p], v)
  IN  \/ writes /\ StoreRecord(p, v)
      \/ ~writes /\ NothingStored

(* Result screen: written only if it improves, merged with the row; an      *)
(* absent field always improves.                                            *)
UpsertImproved(p, v, unread) ==
  LET writes == unread # {} \/ Improves(records[steamId][p], v)
  IN  \/ writes /\ StoreRecord(p, Merged(records[steamId][p], v, unread))
      \/ ~writes /\ NothingStored

(* Song select: the row becomes what the screen shows, lower or not, unless *)
(* it is known to be that already.                                          *)
UpsertShown(p, v, unread) ==
  LET writes == unread # {} \/ records[steamId][p] # v
  IN  \/ writes /\ StoreRecord(p, v)
      \/ ~writes /\ NothingStored

(* Song select shows the pattern unplayed: the row and the cache entry go. *)
DeleteRecord(p) ==
  \/ /\ records[steamId][p] # NoRecord
     /\ records' = [records EXCEPT ![steamId][p] = NoRecord]
     /\ cache' = [cache EXCEPT ![p] = NoRecord]
     /\ dirtyKeys' = dirtyKeys \cup {p}
     /\ UNCHANGED <<table, fullDirty>>
  \/ /\ records[steamId][p] = NoRecord
     /\ NothingStored

(* insert_play_event: a row of the last 45 s is improved in place; if the  *)
(* step to it fails, a second and newer row is inserted.                    *)
LogPlay(p, v) ==
  IF steamId = UnknownSteam
    THEN UNCHANGED plays
    ELSE \E found \in {plays[steamId][p], NoRecord} :
           plays' = [plays EXCEPT ![steamId][p] = Best(found, v)]

(* Forty-five seconds pass: the row is history no query looks at again. *)
PlayAges(st, p) ==
  /\ plays[st][p] # NoRecord
  /\ plays' = [plays EXCEPT ![st][p] = NoRecord]
  /\ UNCHANGED <<steamId, records, table, managerVars>>

(* try_handle_verified_play; an event is [pattern, rate, mc, isResult]. *)
Shown(e) == [rate |-> e.rate, mc |-> e.mc]

(* Mistake: an unplayed pattern on song select is stored as a record. *)
HandleUnplayedAsRecord(e, unread) ==
  /\ \/ e.isResult /\ LogPlay(e.pattern, Shown(e))
     \/ UNCHANGED plays
  /\ \/ e.isResult /\ UpsertImproved(e.pattern, Shown(e), unread)
     \/ ~e.isResult /\ UpsertShown(e.pattern, Shown(e), unread)

HandleVerifiedPlay(e, unread) ==
  /\ \/ e.isResult /\ LogPlay(e.pattern, Shown(e))
     \/ UNCHANGED plays                        \* not a result, or an SQLite error
  /\ \/ e.isResult /\ UpsertImproved(e.pattern, Shown(e), unread)
     \/ ~e.isResult /\ e.rate > 0 /\ UpsertShown(e.pattern, Shown(e), unread)
     \/ ~e.isResult /\ e.rate = 0 /\ DeleteRecord(e.pattern)
     \/ NothingStored                          \* an SQLite error

(* Mistake: the reloaded cache is not announced as changed. *)
RefreshUnannounced(st) ==
  /\ \/ st # UnknownSteam /\ cache' = table[st]
     \/ cache' = NoRecords
  /\ dirtyKeys' = {}
  /\ UNCHANGED fullDirty

(* refresh: the cache is loaded anew, empty if the query fails. *)
RefreshFor(st) ==
  /\ \/ /\ st # UnknownSteam
        /\ cache' = table[st]
     \/ cache' = NoRecords
  /\ fullDirty' = TRUE
  /\ dirtyKeys' = {}

SetSteamId(st) ==
  /\ st # steamId
  /\ steamId' = st
  /\ RefreshFor(st)
  /\ UNCHANGED dbVars

(* merge_varchive_fetched_records: a background job merges the rows fetched *)
(* for one button mode into the table.  Rows that cannot be parsed are      *)
(* skipped; an empty list changes nothing, even where clearFirst is set.    *)
MergeFetched(st, b, fetched, skipped, clearFirst) ==
  /\ skipped \/ \E p \in Patterns : fetched[p] # NoRecord
  /\ table' = [table EXCEPT ![st] =
                 [p \in Patterns |->
                    IF Button[p] # b THEN @[p]
                    ELSE IF fetched[p] # NoRecord THEN fetched[p]
                    ELSE IF clearFirst THEN NoRecord ELSE @[p]]]
  /\ UNCHANGED <<steamId, records, plays, managerVars>>

Refresh == /\ RefreshFor(steamId)
           /\ UNCHANGED <<steamId, dbVars>>

(* upsert_varchive_record, with the local record the UI passes it. *)
UpsertCached(p) ==
  /\ records[steamId][p] # NoRecord
  /\ cache' = [cache EXCEPT ![p] = records[steamId][p]]
  /\ dirtyKeys' = dirtyKeys \cup {p}
  /\ UNCHANGED <<steamId, dbVars, fullDirty>>

(* prepare_pattern_upload merges the session's value into the local row;    *)
(* its read and its write may each fail unnoticed.                          *)
UpsertForUpload(p, v) ==
  /\ \E local \in {records[steamId][p], NoRecord}, unread \in Unreadable :
       UpsertImproved(p, Best(local, v), unread) \/ NothingStored
  /\ UNCHANGED <<steamId, plays>>

(* The user deletes a local record in the sync window. *)
DeleteLocal(p) == DeleteRecord(p) /\ UNCHANGED <<steamId, plays>>

(* A fresh process: tables survive, the cache is loaded from them anew. *)
Restart ==
  /\ steamId' \in Steams
  /\ RefreshFor(steamId')
  /\ UNCHANGED dbVars

(* The verified plays a detection output can carry. *)
Event == [pattern : Patterns, rate : Rates \cup {0}, mc : BOOLEAN, isResult : BOOLEAN]
Events == {e \in Event : \/ Shown(e) \in Played[e.pattern]
                         \/ e.rate = 0 /\ ~e.mc /\ ~e.isResult}

(* What happens to the store between two detection outputs. *)
StoreStep ==
  \/ \E st \in Steams : SetSteamId(st)
  \/ Refresh
  \/ \E p \in Patterns : UpsertCached(p) \/ DeleteLocal(p)
  \/ \E p \in Patterns : \E v \in Played[p] : UpsertForUpload(p, v)
  \/ \E st \in Steams \ {UnknownSteam}, b \in {Button[p] : p \in Patterns},
        fetched \in Map, skipped \in BOOLEAN, all \in BOOLEAN :
       /\ \A p \in Patterns : fetched[p] \in Fetched[p] \cup {NoRecord}
       /\ MergeFetched(st, b, fetched, skipped, all)
  \/ \E st \in Steams, p \in Patterns : PlayAges(st, p)

RecordsInit ==
  /\ steamId \in Steams
  /\ records = [st \in Steams |-> NoRecords]
  /\ table = [st \in Steams |-> NoRecords]
  /\ plays = [st \in Steams |-> NoRecords]
  /\ cache = NoRecords
  /\ dirtyKeys = {}
  /\ fullDirty = TRUE

RecordsTypeOK ==
  /\ steamId \in Steams
  /\ records \in [Steams -> Map]
  /\ table \in [Steams -> Map]
  /\ plays \in [Steams -> Map]
  /\ cache \in Map
  /\ dirtyKeys \subseteq Patterns
  /\ fullDirty \in BOOLEAN
============================================================================
