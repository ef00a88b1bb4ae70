---------------------------- MODULE FloorCache ----------------------------
(***************************************************************************)
(* LocalFloorRecommender's floor-rate cache (recommend/local.rs) over the  *)
(* record store.  A summary counts the rates of the patterns of a floor    *)
(* bucket; the cache is brought up to date only when the recommender asks, *)
(* from the dirty flags the store has collected since.  The UI handlers    *)
(* that change the store end in refresh_overlay_data, which asks if a      *)
(* pattern is on screen: that is the step EnsureFloorRateCache.            *)
(*                                                                         *)
(* Names that RuntimeHub defines as well start with Floor here, so that a  *)
(* module can extend both.                                                 *)
(***************************************************************************)
EXTENDS Records

CONSTANT Bucket   \* the floor bucket each pattern is counted in

Buckets == {Bucket[p] : p \in Patterns}

VARIABLES
  floorDirty,   \* floor_rate_dirty: buckets to summarise again
  floorView,    \* the rate each pattern adds to its bucket's summary
  misread       \* history: patterns whose rows the last query did not return

floorVars == <<floorDirty, floorView, misread>>
floorCacheVars == <<recordVars, floorVars>>

(* consume_dirty_info, spread to buckets. *)
TouchedBuckets ==
  floorDirty \cup (IF fullDirty THEN Buckets ELSE {Bucket[p] : p \in dirtyKeys})

Touched(p) == Bucket[p] \in TouchedBuckets

(* ensure_floor_rate_cache: the flags are gone before the query runs, and a *)
(* query that fails, at once or midway, loses rows without a word.          *)
EnsureFloorRateCache ==
  /\ fullDirty' = FALSE
  /\ dirtyKeys' = {}
  /\ \E read \in [Patterns -> Entry] :
       /\ \A p \in Patterns : read[p] \in RateReads(p)
       /\ floorView' = [p \in Patterns |->
                          IF Touched(p) THEN RateOf(read[p]) ELSE floorView[p]]
       /\ misread' = {p \in Patterns :
                        IF Touched(p) THEN read[p] # RateMap(p) ELSE p \in misread}
  /\ floorDirty' = {}
  /\ UNCHANGED <<steamId, dbVars, cache>>

(* with_varchive_db: a new song DB brings a recommender whose index is     *)
(* built on first use, with empty summaries that are all dirty.            *)
EmptySummaries ==
  /\ floorDirty' = Buckets
  /\ floorView' = [p \in Patterns |-> 0]
  /\ misread' = {}

SwapSongDB == EmptySummaries /\ Refresh

RestartRecommender == EmptySummaries /\ Restart

PlayVerified(e) ==
  /\ \E unread \in Unreadable : HandleVerifiedPlay(e, unread)
  /\ UNCHANGED <<steamId, floorVars>>

FloorInit ==
  /\ RecordsInit
  /\ floorDirty = Buckets
  /\ floorView = [p \in Patterns |-> 0]
  /\ misread = {}

FloorNext ==
  \/ \E e \in Events : PlayVerified(e)
  \/ StoreStep /\ UNCHANGED floorVars
  \/ EnsureFloorRateCache
  \/ SwapSongDB
  \/ RestartRecommender

FloorSpec == FloorInit /\ [][FloorNext]_floorCacheVars

---------------------------------------------------------------------------
(* Type invariant of the store (record_manager.rs) and the floor cache.    *)
FloorTypeOK ==
  /\ RecordsTypeOK
  /\ floorDirty \subseteq Buckets
  /\ floorView \in [Patterns -> Rates \cup {0}]
  /\ misread \subseteq Patterns

(* The recommender's summaries never lag unnoticed: a pattern whose rate    *)
(* differs from the one counted in its bucket is flagged, whichever path    *)
(* (play, deletion, upload, fetch, account switch, song DB) changed it.     *)
(* The one exception is a row that a failed query did not return.           *)
StaleIsFlagged ==
  \A p \in Patterns :
    p \notin misread /\ floorView[p] # RateOf(RateMap(p)) =>
      fullDirty \/ p \in dirtyKeys \/ Bucket[p] \in floorDirty
===========================================================================
