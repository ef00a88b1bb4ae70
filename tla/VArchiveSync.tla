---------------------------- MODULE VArchiveSync ----------------------------
(***************************************************************************)
(* Synchronisation with V-Archive: the background jobs of varchive_jobs.rs *)
(* between the server and the table varchive_records, while the user plays *)
(* elsewhere and switches Steam accounts.                                  *)
(*                                                                         *)
(* Every job is a thread of its own that keeps the account it was spawned  *)
(* for; server and table move on between its steps.  Scores are rates, of  *)
(* which only the order matters; a row carries the time V-Archive updated  *)
(* it.  What the GUI caches of the table is the subject of Records.        *)
(***************************************************************************)
EXTENDS Integers, FiniteSets

CONSTANTS
  Patterns,      \* (song_id, mode, difficulty) keys
  Button,        \* the button mode of each pattern
  Song,          \* the song of each pattern
  Steams,        \* Steam ids
  UnknownSteam,  \* no account is logged in
  Rates,         \* rates of plays
  Jobs,          \* threads that may run at the same time
  MaxClock,      \* bound on the updates of the server
  None           \* no row, no job, no mark

ASSUME RateAssumption == Rates \subseteq Nat \ {0}
ASSUME ClockAssumption == MaxClock \in Nat
ASSUME SteamAssumption == UnknownSteam \notin Steams

Buttons == {Button[p] : p \in Patterns}
Row == [rate : Rates, at : 0..MaxClock]       \* at = 0 is the updatedAt "" of a fallback row

ASSUME NoneAssumption == None \notin Row \cup Nat

Rows == [Patterns -> Row \cup {None}]
NoRows == [p \in Patterns |-> None]

VARIABLES
  steamId,     \* the account the GUI shows
  server,      \* V-Archive's rows per account
  clock,       \* time of the last update of the server
  table,       \* table varchive_records, per account
  job,         \* the running jobs
  mixed        \* ghost: (account, button) pairs that an upload merged into, a fetch while
               \* another of the pair was under way, or a fetch that could not read every row

vars == <<steamId, server, clock, table, job, mixed>>

(* at: the step a job takes next; todo: the buttons it has yet to fetch;    *)
(* since, answer: what a fetch asked for and got.                           *)
FetchJob == [kind : {"fetch"}, steam : Steams, at : {"since", "ask", "merge"},
             todo : SUBSET Buttons, button : Buttons \cup {None},
             since : (0..MaxClock) \cup {None}, answer : Rows]
UploadJob == [kind : {"upload"}, steam : Steams, at : {"send", "ask", "merge"},
              pattern : Patterns, rate : Rates, answer : Rows]
Idle(j) == job[j] = None
At(j, kind, step) == ~Idle(j) /\ job[j].kind = kind /\ job[j].at = step
End(j) == job' = [job EXCEPT ![j] = None]

---------------------------------------------------------------------------
(* RecordDB *)

Marks(rows, b) == {rows[p].at : p \in {q \in Patterns : Button[q] = b /\ rows[q] # None}}

Newest(marks) ==
  IF marks = {} THEN None ELSE CHOOSE m \in marks : \A n \in marks : n <= m

(* get_latest_updated_at_from_db: the newest mark of the button, if any. *)
Since(st, b) == Newest(Marks(table[st], b))

(* Mistake: a list that breaks off, newest first, is stored as far as it got. *)
MergedInPart(old, b, rows, clearFirst, skipped) ==
  [p \in Patterns |-> IF rows[p] # None /\ rows[p].at = Newest(Marks(rows, b)) THEN rows[p]
                      ELSE old[p]]

(* Mistake: a full answer replaces the table although it is empty. *)
MergedEmpty(old, b, rows, clearFirst, skipped) ==
  [p \in Patterns |->
     IF Button[p] # b THEN old[p]
     ELSE IF rows[p] # None /\ p \notin skipped THEN rows[p]
     ELSE IF clearFirst THEN None ELSE old[p]]

(* merge_varchive_fetched_records, in one transaction: an empty list keeps  *)
(* what is there; a full one erases the rows of the button first, any other *)
(* is laid over them.                                                       *)
Merged(old, b, rows, clearFirst, skipped) ==
  [p \in Patterns |->
     IF Button[p] # b \/ rows = NoRows THEN old[p]
     ELSE IF rows[p] # None /\ p \notin skipped THEN rows[p]
     ELSE IF clearFirst THEN None ELSE old[p]]

(* The rows of the server that are skipped: no object, or a song or         *)
(* difficulty that cannot be parsed.  A fallback row, of at = 0, can.       *)
Skips(rows) == SUBSET {p \in Patterns : rows[p] # None /\ rows[p].at # 0}

---------------------------------------------------------------------------
(* V-Archive *)

(* It keeps the better score, and stamps what changed. *)
Stored(st, p, r) ==
  IF server[st][p] # None /\ server[st][p].rate >= r
    THEN UNCHANGED <<server, clock>>
    ELSE /\ clock < MaxClock
         /\ clock' = clock + 1
         /\ server' = [server EXCEPT ![st][p] = [rate |-> r, at |-> clock']]

(* The rows of a button updated since a mark, all of them without one; at   *)
(* times the server answers with an empty list instead.                     *)
Answers(st, b, since) ==
  {NoRows, [p \in Patterns |->
     IF Button[p] = b /\ server[st][p] # None /\ (since # None => server[st][p].at >= since)
       THEN server[st][p] ELSE None]}

(* The rows of one song in a button. *)
SongAnswers(st, p) ==
  {[q \in Patterns |-> IF Button[q] = Button[p] /\ Song[q] = Song[p] THEN server[st][q] ELSE None]}

(* The player uploads from elsewhere. *)
UploadElsewhere ==
  /\ \E st \in Steams, p \in Patterns, r \in Rates : Stored(st, p, r) /\ clock' # clock
  /\ UNCHANGED <<steamId, table, job, mixed>>

---------------------------------------------------------------------------
(* The GUI *)

(* refresh_steam_session: jobs keep the account they were spawned for. *)
SwitchAccount ==
  /\ steamId' \in (Steams \cup {UnknownSteam}) \ {steamId}
  /\ UNCHANGED <<server, clock, table, job, mixed>>

Spawn(j, new) == Idle(j) /\ job' = [job EXCEPT ![j] = new]

(* handle_auto_refresh and the refresh button ask for every button. *)
SpawnFetch(j) ==
  /\ steamId # UnknownSteam
  /\ Spawn(j, [kind |-> "fetch", steam |-> steamId, at |-> "since", todo |-> Buttons,
               button |-> None, since |-> None, answer |-> NoRows])
  /\ UNCHANGED <<steamId, server, clock, table, mixed>>

(* spawn_upload, for a row of the sync window or the pattern on screen:     *)
(* under the account of now; without one the job gives up.                  *)
SpawnUpload(j) ==
  /\ steamId # UnknownSteam
  /\ \E p \in Patterns, r \in Rates :
       Spawn(j, [kind |-> "upload", steam |-> steamId, at |-> "send", pattern |-> p, rate |-> r,
                 answer |-> NoRows])
  /\ UNCHANGED <<steamId, server, clock, table, mixed>>

---------------------------------------------------------------------------
(* spawn_fetch's thread, button by button *)

NextButton(j) ==
  IF job[j].todo = {} THEN End(j) ELSE job' = [job EXCEPT ![j].at = "since", ![j].button = None,
                                                          ![j].since = None, ![j].answer = NoRows]

(* A mark that cannot be read is taken for none. *)
FetchSince(j) ==
  /\ At(j, "fetch", "since")
  /\ \E b \in job[j].todo : \E since \in {Since(job[j].steam, b), None} :
       job' = [job EXCEPT ![j].at = "ask", ![j].todo = @ \ {b}, ![j].button = b,
                          ![j].since = since]
  /\ UNCHANGED <<steamId, server, clock, table, mixed>>

FetchAsk(j) ==
  /\ At(j, "fetch", "ask")
  /\ \E answer \in Answers(job[j].steam, job[j].button, job[j].since) :
       job' = [job EXCEPT ![j].at = "merge", ![j].answer = answer]
  /\ UNCHANGED <<steamId, server, clock, table, mixed>>

(* Other fetches that have read the mark of the button and not merged. *)
Overlapping(j) ==
  {k \in Jobs \ {j} : /\ ~Idle(k) /\ job[k].kind = "fetch" /\ job[k].at \in {"ask", "merge"}
                      /\ job[k].steam = job[j].steam /\ job[k].button = job[j].button}

FetchMerge(j) ==
  LET st == job[j].steam  b == job[j].button
  IN  /\ At(j, "fetch", "merge")
      /\ \E skipped \in Skips(job[j].answer) :
           /\ table' = [table EXCEPT
                          ![st] = Merged(@, b, job[j].answer, job[j].since = None, skipped)]
           /\ mixed' = IF Overlapping(j) = {} /\ skipped = {} THEN mixed
                       ELSE mixed \cup {<<st, b>>}
      /\ NextButton(j)
      /\ UNCHANGED <<steamId, server, clock>>

(* The request or the transaction fails, also over a row without a title or *)
(* pattern.                                                                 *)
FetchFails(j) ==
  /\ At(j, "fetch", "ask") \/ At(j, "fetch", "merge")
  /\ NextButton(j)
  /\ UNCHANGED <<steamId, server, clock, table, mixed>>

---------------------------------------------------------------------------
(* spawn_upload's thread *)

UploadSend(j) ==
  /\ At(j, "upload", "send")
  /\ Stored(job[j].steam, job[j].pattern, job[j].rate)
  /\ job' = [job EXCEPT ![j].at = "ask"]
  /\ UNCHANGED <<steamId, table, mixed>>

(* Mistake: the row keeps the rate of before, when there was none. *)
FallbackUnrated(j) ==
  [p \in Patterns |-> IF p = job[j].pattern THEN [rate |-> 0, at |-> 0] ELSE None]

(* upload_fallback_payload *)
Fallback(j) ==
  [p \in Patterns |-> IF p = job[j].pattern THEN [rate |-> job[j].rate, at |-> 0] ELSE None]

(* sync_varchive_cache_after_upload: what the server has of the song or,    *)
(* when it does not say, what was sent.                                     *)
UploadAsk(j) ==
  /\ At(j, "upload", "ask")
  /\ \E answer \in {Fallback(j)} \cup SongAnswers(job[j].steam, job[j].pattern) :
       job' = [job EXCEPT ![j].at = "merge", ![j].answer = answer]
  /\ UNCHANGED <<steamId, server, clock, table, mixed>>

(* Mistake: the rows go to the account that is logged in by now. *)
MergeAccountOfNow(j) == IF steamId = UnknownSteam THEN job[j].steam ELSE steamId

MergeAccount(j) == job[j].steam

UploadMerge(j) ==
  LET st == MergeAccount(j)  b == Button[job[j].pattern]
  IN  /\ At(j, "upload", "merge")
      /\ \E skipped \in Skips(job[j].answer) :
           table' = [table EXCEPT ![st] = Merged(@, b, job[j].answer, FALSE, skipped)]
      /\ mixed' = mixed \cup {<<st, b>>}
      /\ End(j)
      /\ UNCHANGED <<steamId, server, clock>>

(* Rejected, or the transaction fails. *)
UploadFails(j) ==
  /\ At(j, "upload", "send") \/ At(j, "upload", "merge")
  /\ End(j)
  /\ UNCHANGED <<steamId, server, clock, table, mixed>>

---------------------------------------------------------------------------
Init ==
  /\ steamId \in Steams
  /\ server = [st \in Steams |-> NoRows] /\ clock = 0
  /\ table = [st \in Steams |-> NoRows]
  /\ job = [j \in Jobs |-> None]
  /\ mixed = {}

Next ==
  \/ UploadElsewhere \/ SwitchAccount
  \/ \E j \in Jobs :
       \/ SpawnFetch(j) \/ FetchSince(j) \/ FetchAsk(j) \/ FetchMerge(j) \/ FetchFails(j)
       \/ SpawnUpload(j) \/ UploadSend(j) \/ UploadAsk(j) \/ UploadMerge(j) \/ UploadFails(j)

Spec == Init /\ [][Next]_vars

---------------------------------------------------------------------------
(* Every variable keeps its type. *)
TypeOK ==
  /\ steamId \in Steams \cup {UnknownSteam}
  /\ server \in [Steams -> Rows]
  /\ clock \in 0..MaxClock
  /\ table \in [Steams -> Rows]
  /\ job \in [Jobs -> {None} \cup FetchJob \cup UploadJob]
  /\ mixed \subseteq Steams \X Buttons

(* An account's table never claims a score its V-Archive account does not   *)
(* have: whatever the user switches to while jobs run, and whether or not   *)
(* the server could be asked, rows go to the account they came from.        *)
TableNeverAhead ==
  \A st \in Steams, p \in Patterns :
    table[st][p] # None => server[st][p] # None /\ table[st][p].rate <= server[st][p].rate

(* The mark the next fetch of a button sends leaves nothing behind: a row   *)
(* of the server is as new as the mark, or the table has its score.         *)
MarkIsSound(st, b) ==
  \A p \in Patterns :
    Button[p] = b /\ server[st][p] # None /\ Since(st, b) # None
      => \/ server[st][p].at >= Since(st, b)
         \/ table[st][p] # None /\ table[st][p].rate = server[st][p].rate

(* Fetches that run one after another and read every row they are sent      *)
(* leave none behind, however often they fail half-way or ask for all rows  *)
(* again, and whatever is uploaded elsewhere meanwhile.                     *)
FetchesLeaveNothing ==
  \A st \in Steams, b \in Buttons : <<st, b>> \notin mixed => MarkIsSound(st, b)

(* data_storage_and_sync.md: a fetch receives the records updated since the *)
(* last synchronisation, whatever else was merged in between.               *)
SyncLeavesNothing == \A st \in Steams, b \in Buttons : MarkIsSound(st, b)

(* sync.rs: an empty answer of the server must not cost the official        *)
(* ranking.  What erases a row is only a full answer, not empty, to a fetch *)
(* of its account and button: no failed or incremental fetch, no upload and *)
(* no switch of accounts.  It may erase more than it brings, all the rows   *)
(* if none of its own can be read.                                          *)
OnlyFullAnswersErase ==
  [][\A st \in Steams, p \in Patterns :
       table[st][p] # None /\ table'[st][p] = None =>
         \E j \in Jobs :
           /\ At(j, "fetch", "merge") /\ ~At(j, "fetch", "merge")'
           /\ job[j].steam = st /\ job[j].button = Button[p]
           /\ job[j].since = None /\ job[j].answer # NoRows]_vars
===========================================================================
