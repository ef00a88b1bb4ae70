------------------------- MODULE VArchiveSyncProofs -------------------------
(***************************************************************************)
(* Theorems about the synchronisation jobs, for every set of patterns,     *)
(* songs, buttons and accounts, any number of jobs and any rates.          *)
(***************************************************************************)
EXTENDS VArchiveSync, WellFoundedInduction, TLAPS

---------------------------------------------------------------------------
(* Operators *)

(* Merging leaves rows that are the old ones or the answer's. *)
LEMMA MergedRows ==
  ASSUME NEW old \in Rows, NEW rows \in Rows, NEW b, NEW clearFirst, NEW skipped
  PROVE  /\ Merged(old, b, rows, clearFirst, skipped) \in Rows
         /\ \A p \in Patterns :
              Merged(old, b, rows, clearFirst, skipped)[p] \in {None, old[p], rows[p]}
BY DEF Merged, Rows

(* What a row holds. *)
LEMMA RowFields ==
  ASSUME NEW rows \in Rows, NEW p \in Patterns, rows[p] # None
  PROVE  rows[p].rate \in Nat /\ rows[p].at \in 0..MaxClock
BY RateAssumption DEF Rows, Row

(* A fallback row is a row. *)
LEMMA FallbackType ==
  ASSUME NEW j, job[j] \in UploadJob
  PROVE  Fallback(j) \in Rows
<1>1. [rate |-> job[j].rate, at |-> 0] \in Row
  BY ClockAssumption DEF UploadJob, Row
<1>2. QED
  BY <1>1 DEF Fallback, Rows

(* A job at a step of a kind is a job of that kind. *)
LEMMA KindOfJob ==
  ASSUME TypeOK, NEW j \in Jobs, NEW step
  PROVE  /\ At(j, "fetch", step) => job[j] \in FetchJob
         /\ At(j, "upload", step) => job[j] \in UploadJob
BY DEF TypeOK, At, Idle, FetchJob, UploadJob

(* Marks below a bound have a newest one: its distance from the bound is a  *)
(* least one. *)
LEMMA NewestExists ==
  ASSUME NEW N \in Nat, NEW S \in SUBSET (0..N), S # {}
  PROVE  \E m \in S : \A n \in S : n <= m
<1> DEFINE T == {k \in 0..N : N - k \in S}
           R == OpToRel(<, Nat)
<1>1. T \subseteq Nat /\ T # {}
  <2>1. PICK n \in S : TRUE
    OBVIOUS
  <2>2. N - n \in 0..N /\ N - (N - n) = n
    OBVIOUS
  <2>3. N - n \in T
    BY <2>1, <2>2
  <2>4. QED
    BY <2>3
<1>2. IsWellFoundedOn(R, Nat)
  BY NatLessThanWellFounded
<1>3. PICK k \in T : \A l \in T : ~ (<<l, k>> \in R)
  BY <1>1, <1>2, WFMin
<1>4. \A l \in T : k <= l
  <2>1. \A m, n \in Nat : m < n => <<m, n>> \in {ss \in Nat \X Nat : ss[1] < ss[2]}
    OBVIOUS
  <2>2. R = {ss \in Nat \X Nat : ss[1] < ss[2]}
    BY DEF OpToRel
  <2>3. \A l \in T : ~(l < k)
    BY <1>1, <1>3, <2>1, <2>2
  <2>4. QED
    BY <1>1, <2>3
<1>5. \A n \in S : n <= N - k
  <2> TAKE n \in S
  <2>1. N - n \in T
    OBVIOUS
  <2>2. k <= N - n
    BY <1>4, <2>1
  <2>3. QED
    BY <2>2
<1>6. QED
  BY <1>5

(* The marks of a table lie on the clock, and the next fetch is told the    *)
(* newest of them. *)
LEMMA SinceIsNewest ==
  ASSUME TypeOK, NEW st \in Steams, NEW b
  PROVE  /\ Marks(table[st], b) = {} <=> Since(st, b) = None
         /\ Marks(table[st], b) # {} => /\ Since(st, b) \in Marks(table[st], b)
                                       /\ Since(st, b) \in 0..MaxClock
         /\ \A m \in Marks(table[st], b) : m <= Since(st, b)
<1> DEFINE marks == Marks(table[st], b)
           newest(m) == m \in marks /\ \A n \in marks : n <= m
<1>1. marks \in SUBSET (0..MaxClock)
  BY DEF TypeOK, Marks, Rows, Row
<1>2. CASE marks = {}
  BY <1>2 DEF Since, Newest
<1>3. CASE marks # {}
  <2>1. \E m : newest(m)
    BY <1>1, <1>3, NewestExists, ClockAssumption
  <2>2. newest(CHOOSE m : newest(m))
    BY <2>1
  <2>3. Since(st, b) = CHOOSE m \in marks : \A n \in marks : n <= m
    BY <1>3 DEF Since, Newest
  <2>4. newest(Since(st, b))
    BY <1>1, <1>3, <2>3, NewestExists, ClockAssumption
  <2>5. Since(st, b) # None
    BY <1>1, <2>4, NoneAssumption
  <2>6. QED
    BY <1>1, <1>3, <2>4, <2>5
<1>4. QED
  BY <1>2, <1>3

(* Whatever the server stores keeps its type. *)
LEMMA StoredTypes ==
  ASSUME TypeOK, NEW st \in Steams, NEW p \in Patterns, NEW r \in Rates, Stored(st, p, r)
  PROVE  server' \in [Steams -> Rows] /\ clock' \in 0..MaxClock
<1>1. CASE UNCHANGED <<server, clock>>
  BY <1>1 DEF TypeOK
<1>2. CASE /\ clock < MaxClock
           /\ clock' = clock + 1
           /\ server' = [server EXCEPT ![st][p] = [rate |-> r, at |-> clock']]
  <2>1. clock' \in 0..MaxClock
    BY <1>2, ClockAssumption DEF TypeOK
  <2>2. [rate |-> r, at |-> clock'] \in Row
    BY <2>1 DEF Row
  <2>3. QED
    BY <1>2, <2>1, <2>2 DEF TypeOK, Rows
<1>3. QED
  BY <1>1, <1>2 DEF Stored

(* What the server stores lowers no score, and then it has the one sent.    *)
LEMMA StoredRaises ==
  ASSUME TypeOK, NEW st \in Steams, NEW p \in Patterns, NEW r \in Rates, Stored(st, p, r)
  PROVE  /\ \A s \in Steams, q \in Patterns :
              server[s][q] # None => /\ server'[s][q] # None
                                     /\ server[s][q].rate <= server'[s][q].rate
         /\ server'[st][p] # None /\ r <= server'[st][p].rate
<1>1. \A s \in Steams, q \in Patterns : server[s][q] # None => server[s][q].rate \in Nat
  BY RowFields DEF TypeOK
<1>2. r \in Nat
  BY RateAssumption
<1>3. CASE server[st][p] # None /\ server[st][p].rate >= r
  BY <1>1, <1>2, <1>3 DEF Stored
<1>4. CASE ~(server[st][p] # None /\ server[st][p].rate >= r)
  <2>1. /\ clock' \in 0..MaxClock
        /\ server' = [server EXCEPT ![st][p] = [rate |-> r, at |-> clock']]
    BY <1>4, StoredTypes DEF Stored
  <2>2. [rate |-> r, at |-> clock'] # None
    BY <2>1, NoneAssumption DEF Row
  <2>3. server'[st][p] = [rate |-> r, at |-> clock']
    BY <2>1 DEF TypeOK, Rows
  <2>4. \A s \in Steams, q \in Patterns :
          s # st \/ q # p => server'[s][q] = server[s][q]
    BY <2>1 DEF TypeOK, Rows
  <2>5. QED
    BY <1>1, <1>2, <1>4, <2>2, <2>3, <2>4
<1>5. QED
  BY <1>3, <1>4

---------------------------------------------------------------------------
(* Types.  A fetch that has left its first step works on a button.          *)

WorksOnButton ==
  \A j \in Jobs : At(j, "fetch", "ask") \/ At(j, "fetch", "merge") => job[j].button \in Buttons

Typed == TypeOK /\ WorksOnButton

LEMMA NextButtonTypes ==
  ASSUME Typed, NEW j \in Jobs, job[j] \in FetchJob, NextButton(j)
  PROVE  /\ job' \in [Jobs -> {None} \cup FetchJob \cup UploadJob]
         /\ job'[j] = None \/ (job'[j] \in FetchJob /\ job'[j].at = "since")
         /\ \A k \in Jobs \ {j} : job'[k] = job[k]
<1>1. CASE job[j].todo = {}
  BY <1>1 DEF NextButton, End, Typed, TypeOK
<1>2. CASE job[j].todo # {}
  <2> DEFINE new == [job[j] EXCEPT !.at = "since", !.button = None, !.since = None,
                                   !.answer = NoRows]
  <2>1. NoRows \in Rows
    BY DEF NoRows, Rows
  <2>2. new \in FetchJob /\ new.at = "since"
    BY <2>1 DEF FetchJob
  <2>3. job' = [job EXCEPT ![j] = new]
    BY <1>2 DEF NextButton, Typed, TypeOK
  <2>4. QED
    BY <2>2, <2>3 DEF Typed, TypeOK
<1>3. QED
  BY <1>1, <1>2

(* A step that changes one job keeps the types if the new job has one.      *)
LEMMA OneJobTypes ==
  ASSUME Typed, NEW j \in Jobs, NEW new \in {None} \cup FetchJob \cup UploadJob,
         job' = [job EXCEPT ![j] = new],
         new \in FetchJob /\ new.at \in {"ask", "merge"} => new.button \in Buttons,
         UNCHANGED <<steamId, server, clock, table, mixed>>
  PROVE  Typed'
<1>1. TypeOK'
  BY DEF Typed, TypeOK
<1>2. \A k \in Jobs \ {j} : job'[k] = job[k]
  BY DEF Typed, TypeOK
<1>3. job'[j] = new
  BY DEF Typed, TypeOK
<1>4. WorksOnButton'
  <2> SUFFICES ASSUME NEW k \in Jobs, (At(k, "fetch", "ask") \/ At(k, "fetch", "merge"))'
               PROVE  job'[k].button \in Buttons
    BY DEF WorksOnButton, Buttons
  <2>1. CASE k = j
    BY <1>3, <2>1 DEF At, Idle, FetchJob, UploadJob
  <2>2. CASE k # j
    BY <1>2, <2>2 DEF Typed, WorksOnButton, At, Idle
  <2>3. QED
    BY <2>1, <2>2
<1>5. QED
  BY <1>1, <1>4 DEF Typed

LEMMA FetchTypes ==
  ASSUME Typed, NEW j \in Jobs,
         SpawnFetch(j) \/ FetchSince(j) \/ FetchAsk(j) \/ FetchFails(j) \/ FetchMerge(j)
  PROVE  Typed'
<1>1. CASE SpawnFetch(j)
  <2> DEFINE new == [kind |-> "fetch", steam |-> steamId, at |-> "since", todo |-> Buttons,
                     button |-> None, since |-> None, answer |-> NoRows]
  <2>1. NoRows \in Rows
    BY DEF NoRows, Rows
  <2>2. new \in FetchJob /\ new.at = "since"
    BY <1>1, <2>1 DEF SpawnFetch, FetchJob, Typed, TypeOK
  <2>3. QED
    BY <1>1, <2>2, OneJobTypes DEF SpawnFetch, Spawn
<1>2. CASE FetchSince(j)
  <2>1. job[j] \in FetchJob
    BY <1>2, KindOfJob DEF FetchSince, Typed
  <2>2. PICK b \in job[j].todo : \E since \in {Since(job[j].steam, b), None} :
          job' = [job EXCEPT ![j].at = "ask", ![j].todo = @ \ {b}, ![j].button = b,
                             ![j].since = since]
    BY <1>2 DEF FetchSince
  <2>a. PICK since \in {Since(job[j].steam, b), None} :
          job' = [job EXCEPT ![j].at = "ask", ![j].todo = @ \ {b}, ![j].button = b,
                             ![j].since = since]
    BY <2>2
  <2> DEFINE new == [job[j] EXCEPT !.at = "ask", !.todo = @ \ {b}, !.button = b,
                                   !.since = since]
  <2>3. since \in (0..MaxClock) \cup {None}
    BY <2>1, SinceIsNewest DEF Typed, FetchJob
  <2>4. b \in Buttons
    BY <2>1 DEF FetchJob
  <2>5. new \in FetchJob /\ new.button \in Buttons
    BY <2>1, <2>3, <2>4 DEF FetchJob
  <2>6. job' = [job EXCEPT ![j] = new]
    BY <2>a DEF Typed, TypeOK
  <2>7. QED
    BY <1>2, <2>5, <2>6, OneJobTypes DEF FetchSince
<1>3. CASE FetchAsk(j)
  <2>1. job[j] \in FetchJob /\ job[j].button \in Buttons
    BY <1>3, KindOfJob DEF FetchAsk, Typed, WorksOnButton
  <2>2. PICK answer \in Answers(job[j].steam, job[j].button, job[j].since) :
          job' = [job EXCEPT ![j].at = "merge", ![j].answer = answer]
    BY <1>3 DEF FetchAsk
  <2>3. answer \in Rows
    BY <2>1, <2>2 DEF Answers, Rows, NoRows, Typed, TypeOK, FetchJob
  <2> DEFINE new == [job[j] EXCEPT !.at = "merge", !.answer = answer]
  <2>4. new \in FetchJob /\ new.button \in Buttons
    BY <2>1, <2>3 DEF FetchJob
  <2>5. job' = [job EXCEPT ![j] = new]
    BY <2>2 DEF Typed, TypeOK
  <2>6. QED
    BY <1>3, <2>4, <2>5, OneJobTypes DEF FetchAsk
<1>4. CASE FetchFails(j)
  <2>1. job[j] \in FetchJob
    BY <1>4, KindOfJob DEF FetchFails, Typed
  <2>2. NextButton(j)
    BY <1>4 DEF FetchFails
  <2>3. QED
    BY <1>4, <2>1, <2>2, NextButtonTypes DEF FetchFails, Typed, TypeOK, WorksOnButton, At, Idle
<1>5. CASE FetchMerge(j)
  <2>1. job[j] \in FetchJob /\ job[j].button \in Buttons
    BY <1>5, KindOfJob DEF FetchMerge, Typed, WorksOnButton
  <2>2. NextButton(j)
    BY <1>5 DEF FetchMerge
  <2>3. PICK skipped :
          table' = [table EXCEPT ![job[j].steam] =
                      Merged(@, job[j].button, job[j].answer, job[j].since = None, skipped)]
    BY <1>5 DEF FetchMerge
  <2> DEFINE rows == Merged(table[job[j].steam], job[j].button, job[j].answer,
                            job[j].since = None, skipped)
  <2>4. table[job[j].steam] \in Rows /\ job[j].answer \in Rows
    BY <2>1 DEF FetchJob, Typed, TypeOK
  <2>5. rows \in Rows
    BY <2>4, MergedRows
  <2>6. table' \in [Steams -> Rows]
    BY <2>3, <2>5 DEF Typed, TypeOK
  <2>7. mixed' \subseteq Steams \X Buttons
    BY <1>5, <2>1 DEF FetchMerge, Typed, TypeOK, FetchJob
  <2>8. TypeOK'
    BY <1>5, <2>1, <2>2, <2>6, <2>7, NextButtonTypes DEF FetchMerge, Typed, TypeOK
  <2>9. WorksOnButton'
    BY <2>1, <2>2, NextButtonTypes DEF Typed, WorksOnButton, At, Idle
  <2>10. QED
    BY <2>8, <2>9 DEF Typed
<1>6. QED
  BY <1>1, <1>2, <1>3, <1>4, <1>5

LEMMA UploadTypes ==
  ASSUME Typed, NEW j \in Jobs,
         SpawnUpload(j) \/ UploadSend(j) \/ UploadAsk(j) \/ UploadFails(j) \/ UploadMerge(j)
  PROVE  Typed'
<1>1. CASE SpawnUpload(j)
  <2>1. PICK p \in Patterns, r \in Rates :
          job' = [job EXCEPT ![j] = [kind |-> "upload", steam |-> steamId, at |-> "send",
                                     pattern |-> p, rate |-> r, answer |-> NoRows]]
    BY <1>1 DEF SpawnUpload, Spawn
  <2> DEFINE new == [kind |-> "upload", steam |-> steamId, at |-> "send",
                     pattern |-> p, rate |-> r, answer |-> NoRows]
  <2>2. NoRows \in Rows
    BY DEF NoRows, Rows
  <2>3. new \in UploadJob /\ new.at = "send"
    BY <1>1, <2>2 DEF SpawnUpload, UploadJob, Typed, TypeOK
  <2>4. QED
    BY <1>1, <2>1, <2>3, OneJobTypes DEF SpawnUpload, FetchJob
<1>2. CASE UploadSend(j)
  <2>1. job[j] \in UploadJob
    BY <1>2, KindOfJob DEF UploadSend, Typed
  <2>2. server' \in [Steams -> Rows] /\ clock' \in 0..MaxClock
    BY <1>2, <2>1, StoredTypes DEF UploadSend, Typed, UploadJob
  <2> DEFINE new == [job[j] EXCEPT !.at = "ask"]
  <2>3. new \in UploadJob
    BY <2>1 DEF UploadJob
  <2>4. job' = [job EXCEPT ![j] = new]
    BY <1>2 DEF UploadSend, Typed, TypeOK
  <2>5. TypeOK'
    BY <1>2, <2>2, <2>3, <2>4 DEF UploadSend, Typed, TypeOK
  <2>6. WorksOnButton'
    BY <2>3, <2>4 DEF Typed, TypeOK, WorksOnButton, At, Idle, UploadJob
  <2>7. QED
    BY <2>5, <2>6 DEF Typed
<1>3. CASE UploadAsk(j)
  <2>1. job[j] \in UploadJob
    BY <1>3, KindOfJob DEF UploadAsk, Typed
  <2>2. PICK answer \in {Fallback(j)} \cup SongAnswers(job[j].steam, job[j].pattern) :
          job' = [job EXCEPT ![j].at = "merge", ![j].answer = answer]
    BY <1>3 DEF UploadAsk
  <2>3. SongAnswers(job[j].steam, job[j].pattern) \subseteq Rows
    BY <2>1 DEF SongAnswers, Rows, Typed, TypeOK, UploadJob
  <2>4. answer \in Rows
    BY <2>1, <2>2, <2>3, FallbackType
  <2> DEFINE new == [job[j] EXCEPT !.at = "merge", !.answer = answer]
  <2>5. new \in UploadJob
    BY <2>1, <2>4 DEF UploadJob
  <2>6. job' = [job EXCEPT ![j] = new]
    BY <2>2 DEF Typed, TypeOK
  <2>7. new \notin FetchJob
    BY <2>5 DEF UploadJob, FetchJob
  <2>8. QED
    BY <1>3, <2>5, <2>6, <2>7, OneJobTypes DEF UploadAsk
<1>4. CASE UploadFails(j)
  <2>1. job' = [job EXCEPT ![j] = None]
    BY <1>4 DEF UploadFails, End
  <2>2. TypeOK'
    BY <1>4, <2>1 DEF UploadFails, Typed, TypeOK
  <2>3. WorksOnButton'
    BY <2>1 DEF Typed, TypeOK, WorksOnButton, At, Idle
  <2>4. QED
    BY <2>2, <2>3 DEF Typed
<1>5. CASE UploadMerge(j)
  <2>1. job[j] \in UploadJob /\ Button[job[j].pattern] \in Buttons
    BY <1>5, KindOfJob DEF UploadMerge, Typed, UploadJob, Buttons
  <2>2. job' = [job EXCEPT ![j] = None]
    BY <1>5 DEF UploadMerge, End
  <2>3. PICK skipped :
          table' = [table EXCEPT ![job[j].steam] =
                      Merged(@, Button[job[j].pattern], job[j].answer, FALSE, skipped)]
    BY <1>5 DEF UploadMerge, MergeAccount
  <2> DEFINE rows == Merged(table[job[j].steam], Button[job[j].pattern], job[j].answer,
                            FALSE, skipped)
  <2>4. table[job[j].steam] \in Rows /\ job[j].answer \in Rows
    BY <2>1 DEF UploadJob, Typed, TypeOK
  <2>5. rows \in Rows
    BY <2>4, MergedRows
  <2>6. mixed' \subseteq Steams \X Buttons
    BY <1>5, <2>1 DEF UploadMerge, MergeAccount, Typed, TypeOK, UploadJob
  <2>7. TypeOK'
    BY <1>5, <2>2, <2>3, <2>5, <2>6 DEF UploadMerge, Typed, TypeOK
  <2>8. WorksOnButton'
    BY <2>2 DEF Typed, TypeOK, WorksOnButton, At, Idle
  <2>9. QED
    BY <2>7, <2>8 DEF Typed
<1>6. QED
  BY <1>1, <1>2, <1>3, <1>4, <1>5

LEMMA TypedStep ==
  ASSUME Typed, [Next]_vars
  PROVE  Typed'
<1>1. CASE UploadElsewhere
  <2>1. PICK st \in Steams, p \in Patterns, r \in Rates : Stored(st, p, r)
    BY <1>1 DEF UploadElsewhere
  <2>2. server' \in [Steams -> Rows] /\ clock' \in 0..MaxClock
    BY <2>1, StoredTypes DEF Typed
  <2>3. QED
    BY <1>1, <2>2 DEF UploadElsewhere, Typed, TypeOK, WorksOnButton, At, Idle
<1>2. CASE SwitchAccount
  BY <1>2 DEF SwitchAccount, Typed, TypeOK, WorksOnButton, At, Idle
<1>3. CASE \E j \in Jobs :
             SpawnFetch(j) \/ FetchSince(j) \/ FetchAsk(j) \/ FetchMerge(j) \/ FetchFails(j)
  BY <1>3, FetchTypes
<1>4. CASE \E j \in Jobs :
             SpawnUpload(j) \/ UploadSend(j) \/ UploadAsk(j) \/ UploadMerge(j) \/ UploadFails(j)
  BY <1>4, UploadTypes
<1>5. CASE UNCHANGED vars
  BY <1>5 DEF vars, Typed, TypeOK, WorksOnButton, At, Idle
<1>6. QED
  BY <1>1, <1>2, <1>3, <1>4, <1>5 DEF Next

LEMMA TypedAlways == Spec => []Typed
<1>1. Init => Typed
  <2>1. NoRows \in Rows
    BY DEF NoRows, Rows
  <2>2. QED
    BY <2>1, ClockAssumption DEF Init, Typed, TypeOK, WorksOnButton, At, Idle
<1>2. Typed /\ [Next]_vars => Typed'
  BY TypedStep
<1>3. QED
  BY <1>1, <1>2, PTL DEF Spec

(* Accounts, server, tables and jobs keep their types.                      *)
THEOREM TypeCorrect == Spec => []TypeOK
<1>1. Typed => TypeOK
  BY DEF Typed
<1>2. QED
  BY <1>1, TypedAlways, PTL

---------------------------------------------------------------------------
(* No table is ahead of the server.  What a job waits to merge must not be  *)
(* either, nor, between the upload and the question, what was sent.         *)

Behind(rows, st) ==
  \A p \in Patterns :
    rows[p] # None => server[st][p] # None /\ rows[p].rate <= server[st][p].rate

JobBehind(j) ==
  /\ ~Idle(j) => Behind(job[j].answer, job[j].steam)
  /\ At(j, "upload", "ask") =>
       /\ server[job[j].steam][job[j].pattern] # None
       /\ job[j].rate <= server[job[j].steam][job[j].pattern].rate

AllBehind == TableNeverAhead /\ \A j \in Jobs : JobBehind(j)

(* When the server's scores only rise, rows stay behind. *)
LEMMA BehindRisen ==
  ASSUME Typed, Typed', NEW st \in Steams, NEW rows \in Rows, Behind(rows, st),
         \A q \in Patterns :
           server[st][q] # None => /\ server'[st][q] # None
                                   /\ server[st][q].rate <= server'[st][q].rate
  PROVE  \A p \in Patterns :
           rows[p] # None => server'[st][p] # None /\ rows[p].rate <= server'[st][p].rate
<1>1. server[st] \in Rows /\ server'[st] \in Rows
  BY DEF Typed, TypeOK
<1>2. QED
  BY <1>1, RowFields DEF Behind

LEMMA StoredBehind ==
  ASSUME Typed, Typed', AllBehind, NEW st \in Steams, NEW p \in Patterns, NEW r \in Rates,
         Stored(st, p, r), UNCHANGED table
  PROVE  /\ TableNeverAhead'
         /\ \A j \in Jobs : job'[j] = job[j] => JobBehind(j)'
<1>1. \A s \in Steams, q \in Patterns :
        server[s][q] # None => /\ server'[s][q] # None
                               /\ server[s][q].rate <= server'[s][q].rate
  BY StoredRaises DEF Typed
<1>2. TableNeverAhead'
  <2> SUFFICES ASSUME NEW s \in Steams, NEW q \in Patterns, table[s][q] # None
               PROVE  server'[s][q] # None /\ table[s][q].rate <= server'[s][q].rate
    BY DEF TableNeverAhead
  <2>1. table[s] \in Rows /\ Behind(table[s], s)
    BY DEF Typed, TypeOK, AllBehind, TableNeverAhead, Behind
  <2>2. QED
    BY <1>1, <2>1, BehindRisen
<1>3. ASSUME NEW j \in Jobs, job'[j] = job[j]
      PROVE  JobBehind(j)'
  <2>1. CASE Idle(j)
    BY <1>3, <2>1 DEF JobBehind, Idle, At
  <2>2. CASE ~Idle(j)
    <3>1. job[j].steam \in Steams /\ job[j].answer \in Rows /\ Behind(job[j].answer, job[j].steam)
      BY <2>2 DEF Idle, Typed, TypeOK, FetchJob, UploadJob, AllBehind, JobBehind
    <3>2. Behind(job[j].answer, job[j].steam)'
      BY <1>1, <1>3, <3>1, BehindRisen DEF Behind
    <3>3. ASSUME At(j, "upload", "ask")
          PROVE  /\ server'[job[j].steam][job[j].pattern] # None
                 /\ job[j].rate <= server'[job[j].steam][job[j].pattern].rate
      <4>1. /\ server[job[j].steam][job[j].pattern] # None
            /\ job[j].rate <= server[job[j].steam][job[j].pattern].rate
        BY <3>3 DEF AllBehind, JobBehind
      <4>2. job[j].pattern \in Patterns /\ job[j].rate \in Nat
        BY <3>3, KindOfJob, RateAssumption DEF Typed, UploadJob
      <4>3. server[job[j].steam] \in Rows /\ server'[job[j].steam] \in Rows
        BY <3>1 DEF Typed, TypeOK
      <4>4. QED
        BY <1>1, <3>1, <4>1, <4>2, <4>3, RowFields
    <3>4. QED
      BY <1>3, <3>2, <3>3 DEF JobBehind, At, Idle
  <2>3. QED
    BY <2>1, <2>2
<1>4. QED
  BY <1>2, <1>3

(* A merge of rows that are behind leaves a table that is. *)
LEMMA MergeBehind ==
  ASSUME Typed, AllBehind, NEW st \in Steams, NEW answer, Behind(answer, st), UNCHANGED server,
         NEW rows, \A p \in Patterns : rows[p] \in {None, table[st][p], answer[p]},
         table' = [table EXCEPT ![st] = rows]
  PROVE  TableNeverAhead'
<1>1. Behind(rows, st)
  BY DEF AllBehind, TableNeverAhead, Behind
<1>2. table'[st] = rows /\ \A s \in Steams \ {st} : table'[s] = table[s]
  BY DEF Typed, TypeOK
<1>3. QED
  BY <1>1, <1>2 DEF AllBehind, TableNeverAhead, Behind

(* A job that has ended, or asks for nothing yet, or brings rows behind.    *)
LEMMA MovedJobBehind ==
  ASSUME NEW j, UNCHANGED server,
         job'[j] = None \/ /\ job'[j].kind = "fetch" \/ job'[j].at # "ask"
                           /\ Behind(job'[j].answer, job'[j].steam)
  PROVE  JobBehind(j)'
<1>1. CASE job'[j] = None
  BY <1>1 DEF JobBehind, Idle, At
<1>2. CASE /\ job'[j].kind = "fetch" \/ job'[j].at # "ask"
           /\ Behind(job'[j].answer, job'[j].steam)
  <2>1. Behind(job[j].answer, job[j].steam)'
    BY <1>2 DEF Behind
  <2>2. ~At(j, "upload", "ask")'
    BY <1>2 DEF At
  <2>3. QED
    BY <2>1, <2>2 DEF JobBehind
<1>3. QED
  BY <1>1, <1>2

LEMMA EmptyIsBehind ==
  ASSUME NEW st
  PROVE  Behind(NoRows, st)
BY DEF Behind, NoRows

LEMMA NextButtonBehind ==
  ASSUME Typed, NEW j \in Jobs, job[j] \in FetchJob, NextButton(j), UNCHANGED server
  PROVE  JobBehind(j)'
<1>1. CASE job[j].todo = {}
  BY <1>1, MovedJobBehind DEF NextButton, End, Typed, TypeOK
<1>2. CASE job[j].todo # {}
  <2>1. job'[j].kind = "fetch" /\ job'[j].answer = NoRows
    BY <1>2 DEF NextButton, Typed, TypeOK, FetchJob
  <2>2. QED
    BY <2>1, EmptyIsBehind, MovedJobBehind
<1>3. QED
  BY <1>1, <1>2

(* The server is left alone: only the job that moves has to be looked at.   *)
LEMMA OneJobBehind ==
  ASSUME AllBehind, NEW j \in Jobs, UNCHANGED server, TableNeverAhead', JobBehind(j)',
         \A k \in Jobs \ {j} : job'[k] = job[k]
  PROVE  AllBehind'
BY DEF AllBehind, JobBehind, Behind, Idle, At

LEMMA FetchBehind ==
  ASSUME Typed, Typed', AllBehind, NEW j \in Jobs,
         SpawnFetch(j) \/ FetchSince(j) \/ FetchAsk(j) \/ FetchFails(j) \/ FetchMerge(j)
  PROVE  AllBehind'
<1>1. UNCHANGED server
  BY DEF SpawnFetch, FetchSince, FetchAsk, FetchFails, FetchMerge
<1>2. \A k \in Jobs \ {j} : job'[k] = job[k]
  BY DEF SpawnFetch, Spawn, FetchSince, FetchAsk, FetchFails, FetchMerge, NextButton, End,
         Typed, TypeOK
<1>3. CASE FetchMerge(j)
  <2>1. job[j] \in FetchJob /\ ~Idle(j)
    BY <1>3, KindOfJob DEF FetchMerge, Typed, At
  <2>2. job[j].steam \in Steams /\ job[j].answer \in Rows /\ Behind(job[j].answer, job[j].steam)
    BY <2>1 DEF FetchJob, AllBehind, JobBehind
  <2>3. PICK skipped :
          table' = [table EXCEPT ![job[j].steam] =
                      Merged(@, job[j].button, job[j].answer, job[j].since = None, skipped)]
    BY <1>3 DEF FetchMerge
  <2> DEFINE rows == Merged(table[job[j].steam], job[j].button, job[j].answer,
                            job[j].since = None, skipped)
  <2>a. table' = [table EXCEPT ![job[j].steam] = rows]
    BY <2>3
  <2>4. table[job[j].steam] \in Rows
    BY <2>2 DEF Typed, TypeOK
  <2>5. \A p \in Patterns : rows[p] \in {None, table[job[j].steam][p], job[j].answer[p]}
    BY <2>2, <2>4, MergedRows
  <2> HIDE DEF rows
  <2>6. TableNeverAhead'
    BY <1>1, <2>2, <2>a, <2>5, MergeBehind
  <2>7. JobBehind(j)'
    BY <1>1, <1>3, <2>1, NextButtonBehind DEF FetchMerge
  <2>8. QED
    BY <1>1, <1>2, <2>6, <2>7, OneJobBehind
<1>4. CASE ~FetchMerge(j)
  <2>1. TableNeverAhead'
    BY <1>1, <1>4 DEF SpawnFetch, FetchSince, FetchAsk, FetchFails, AllBehind, TableNeverAhead
  <2>2. CASE SpawnFetch(j)
    <3>1. job'[j].kind = "fetch" /\ job'[j].answer = NoRows
      BY <2>2 DEF SpawnFetch, Spawn, Typed, TypeOK
    <3>2. JobBehind(j)'
      BY <1>1, <3>1, EmptyIsBehind, MovedJobBehind
    <3>3. QED
      BY <1>1, <1>2, <2>1, <3>2, OneJobBehind
  <2>3. CASE FetchSince(j)
    <3>1. job[j] \in FetchJob /\ Behind(job[j].answer, job[j].steam)
      BY <2>3, KindOfJob DEF FetchSince, Typed, At, AllBehind, JobBehind
    <3>2. job'[j].kind = "fetch" /\ job'[j].steam = job[j].steam /\ job'[j].answer = job[j].answer
      <4>1. PICK b \in job[j].todo : \E since \in {Since(job[j].steam, b), None} :
              job'[j] = [job[j] EXCEPT !.at = "ask", !.todo = @ \ {b}, !.button = b,
                                       !.since = since]
        BY <2>3 DEF FetchSince, Typed, TypeOK
      <4>2. QED
        BY <3>1, <4>1 DEF FetchJob
    <3>3. JobBehind(j)'
      BY <1>1, <3>1, <3>2, MovedJobBehind
    <3>4. QED
      BY <1>1, <1>2, <2>1, <3>3, OneJobBehind
  <2>4. CASE FetchAsk(j)
    <3>1. job[j] \in FetchJob
      BY <2>4, KindOfJob DEF FetchAsk, Typed
    <3>2. PICK answer \in Answers(job[j].steam, job[j].button, job[j].since) :
            job' = [job EXCEPT ![j].at = "merge", ![j].answer = answer]
      BY <2>4 DEF FetchAsk
    <3>3. \A p \in Patterns : answer[p] \in {None, server[job[j].steam][p]}
      BY <3>2 DEF Answers, NoRows
    <3>4. Behind(answer, job[j].steam)
      <4>1. server[job[j].steam] \in Rows
        BY <3>1 DEF FetchJob, Typed, TypeOK
      <4>2. QED
        BY <3>3, <4>1, RowFields DEF Behind
    <3>5. job'[j].kind = "fetch" /\ job'[j].steam = job[j].steam /\ job'[j].answer = answer
      BY <3>1, <3>2 DEF Typed, TypeOK, FetchJob
    <3>6. JobBehind(j)'
      BY <1>1, <3>4, <3>5, MovedJobBehind
    <3>7. QED
      BY <1>1, <1>2, <2>1, <3>6, OneJobBehind
  <2>5. CASE FetchFails(j)
    <3>1. job[j] \in FetchJob
      BY <2>5, KindOfJob DEF FetchFails, Typed
    <3>2. JobBehind(j)'
      BY <1>1, <2>5, <3>1, NextButtonBehind DEF FetchFails
    <3>3. QED
      BY <1>1, <1>2, <2>1, <3>2, OneJobBehind
  <2>6. QED
    BY <1>4, <2>2, <2>3, <2>4, <2>5
<1>5. QED
  BY <1>3, <1>4

LEMMA UploadBehind ==
  ASSUME Typed, Typed', AllBehind, NEW j \in Jobs,
         SpawnUpload(j) \/ UploadSend(j) \/ UploadAsk(j) \/ UploadFails(j) \/ UploadMerge(j)
  PROVE  AllBehind'
<1>1. \A k \in Jobs \ {j} : job'[k] = job[k]
  BY DEF SpawnUpload, Spawn, UploadSend, UploadAsk, UploadFails, UploadMerge, End, Typed, TypeOK
<1>2. CASE SpawnUpload(j)
  <2>1. TableNeverAhead'
    BY <1>2 DEF SpawnUpload, AllBehind, TableNeverAhead
  <2>2. JobBehind(j)'
    BY <1>2 DEF SpawnUpload, Spawn, Typed, TypeOK, JobBehind, Idle, At, Behind, NoRows
  <2>3. QED
    BY <1>1, <1>2, <2>1, <2>2, OneJobBehind DEF SpawnUpload
<1>3. CASE UploadSend(j)
  <2>1. job[j] \in UploadJob /\ ~Idle(j)
    BY <1>3, KindOfJob DEF UploadSend, Typed, At
  <2>2. job[j].steam \in Steams /\ job[j].pattern \in Patterns /\ job[j].rate \in Rates
    BY <2>1 DEF UploadJob
  <2>3. Stored(job[j].steam, job[j].pattern, job[j].rate) /\ UNCHANGED table
    BY <1>3 DEF UploadSend
  <2>4. /\ TableNeverAhead'
        /\ \A k \in Jobs : job'[k] = job[k] => JobBehind(k)'
    BY <2>2, <2>3, StoredBehind
  <2>5. /\ server'[job[j].steam][job[j].pattern] # None
        /\ job[j].rate <= server'[job[j].steam][job[j].pattern].rate
    BY <2>2, <2>3, StoredRaises DEF Typed
  <2>6. job'[j] = [job[j] EXCEPT !.at = "ask"]
    BY <1>3 DEF UploadSend, Typed, TypeOK
  <2>7. Behind(job[j].answer, job[j].steam)'
    <3>1. job[j].answer \in Rows /\ Behind(job[j].answer, job[j].steam)
      BY <2>1 DEF UploadJob, AllBehind, JobBehind
    <3>2. \A q \in Patterns :
            server[job[j].steam][q] # None =>
              /\ server'[job[j].steam][q] # None
              /\ server[job[j].steam][q].rate <= server'[job[j].steam][q].rate
      BY <2>2, <2>3, StoredRaises DEF Typed
    <3>3. \A p \in Patterns :
            job[j].answer[p] # None =>
              /\ server'[job[j].steam][p] # None
              /\ job[j].answer[p].rate <= server'[job[j].steam][p].rate
      BY <2>2, <3>1, <3>2, BehindRisen
    <3>4. job'[j].answer = job[j].answer /\ job'[j].steam = job[j].steam
      BY <2>1, <2>6 DEF UploadJob
    <3>5. QED
      BY <3>3, <3>4 DEF Behind
  <2>8. JobBehind(j)'
    BY <2>1, <2>5, <2>6, <2>7 DEF JobBehind, UploadJob
  <2>9. QED
    BY <1>1, <2>4, <2>8 DEF AllBehind
<1>4. CASE UploadAsk(j)
  <2>1. job[j] \in UploadJob
    BY <1>4, KindOfJob DEF UploadAsk, Typed
  <2>2. PICK answer \in {Fallback(j)} \cup SongAnswers(job[j].steam, job[j].pattern) :
          job' = [job EXCEPT ![j].at = "merge", ![j].answer = answer]
    BY <1>4 DEF UploadAsk
  <2>3. Behind(answer, job[j].steam)
    <3>1. CASE answer = Fallback(j)
      BY <1>4, <3>1 DEF UploadAsk, AllBehind, JobBehind, Behind, Fallback
    <3>2. CASE answer \in SongAnswers(job[j].steam, job[j].pattern)
      <4>1. \A p \in Patterns : answer[p] \in {None, server[job[j].steam][p]}
        BY <3>2 DEF SongAnswers
      <4>2. server[job[j].steam] \in Rows
        BY <2>1 DEF UploadJob, Typed, TypeOK
      <4>3. QED
        BY <4>1, <4>2, RowFields DEF Behind
    <3>3. QED
      BY <2>2, <3>1, <3>2
  <2>4. job'[j].at = "merge" /\ job'[j].steam = job[j].steam /\ job'[j].answer = answer
    BY <2>1, <2>2 DEF Typed, TypeOK, UploadJob
  <2>5. UNCHANGED <<server, table>>
    BY <1>4 DEF UploadAsk
  <2>6. JobBehind(j)'
    BY <2>3, <2>4, <2>5 DEF JobBehind, Behind, At
  <2>7. TableNeverAhead'
    BY <2>5 DEF AllBehind, TableNeverAhead
  <2>8. QED
    BY <1>1, <2>5, <2>6, <2>7, OneJobBehind
<1>5. CASE UploadFails(j)
  <2>1. TableNeverAhead' /\ JobBehind(j)' /\ UNCHANGED server
    BY <1>5 DEF UploadFails, End, Typed, TypeOK, AllBehind, TableNeverAhead, JobBehind, Idle, At
  <2>2. QED
    BY <1>1, <2>1, OneJobBehind
<1>6. CASE UploadMerge(j)
  <2>1. job[j] \in UploadJob /\ ~Idle(j)
    BY <1>6, KindOfJob DEF UploadMerge, Typed, At
  <2>2. job[j].steam \in Steams /\ job[j].answer \in Rows /\ Behind(job[j].answer, job[j].steam)
    BY <2>1 DEF UploadJob, AllBehind, JobBehind
  <2>3. UNCHANGED server
    BY <1>6 DEF UploadMerge
  <2>4. PICK skipped :
          table' = [table EXCEPT ![job[j].steam] =
                      Merged(@, Button[job[j].pattern], job[j].answer, FALSE, skipped)]
    BY <1>6 DEF UploadMerge, MergeAccount
  <2> DEFINE rows == Merged(table[job[j].steam], Button[job[j].pattern], job[j].answer,
                            FALSE, skipped)
  <2>a. table' = [table EXCEPT ![job[j].steam] = rows]
    BY <2>4
  <2>5. table[job[j].steam] \in Rows
    BY <2>2 DEF Typed, TypeOK
  <2>6. \A p \in Patterns : rows[p] \in {None, table[job[j].steam][p], job[j].answer[p]}
    BY <2>2, <2>5, MergedRows
  <2> HIDE DEF rows
  <2>7. TableNeverAhead'
    BY <2>2, <2>3, <2>a, <2>6, MergeBehind
  <2>8. JobBehind(j)'
    BY <1>6, <2>3, MovedJobBehind DEF UploadMerge, End, Typed, TypeOK
  <2>9. QED
    BY <1>1, <2>3, <2>7, <2>8, OneJobBehind
<1>7. QED
  BY <1>2, <1>3, <1>4, <1>5, <1>6

LEMMA BehindStep ==
  ASSUME Typed, AllBehind, [Next]_vars
  PROVE  AllBehind'
<1>1. Typed'
  BY TypedStep
<1>2. CASE UploadElsewhere
  <2>1. PICK st \in Steams, p \in Patterns, r \in Rates : Stored(st, p, r)
    BY <1>2 DEF UploadElsewhere
  <2>2. UNCHANGED <<table, job>>
    BY <1>2 DEF UploadElsewhere
  <2>3. QED
    BY <1>1, <2>1, <2>2, StoredBehind DEF AllBehind
<1>3. CASE SwitchAccount \/ UNCHANGED vars
  <2>1. UNCHANGED <<server, table, job>>
    BY <1>3 DEF SwitchAccount, vars
  <2>2. QED
    BY <2>1 DEF AllBehind, TableNeverAhead, JobBehind, Behind, Idle, At
<1>4. CASE \E j \in Jobs :
             SpawnFetch(j) \/ FetchSince(j) \/ FetchAsk(j) \/ FetchMerge(j) \/ FetchFails(j)
  BY <1>1, <1>4, FetchBehind
<1>5. CASE \E j \in Jobs :
             SpawnUpload(j) \/ UploadSend(j) \/ UploadAsk(j) \/ UploadMerge(j) \/ UploadFails(j)
  BY <1>1, <1>5, UploadBehind
<1>6. QED
  BY <1>2, <1>3, <1>4, <1>5 DEF Next

(* No account's table ever claims a score that its V-Archive account does   *)
(* not have: rows go to the account a job was spawned for, and what an      *)
(* upload falls back on has been stored before.                             *)
THEOREM NeverAhead == Spec => []TableNeverAhead
<1>1. Init => AllBehind
  BY DEF Init, AllBehind, TableNeverAhead, JobBehind, NoRows, Idle, At
<1>2. Typed /\ AllBehind /\ [Next]_vars => AllBehind'
  BY BehindStep
<1>3. AllBehind => TableNeverAhead
  BY DEF AllBehind
<1>4. QED
  BY <1>1, <1>2, <1>3, TypedAlways, PTL DEF Spec

---------------------------------------------------------------------------
(* Fetches leave nothing behind.  No mark is ahead of the clock.  A fetch   *)
(* under way knows the mark of the table, or asks for every row; and what   *)
(* it has been answered accounts for each row of the server: the row is in  *)
(* the answer, or newer than every mark there will be, or was left out of   *)
(* an incremental answer because the table has its score.  Whatever merges  *)
(* for its pair meanwhile puts the pair in mixed.                           *)

OnClock(rows) == \A p \in Patterns : rows[p] # None => rows[p].at <= clock

Clocked ==
  /\ \A st \in Steams : OnClock(table[st]) /\ OnClock(server[st])
  /\ \A j \in Jobs : ~Idle(j) => OnClock(job[j].answer)

NoNewer(rows, b, row) ==
  \A q \in Patterns : Button[q] = b /\ rows[q] # None => rows[q].at <= row.at

Accounted(st, b, p, answer, since) ==
  \/ answer[p] = server[st][p]
  \/ NoNewer(table[st], b, server[st][p]) /\ NoNewer(answer, b, server[st][p])
  \/ /\ since # None /\ answer[p] = None
     /\ table[st][p] # None /\ table[st][p].rate = server[st][p].rate

Pair(j) == <<job[j].steam, job[j].button>>
UnderWay(j) == At(j, "fetch", "ask") \/ At(j, "fetch", "merge")

JobSound(j) ==
  /\ UnderWay(j) =>
       \/ Pair(j) \in mixed \/ job[j].since = None
       \/ job[j].since = Since(job[j].steam, job[j].button)
  /\ At(j, "fetch", "merge") =>
       /\ \A q \in Patterns : job[j].answer[q] # None => Button[q] = job[j].button
       /\ Pair(j) \in mixed \/ job[j].answer = NoRows
            \/ \A p \in Patterns :
                 Button[p] = job[j].button /\ server[job[j].steam][p] # None
                   => Accounted(job[j].steam, job[j].button, p, job[j].answer, job[j].since)

Sound == Clocked /\ FetchesLeaveNothing /\ \A j \in Jobs : JobSound(j)

(* The mark of a button depends on the rows of that button only. *)
LEMMA SinceKept ==
  ASSUME NEW st \in Steams, NEW b,
         \A p \in Patterns : Button[p] = b => table'[st][p] = table[st][p]
  PROVE  Since(st, b)' = Since(st, b)
<1>1. Marks(table'[st], b) = Marks(table[st], b)
  BY DEF Marks
<1>2. QED
  BY <1>1 DEF Since

(* A mark is not ahead of the clock. *)
LEMMA SinceOnClock ==
  ASSUME Typed, Clocked, NEW st \in Steams, NEW b, Since(st, b) # None
  PROVE  Since(st, b) \in Nat /\ Since(st, b) <= clock
<1>1. Since(st, b) \in Marks(table[st], b) /\ Since(st, b) \in 0..MaxClock
  BY SinceIsNewest DEF Typed
<1>2. QED
  BY <1>1, ClockAssumption DEF Marks, Clocked, OnClock

(* A row of the server stays, or is newer than everything else.             *)
LEMMA StoredIsNewest ==
  ASSUME Typed, NEW st \in Steams, NEW p \in Patterns, NEW r \in Rates, Stored(st, p, r)
  PROVE  /\ clock <= clock'
         /\ \A s \in Steams, q \in Patterns :
              \/ server'[s][q] = server[s][q]
              \/ server'[s][q] # None /\ server'[s][q].at = clock'
<1>1. clock \in Nat
  BY ClockAssumption DEF Typed, TypeOK
<1>2. CASE UNCHANGED <<server, clock>>
  BY <1>1, <1>2
<1>3. CASE /\ clock < MaxClock
           /\ clock' = clock + 1
           /\ server' = [server EXCEPT ![st][p] = [rate |-> r, at |-> clock']]
  <2>1. clock' \in 0..MaxClock
    BY <1>1, <1>3, ClockAssumption
  <2>2. [rate |-> r, at |-> clock'] # None
    BY <2>1, NoneAssumption DEF Row
  <2>3. server'[st][p] = [rate |-> r, at |-> clock']
    BY <1>3 DEF Typed, TypeOK, Rows
  <2>4. \A s \in Steams, q \in Patterns : s # st \/ q # p => server'[s][q] = server[s][q]
    BY <1>3 DEF Typed, TypeOK, Rows
  <2>5. clock <= clock'
    BY <1>1, <1>3
  <2>6. QED
    BY <2>2, <2>3, <2>4, <2>5
<1>4. QED
  BY <1>2, <1>3 DEF Stored

ServerTakes(st, p, r) ==
  /\ Stored(st, p, r)
  /\ UNCHANGED <<table, mixed>>
  /\ \A j \in Jobs : \/ job'[j] = job[j]
                     \/ job[j] \in UploadJob /\ job'[j] \in UploadJob
                          /\ ~Idle(j) /\ job'[j].answer = job[j].answer

LEMMA StoredSound ==
  ASSUME Typed, Typed', Sound, NEW st \in Steams, NEW p \in Patterns, NEW r \in Rates,
         ServerTakes(st, p, r)
  PROVE  Sound'
<1> USE DEF ServerTakes
<1>1. /\ clock <= clock'
      /\ \A s \in Steams, q \in Patterns :
           \/ server'[s][q] = server[s][q]
           \/ server'[s][q] # None /\ server'[s][q].at = clock'
  BY StoredIsNewest
<1>2. clock \in Nat /\ clock' \in Nat
  BY ClockAssumption DEF Typed, TypeOK
<1>3. ASSUME NEW rows \in Rows, OnClock(rows)
      PROVE  /\ OnClock(rows)'
             /\ \A q \in Patterns : rows[q] # None => rows[q].at <= clock'
  <2>1. \A q \in Patterns : rows[q] # None => rows[q].at \in Nat
    BY RowFields, ClockAssumption
  <2>2. QED
    BY <1>1, <1>2, <1>3, <2>1 DEF OnClock
<1>4. ASSUME NEW s \in Steams PROVE OnClock(server[s])'
  <2>1. server[s] \in Rows /\ OnClock(server[s])
    BY DEF Typed, TypeOK, Sound, Clocked
  <2>2. QED
    BY <1>1, <1>2, <1>3, <2>1 DEF OnClock
<1>5. Clocked'
  <2>1. \A s \in Steams : OnClock(table[s])'
    BY <1>3 DEF Typed, TypeOK, Sound, Clocked, OnClock
  <2>2. ASSUME NEW j \in Jobs, ~Idle(j)' PROVE OnClock(job[j].answer)'
    <3>1. ~Idle(j) /\ job'[j].answer = job[j].answer
      BY <2>2 DEF Idle
    <3>2. job[j].answer \in Rows /\ OnClock(job[j].answer)
      BY <3>1 DEF Typed, TypeOK, Idle, FetchJob, UploadJob, Sound, Clocked
    <3>3. QED
      BY <1>3, <3>1, <3>2 DEF OnClock
  <2>3. QED
    BY <1>4, <2>1, <2>2 DEF Clocked
<1>6. \A b : \A s \in Steams : Since(s, b)' = Since(s, b)
  BY SinceKept
<1>7. FetchesLeaveNothing'
  <2> SUFFICES ASSUME NEW s \in Steams, NEW b \in Buttons, <<s, b>> \notin mixed,
                      NEW q \in Patterns, Button[q] = b, server'[s][q] # None, Since(s, b) # None
               PROVE  \/ server'[s][q].at >= Since(s, b)
                      \/ table[s][q] # None /\ table[s][q].rate = server'[s][q].rate
    BY <1>6 DEF FetchesLeaveNothing, MarkIsSound
  <2>1. CASE server'[s][q] = server[s][q]
    BY <2>1 DEF Sound, FetchesLeaveNothing, MarkIsSound
  <2>2. CASE server'[s][q].at = clock'
    BY <1>1, <1>2, <2>2, SinceOnClock DEF Sound
  <2>3. QED
    BY <1>1, <2>1, <2>2
<1>8. ASSUME NEW j \in Jobs PROVE JobSound(j)'
  <2>1. CASE job[j] \in UploadJob /\ job'[j] \in UploadJob
    BY <2>1 DEF JobSound, UnderWay, At, UploadJob
  <2>2. CASE job'[j] = job[j]
    <3>1. UnderWay(j)' => \/ Pair(j)' \in mixed' \/ job'[j].since = None
                          \/ job'[j].since = Since(job[j].steam, job[j].button)'
      <4>1. UnderWay(j) => job[j].steam \in Steams
        BY KindOfJob DEF UnderWay, Typed, FetchJob
      <4>2. QED
        BY <1>6, <2>2, <4>1 DEF Sound, JobSound, UnderWay, At, Idle, Pair
    <3>2. ASSUME At(j, "fetch", "merge"), Pair(j) \notin mixed, job[j].answer # NoRows,
                 NEW q \in Patterns, Button[q] = job[j].button, server'[job[j].steam][q] # None
          PROVE  Accounted(job[j].steam, job[j].button, q, job[j].answer, job[j].since)'
      <4>1. job[j].steam \in Steams /\ job[j].answer \in Rows
        BY <3>2, KindOfJob DEF Typed, FetchJob
      <4>2. CASE server'[job[j].steam][q] = server[job[j].steam][q]
        <5>1. Accounted(job[j].steam, job[j].button, q, job[j].answer, job[j].since)
          BY <3>2, <4>2 DEF Sound, JobSound
        <5>2. QED
          BY <2>2, <4>2, <5>1 DEF Accounted, NoNewer
      <4>3. CASE server'[job[j].steam][q].at = clock'
        <5>1. OnClock(job[j].answer) /\ OnClock(table[job[j].steam]) /\ table[job[j].steam] \in Rows
          BY <3>2, <4>1 DEF Sound, Clocked, At, Typed, TypeOK
        <5>2. /\ \A k \in Patterns : job[j].answer[k] # None => job[j].answer[k].at <= clock'
              /\ \A k \in Patterns : table[job[j].steam][k] # None
                                       => table[job[j].steam][k].at <= clock'
          BY <1>3, <4>1, <5>1
        <5>3. QED
          BY <2>2, <4>3, <5>2 DEF Accounted, NoNewer
      <4>4. QED
        BY <1>1, <4>1, <4>2, <4>3
    <3>3. QED
      BY <2>2, <3>1, <3>2 DEF Sound, JobSound, At, Idle, Pair
  <2>3. QED
    BY <2>1, <2>2
<1>9. QED
  BY <1>5, <1>7, <1>8 DEF Sound

(* A step of one job that merges nothing. *)
LEMMA OneJobSound ==
  ASSUME Typed, Sound, NEW j \in Jobs, UNCHANGED <<server, clock, table, mixed>>,
         \A k \in Jobs \ {j} : job'[k] = job[k],
         ~Idle(j)' => OnClock(job'[j].answer), JobSound(j)'
  PROVE  Sound'
<1>1. \A b : \A s \in Steams : Since(s, b)' = Since(s, b)
  BY SinceKept
<1>2. Clocked'
  BY DEF Sound, Clocked, OnClock, Idle
<1>3. FetchesLeaveNothing'
  BY <1>1 DEF Sound, FetchesLeaveNothing, MarkIsSound
<1>4. ASSUME NEW k \in Jobs, k # j PROVE JobSound(k)'
  <2>1. UnderWay(k) => job[k].steam \in Steams
    BY KindOfJob DEF UnderWay, Typed, FetchJob
  <2>2. QED
    BY <1>1, <1>4, <2>1 DEF Sound, JobSound, UnderWay, At, Idle, Pair, Accounted, NoNewer
<1>5. QED
  BY <1>2, <1>3, <1>4 DEF Sound

LEMMA EmptyOnClock == OnClock(NoRows)
BY DEF OnClock, NoRows

(* A job that is not under way as a fetch. *)
LEMMA RestingJobSound ==
  ASSUME NEW j, ~UnderWay(j)'
  PROVE  JobSound(j)'
BY DEF JobSound, UnderWay

LEMMA FetchSinceSound ==
  ASSUME Typed, Sound, NEW j \in Jobs, FetchSince(j)
  PROVE  Sound'
<1>1. job[j] \in FetchJob /\ ~Idle(j)
  BY KindOfJob DEF FetchSince, Typed, At
<1>2. PICK b \in job[j].todo : \E since \in {Since(job[j].steam, b), None} :
        job' = [job EXCEPT ![j].at = "ask", ![j].todo = @ \ {b}, ![j].button = b,
                           ![j].since = since]
  BY DEF FetchSince
<1>a. PICK since \in {Since(job[j].steam, b), None} :
        job' = [job EXCEPT ![j].at = "ask", ![j].todo = @ \ {b}, ![j].button = b,
                           ![j].since = since]
  BY <1>2
<1>3. job'[j] = [job[j] EXCEPT !.at = "ask", !.todo = @ \ {b}, !.button = b,
                               !.since = since]
  BY <1>a DEF Typed, TypeOK
<1>4. /\ job'[j].at = "ask" /\ job'[j].steam = job[j].steam /\ job'[j].button = b
      /\ job'[j].since \in {Since(job[j].steam, b), None} /\ job'[j].answer = job[j].answer
  BY <1>1, <1>3 DEF FetchJob
<1>5. UNCHANGED <<server, clock, table, mixed>>
  BY DEF FetchSince
<1>6. Since(job[j].steam, job[j].button)' = Since(job[j].steam, b)
  BY <1>4, <1>5 DEF Since
<1>7. JobSound(j)'
  BY <1>4, <1>6 DEF JobSound, UnderWay, At
<1>8. OnClock(job'[j].answer)
  BY <1>1, <1>4 DEF Sound, Clocked
<1>9. \A k \in Jobs \ {j} : job'[k] = job[k]
  BY <1>a DEF Typed, TypeOK
<1>10. QED
  BY <1>5, <1>7, <1>8, <1>9, OneJobSound

(* A fetch asks: what the answer leaves out is older than the mark, so the  *)
(* table has its score.                                                     *)
LEMMA FetchAskSound ==
  ASSUME Typed, Sound, NEW j \in Jobs, FetchAsk(j)
  PROVE  Sound'
<1>1. job[j] \in FetchJob /\ job[j].button \in Buttons /\ UnderWay(j)
  BY KindOfJob DEF FetchAsk, Typed, WorksOnButton, UnderWay
<1>2. PICK answer \in Answers(job[j].steam, job[j].button, job[j].since) :
        job' = [job EXCEPT ![j].at = "merge", ![j].answer = answer]
  BY DEF FetchAsk
<1>3. /\ job'[j].at = "merge" /\ job'[j].steam = job[j].steam /\ job'[j].button = job[j].button
      /\ job'[j].since = job[j].since /\ job'[j].answer = answer
  BY <1>1, <1>2 DEF Typed, TypeOK, FetchJob
<1>4. UNCHANGED <<server, clock, table, mixed>>
  BY DEF FetchAsk
<1>5. job[j].steam \in Steams
  BY <1>1 DEF FetchJob
<1>6. \A q \in Patterns : answer[q] # None => Button[q] = job[j].button
                                             /\ answer[q] = server[job[j].steam][q]
  BY <1>2 DEF Answers, NoRows
<1>7. OnClock(answer)
  BY <1>5, <1>6 DEF Sound, Clocked, OnClock
<1>8. ASSUME Pair(j) \notin mixed, answer # NoRows,
             NEW p \in Patterns, Button[p] = job[j].button, server[job[j].steam][p] # None
      PROVE  Accounted(job[j].steam, job[j].button, p, answer, job[j].since)
  <2>1. job[j].since = None \/ job[j].since = Since(job[j].steam, job[j].button)
    BY <1>1, <1>8 DEF Sound, JobSound
  <2>2. CASE job[j].since # None => server[job[j].steam][p].at >= job[j].since
    <3>1. answer[p] = server[job[j].steam][p]
      BY <1>2, <1>8, <2>2 DEF Answers
    <3>2. QED
      BY <3>1 DEF Accounted
  <2>3. CASE ~(job[j].since # None => server[job[j].steam][p].at >= job[j].since)
    <3>1. answer[p] = None
      BY <1>2, <1>8, <2>3 DEF Answers
    <3>2. table[job[j].steam][p] # None
          /\ table[job[j].steam][p].rate = server[job[j].steam][p].rate
      BY <1>1, <1>5, <1>8, <2>1, <2>3 DEF Sound, FetchesLeaveNothing, MarkIsSound, Pair
    <3>3. QED
      BY <2>3, <3>1, <3>2 DEF Accounted
  <2>4. QED
    BY <2>2, <2>3
<1>9. Since(job[j].steam, job[j].button)' = Since(job[j].steam, job[j].button)
  BY <1>3, <1>4 DEF Since
<1>10. JobSound(j)'
  <2>1. \/ Pair(j)' \in mixed' \/ job'[j].since = None
        \/ job'[j].since = Since(job[j].steam, job[j].button)'
    BY <1>1, <1>3, <1>4, <1>9 DEF Sound, JobSound, Pair
  <2>2. \A q \in Patterns : job'[j].answer[q] # None => Button[q] = job'[j].button
    BY <1>3, <1>6
  <2>3. Pair(j)' \in mixed' \/ job'[j].answer = NoRows
          \/ \A p \in Patterns :
               Button[p] = job'[j].button /\ server'[job'[j].steam][p] # None
                 => Accounted(job[j].steam, job[j].button, p, job[j].answer, job[j].since)'
    BY <1>3, <1>4, <1>8 DEF Pair, Accounted, NoNewer
  <2>4. QED
    BY <2>1, <2>2, <2>3 DEF JobSound
<1>11. \A k \in Jobs \ {j} : job'[k] = job[k]
  BY <1>2 DEF Typed, TypeOK
<1>12. QED
  BY <1>3, <1>4, <1>7, <1>10, <1>11, OneJobSound

(* NextButton leaves a job that is not under way. *)
LEMMA NextButtonRests ==
  ASSUME Typed, NEW j \in Jobs, job[j] \in FetchJob, NextButton(j)
  PROVE  /\ ~UnderWay(j)'
         /\ ~Idle(j)' => job'[j].answer = NoRows
         /\ \A k \in Jobs \ {j} : job'[k] = job[k]
<1>1. CASE job[j].todo = {}
  BY <1>1 DEF NextButton, End, Typed, TypeOK, UnderWay, At, Idle
<1>2. CASE job[j].todo # {}
  <2>1. job'[j].at = "since" /\ job'[j].answer = NoRows
    BY <1>2 DEF NextButton, Typed, TypeOK, FetchJob
  <2>2. \A k \in Jobs \ {j} : job'[k] = job[k]
    BY <1>2 DEF NextButton, Typed, TypeOK
  <2>3. QED
    BY <2>1, <2>2 DEF UnderWay, At
<1>3. QED
  BY <1>1, <1>2

LEMMA OtherJobStepSound ==
  ASSUME Typed, Sound, NEW j \in Jobs,
         SpawnFetch(j) \/ FetchFails(j) \/ SpawnUpload(j) \/ UploadAsk(j) \/ UploadFails(j)
  PROVE  Sound'
<1>1. UNCHANGED <<server, clock, table, mixed>>
  BY DEF SpawnFetch, FetchFails, SpawnUpload, UploadAsk, UploadFails
<1>2. \A k \in Jobs \ {j} : job'[k] = job[k]
  <2>1. CASE FetchFails(j)
    BY <2>1, KindOfJob, NextButtonRests DEF FetchFails, Typed
  <2>2. CASE SpawnFetch(j) \/ SpawnUpload(j) \/ UploadAsk(j) \/ UploadFails(j)
    BY <2>2 DEF SpawnFetch, SpawnUpload, Spawn, UploadAsk, UploadFails, End, Typed, TypeOK
  <2>3. QED
    BY <2>1, <2>2
<1>3. ~UnderWay(j)' /\ (~Idle(j)' => OnClock(job'[j].answer))
  <2>1. CASE SpawnFetch(j)
    <3>1. job'[j].at = "since" /\ job'[j].answer = NoRows
      BY <2>1 DEF SpawnFetch, Spawn, Typed, TypeOK
    <3>2. QED
      BY <3>1, EmptyOnClock DEF UnderWay, At
  <2>2. CASE FetchFails(j)
    BY <2>2, KindOfJob, NextButtonRests, EmptyOnClock DEF FetchFails, Typed
  <2>3. CASE SpawnUpload(j)
    <3>1. job'[j].kind = "upload" /\ job'[j].answer = NoRows
      BY <2>3 DEF SpawnUpload, Spawn, Typed, TypeOK
    <3>2. QED
      BY <3>1, EmptyOnClock DEF UnderWay, At
  <2>4. CASE UploadAsk(j)
    <3>1. job[j] \in UploadJob
      BY <2>4, KindOfJob DEF UploadAsk, Typed
    <3>2. PICK answer \in {Fallback(j)} \cup SongAnswers(job[j].steam, job[j].pattern) :
            job' = [job EXCEPT ![j].at = "merge", ![j].answer = answer]
      BY <2>4 DEF UploadAsk
    <3>3. job'[j].kind = "upload" /\ job'[j].answer = answer
      BY <3>1, <3>2 DEF Typed, TypeOK, UploadJob
    <3>4. OnClock(answer)
      <4>1. CASE answer = Fallback(j)
        BY <4>1, ClockAssumption DEF Fallback, OnClock, Typed, TypeOK
      <4>2. CASE answer \in SongAnswers(job[j].steam, job[j].pattern)
        BY <3>1, <4>2 DEF SongAnswers, OnClock, Sound, Clocked, UploadJob
      <4>3. QED
        BY <3>2, <4>1, <4>2
    <3>5. QED
      BY <3>3, <3>4 DEF UnderWay, At
  <2>5. CASE UploadFails(j)
    BY <2>5 DEF UploadFails, End, Typed, TypeOK, UnderWay, At, Idle
  <2>6. QED
    BY <2>1, <2>2, <2>3, <2>4, <2>5
<1>4. JobSound(j)'
  BY <1>3, RestingJobSound
<1>5. QED
  BY <1>1, <1>2, <1>3, <1>4, OneJobSound

(* A job merges an answer into the rows of one pair and rests.  If the pair *)
(* is not mixed afterwards, no other fetch of it is under way and its next  *)
(* mark is sound.                                                           *)
MergesInto(j, st, b, answer, rows) ==
  /\ UNCHANGED <<server, clock>> /\ mixed \subseteq mixed'
  /\ \A k \in Jobs \ {j} : job'[k] = job[k]
  /\ ~UnderWay(j)' /\ (~Idle(j) => OnClock(job[j].answer))'
  /\ OnClock(answer)
  /\ \A p \in Patterns : rows[p] \in {None, table[st][p], answer[p]}
  /\ \A p \in Patterns : Button[p] # b => rows[p] = table[st][p]
  /\ table' = [table EXCEPT ![st] = rows]
  /\ <<st, b>> \notin mixed' =>
       /\ \A k \in Jobs \ {j} : UnderWay(k) => Pair(k) # <<st, b>>
       /\ MarkIsSound(st, b)'

LEMMA MergeSound ==
  ASSUME Typed, Sound, NEW j \in Jobs, NEW st \in Steams, NEW b, NEW answer, NEW rows,
         MergesInto(j, st, b, answer, rows)
  PROVE  Sound'
<1> USE DEF MergesInto
<1>1. table'[st] = rows /\ \A s \in Steams \ {st} : table'[s] = table[s]
  BY DEF Typed, TypeOK
<1>2. \A c : \A s \in Steams : <<s, c>> # <<st, b>> =>
        \A p \in Patterns : Button[p] = c => table'[s][p] = table[s][p]
  BY <1>1
<1>3. \A c : \A s \in Steams : <<s, c>> # <<st, b>> => Since(s, c)' = Since(s, c)
  BY <1>2, SinceKept
<1>4. Clocked'
  <2>1. OnClock(rows)
    BY DEF Sound, Clocked, OnClock
  <2>2. \A s \in Steams : OnClock(table[s])' /\ OnClock(server[s])'
    BY <1>1, <2>1 DEF Sound, Clocked, OnClock
  <2>3. \A k \in Jobs : ~Idle(k)' => OnClock(job[k].answer)'
    BY DEF Sound, Clocked, OnClock, Idle
  <2>4. QED
    BY <2>2, <2>3 DEF Clocked
<1>5. FetchesLeaveNothing'
  <2> SUFFICES ASSUME NEW s \in Steams, NEW c \in Buttons, <<s, c>> \notin mixed'
               PROVE  MarkIsSound(s, c)'
    BY DEF FetchesLeaveNothing
  <2>1. CASE <<s, c>> = <<st, b>>
    BY <2>1
  <2>2. CASE <<s, c>> # <<st, b>>
    <3>1. MarkIsSound(s, c)
      BY DEF Sound, FetchesLeaveNothing
    <3>2. Since(s, c)' = Since(s, c)
      BY <1>3, <2>2
    <3>3. QED
      BY <1>2, <2>2, <3>1, <3>2 DEF MarkIsSound
  <2>3. QED
    BY <2>1, <2>2
<1>6. ASSUME NEW k \in Jobs, k # j PROVE JobSound(k)'
  <2>1. job'[k] = job[k] /\ JobSound(k)
    BY <1>6 DEF Sound
  <2>2. CASE ~UnderWay(k)
    BY <2>1, <2>2 DEF JobSound, UnderWay, At, Idle
  <2>3. CASE UnderWay(k) /\ Pair(k) = <<st, b>>
    <3>1. Pair(k) \in mixed'
      BY <1>6, <2>3
    <3>2. QED
      BY <2>1, <3>1 DEF JobSound, UnderWay, At, Idle, Pair
  <2>4. CASE UnderWay(k) /\ Pair(k) # <<st, b>>
    <3>1. PICK s \in Steams, c \in Buttons \cup {None} : job[k].steam = s /\ job[k].button = c
      BY <2>4, KindOfJob DEF UnderWay, Typed, FetchJob
    <3>2. <<s, c>> # <<st, b>>
      BY <2>4, <3>1 DEF Pair
    <3>3. Since(s, c)' = Since(s, c)
      BY <1>3, <3>2
    <3>4. \A p \in Patterns : Button[p] = c => table'[s][p] = table[s][p]
      BY <1>2, <3>2
    <3>5. \A got, since : \A p \in Patterns : Button[p] = c /\ Accounted(s, c, p, got, since)
                                                => Accounted(s, c, p, got, since)'
      BY <3>4 DEF Accounted, NoNewer
    <3>6. UnderWay(k)' => <<s, c>> \in mixed' \/ job'[k].since = None \/ job'[k].since = Since(s, c)'
      BY <2>1, <2>4, <3>1, <3>3 DEF JobSound, Pair
    <3>7. ASSUME At(k, "fetch", "merge")'
          PROVE  /\ \A q \in Patterns : job'[k].answer[q] # None => Button[q] = c
                 /\ <<s, c>> \in mixed' \/ job'[k].answer = NoRows
                      \/ \A p \in Patterns : Button[p] = c /\ server'[s][p] # None
                           => Accounted(s, c, p, job[k].answer, job[k].since)'
      <4>1. At(k, "fetch", "merge")
        BY <2>1, <3>7 DEF At, Idle
      <4>2. CASE <<s, c>> \in mixed \/ job[k].answer = NoRows
        BY <2>1, <3>1, <4>1, <4>2 DEF JobSound, Pair
      <4>3. CASE \A p \in Patterns : Button[p] = c /\ server[s][p] # None
                   => Accounted(s, c, p, job[k].answer, job[k].since)
        BY <2>1, <3>1, <3>5, <4>1, <4>3 DEF JobSound, Pair
      <4>4. QED
        BY <2>1, <3>1, <4>1, <4>2, <4>3 DEF JobSound, Pair
    <3>8. QED
      BY <2>1, <3>1, <3>6, <3>7 DEF JobSound, Pair
  <2>5. QED
    BY <2>2, <2>3, <2>4
<1>7. JobSound(j)'
  BY RestingJobSound
<1>8. QED
  BY <1>4, <1>5, <1>6, <1>7 DEF Sound

LEMMA UploadMergeSound ==
  ASSUME Typed, Sound, NEW j \in Jobs, UploadMerge(j)
  PROVE  Sound'
<1>1. job[j] \in UploadJob /\ ~Idle(j)
  BY KindOfJob DEF UploadMerge, Typed, At
<1>2. PICK st \in Steams, b \in Buttons, answer \in Rows :
        job[j].steam = st /\ Button[job[j].pattern] = b /\ job[j].answer = answer
  BY <1>1 DEF UploadJob, Buttons
<1>3. table[st] \in Rows /\ OnClock(answer)
  BY <1>1, <1>2 DEF Typed, TypeOK, Sound, Clocked
<1>4. PICK skipped : table' = [table EXCEPT ![st] = Merged(@, b, answer, FALSE, skipped)]
  BY <1>2 DEF UploadMerge, MergeAccount
<1> DEFINE rows == Merged(table[st], b, answer, FALSE, skipped)
<1>a. table' = [table EXCEPT ![st] = rows]
  BY <1>4
<1>5. /\ \A p \in Patterns : rows[p] \in {None, table[st][p], answer[p]}
      /\ \A p \in Patterns : Button[p] # b => rows[p] = table[st][p]
  <2>1. rows \in Rows /\ \A p \in Patterns : rows[p] \in {None, table[st][p], answer[p]}
    BY <1>3, MergedRows
  <2>2. \A p \in Patterns : Button[p] # b => rows[p] = table[st][p]
    BY DEF Merged
  <2>3. QED
    BY <2>1, <2>2
<1>6. mixed \subseteq mixed' /\ <<st, b>> \in mixed' /\ UNCHANGED <<server, clock>>
  BY <1>2 DEF UploadMerge, MergeAccount
<1>7. /\ \A k \in Jobs \ {j} : job'[k] = job[k]
      /\ Idle(j)' /\ ~UnderWay(j)'
  BY DEF UploadMerge, End, Typed, TypeOK, Idle, UnderWay, At
<1>8. QED
  <2>1. MergesInto(j, st, b, answer, rows)
    BY <1>3, <1>4, <1>5, <1>6, <1>7 DEF MergesInto
  <2>2. QED
    BY <2>1, MergeSound

(* A fetch merges all it was sent.  Nobody has merged since it read the     *)
(* mark, so that rows an incremental answer leaves out are still in the     *)
(* table with their score.                                                  *)
LEMMA MergedMarkIsSound ==
  ASSUME Typed, Typed', Sound, NEW j \in Jobs, NEW st \in Steams, NEW b \in Buttons,
         NEW answer \in Rows, NEW rows,
         At(j, "fetch", "merge"), job[j].steam = st, job[j].button = b, job[j].answer = answer,
         <<st, b>> \notin mixed, UNCHANGED server,
         rows = Merged(table[st], b, answer, job[j].since = None, {}),
         table' = [table EXCEPT ![st] = rows]
  PROVE  MarkIsSound(st, b)'
<1>1. table'[st] = rows
  BY DEF Typed, TypeOK
<1>2. MarkIsSound(st, b)
  BY DEF Sound, FetchesLeaveNothing
<1>3. CASE answer = NoRows
  <2>1. \A p \in Patterns : rows[p] = table[st][p]
    BY <1>3 DEF Merged
  <2>2. Since(st, b)' = Since(st, b)
    BY <1>1, <2>1, SinceKept
  <2>3. QED
    BY <1>1, <1>2, <2>1, <2>2 DEF MarkIsSound
<1>4. CASE answer # NoRows
  <2> SUFFICES ASSUME NEW p \in Patterns, Button[p] = b, server[st][p] # None, Since(st, b)' # None
               PROVE  \/ server[st][p].at >= Since(st, b)'
                      \/ rows[p] # None /\ rows[p].rate = server[st][p].rate
    BY <1>1 DEF MarkIsSound
  <2>1. rows[p] = IF answer[p] # None \/ job[j].since = None THEN answer[p] ELSE table[st][p]
    BY <1>4 DEF Merged
  <2>2. Accounted(st, b, p, answer, job[j].since)
    BY <1>4 DEF Sound, JobSound, Pair
  <2>3. CASE answer[p] = server[st][p]
    BY <2>1, <2>3
  <2>4. CASE NoNewer(table[st], b, server[st][p]) /\ NoNewer(answer, b, server[st][p])
    <3>1. \A q \in Patterns : rows[q] \in {None, table[st][q], answer[q]}
      BY MergedRows DEF Typed, TypeOK
    <3>2. Since(st, b)' \in Marks(rows, b)
      <4>1. (/\ Marks(table[st], b) = {} <=> Since(st, b) = None
             /\ Marks(table[st], b) # {} => Since(st, b) \in Marks(table[st], b))'
        BY SinceIsNewest, PTL DEF Typed
      <4>2. QED
        BY <1>1, <4>1 DEF Marks
    <3>3. PICK q \in Patterns : Button[q] = b /\ rows[q] # None /\ Since(st, b)' = rows[q].at
      BY <3>2 DEF Marks
    <3>4. rows[q].at <= server[st][p].at
      BY <2>4, <3>1, <3>3 DEF NoNewer
    <3>5. server[st][p].at \in Nat /\ rows[q].at \in Nat
      <4>1. server[st] \in Rows /\ rows \in Rows
        BY <1>1 DEF Typed, TypeOK
      <4>2. server[st][p].at \in 0..MaxClock /\ rows[q].at \in 0..MaxClock
        BY <3>3, <4>1, RowFields
      <4>3. QED
        BY <4>2, ClockAssumption
    <3>6. QED
      BY <3>3, <3>4, <3>5
  <2>5. CASE /\ job[j].since # None /\ answer[p] = None
             /\ table[st][p] # None /\ table[st][p].rate = server[st][p].rate
    BY <2>1, <2>5
  <2>6. QED
    BY <2>2, <2>3, <2>4, <2>5 DEF Accounted
<1>5. QED
  BY <1>3, <1>4

LEMMA FetchMergeSound ==
  ASSUME Typed, Typed', Sound, NEW j \in Jobs, FetchMerge(j)
  PROVE  Sound'
<1>1. job[j] \in FetchJob /\ ~Idle(j) /\ UnderWay(j) /\ job[j].button \in Buttons
  BY KindOfJob DEF FetchMerge, Typed, At, UnderWay, WorksOnButton
<1>2. PICK st \in Steams, b \in Buttons, answer \in Rows :
        job[j].steam = st /\ job[j].button = b /\ job[j].answer = answer
  BY <1>1 DEF FetchJob
<1>3. table[st] \in Rows /\ OnClock(answer)
  BY <1>1, <1>2 DEF Typed, TypeOK, Sound, Clocked
<1>4. PICK skipped :
        /\ table' = [table EXCEPT ![st] = Merged(@, b, answer, job[j].since = None, skipped)]
        /\ mixed' = IF Overlapping(j) = {} /\ skipped = {} THEN mixed
                    ELSE mixed \cup {<<st, b>>}
  BY <1>2 DEF FetchMerge
<1> DEFINE rows == Merged(table[st], b, answer, job[j].since = None, skipped)
<1>a. table' = [table EXCEPT ![st] = rows]
  BY <1>4
<1>5. /\ \A p \in Patterns : rows[p] \in {None, table[st][p], answer[p]}
      /\ \A p \in Patterns : Button[p] # b => rows[p] = table[st][p]
  <2>1. rows \in Rows /\ \A p \in Patterns : rows[p] \in {None, table[st][p], answer[p]}
    BY <1>3, MergedRows
  <2>2. \A p \in Patterns : Button[p] # b => rows[p] = table[st][p]
    BY DEF Merged
  <2>3. QED
    BY <2>1, <2>2
<1>6. mixed \subseteq mixed' /\ UNCHANGED <<server, clock>>
  BY DEF FetchMerge
<1>7. /\ \A k \in Jobs \ {j} : job'[k] = job[k]
      /\ ~UnderWay(j)' /\ (~Idle(j) => OnClock(job[j].answer))'
  BY <1>1, NextButtonRests, EmptyOnClock DEF FetchMerge, OnClock, NoRows
<1>8. ASSUME <<st, b>> \notin mixed'
      PROVE  /\ <<st, b>> \notin mixed /\ skipped = {}
             /\ \A k \in Jobs \ {j} : UnderWay(k) => Pair(k) # <<st, b>>
  <2>1. Overlapping(j) = {} /\ skipped = {} /\ <<st, b>> \notin mixed
    BY <1>4, <1>8
  <2>2. QED
    BY <1>2, <2>1 DEF Overlapping, UnderWay, At, Pair
<1>9. <<st, b>> \notin mixed' => MarkIsSound(st, b)'
  BY <1>2, <1>4, <1>6, <1>8, MergedMarkIsSound DEF FetchMerge
<1>10. QED
  <2>1. MergesInto(j, st, b, answer, rows)
    BY <1>3, <1>4, <1>5, <1>6, <1>7, <1>8, <1>9 DEF MergesInto
  <2>2. QED
    BY <2>1, MergeSound

LEMMA SoundStep ==
  ASSUME Typed, Sound, [Next]_vars
  PROVE  Sound'
<1>1. Typed'
  BY TypedStep
<1>2. CASE UploadElsewhere
  <2>1. PICK st \in Steams, p \in Patterns, r \in Rates : Stored(st, p, r)
    BY <1>2 DEF UploadElsewhere
  <2>2. UNCHANGED <<table, job, mixed>>
    BY <1>2 DEF UploadElsewhere
  <2>3. QED
    BY <1>1, <2>1, <2>2, StoredSound DEF ServerTakes
<1>3. CASE SwitchAccount \/ UNCHANGED vars
  <2>1. UNCHANGED <<server, clock, table, job, mixed>>
    BY <1>3 DEF SwitchAccount, vars
  <2>2. \A b : \A s \in Steams : Since(s, b)' = Since(s, b)
    BY <2>1, SinceKept
  <2>3. \A j \in Jobs : JobSound(j)'
    BY <2>1 DEF Sound, JobSound, UnderWay, At, Idle, Pair, Accounted, NoNewer, Since
  <2>4. QED
    BY <2>1, <2>2, <2>3 DEF Sound, Clocked, OnClock, Idle, FetchesLeaveNothing, MarkIsSound
<1>4. ASSUME NEW j \in Jobs, UploadSend(j) PROVE Sound'
  <2>1. job[j] \in UploadJob /\ ~Idle(j)
    BY <1>4, KindOfJob DEF UploadSend, Typed, At
  <2>2. PICK st \in Steams, p \in Patterns, r \in Rates : Stored(st, p, r)
    BY <1>4, <2>1 DEF UploadSend, UploadJob
  <2>3. job'[j] = [job[j] EXCEPT !.at = "ask"] /\ \A k \in Jobs \ {j} : job'[k] = job[k]
    BY <1>4 DEF UploadSend, Typed, TypeOK
  <2>4. job'[j] \in UploadJob /\ job'[j].answer = job[j].answer
    BY <2>1, <2>3 DEF UploadJob
  <2>5. QED
    <3>1. ServerTakes(st, p, r)
      BY <1>4, <2>1, <2>2, <2>3, <2>4 DEF ServerTakes, UploadSend
    <3>2. QED
      BY <1>1, <3>1, StoredSound
<1>5. QED
  BY <1>1, <1>2, <1>3, <1>4, FetchSinceSound, FetchAskSound, FetchMergeSound, UploadMergeSound,
     OtherJobStepSound DEF Next

LEMMA SoundAlways == Spec => []Sound
<1>1. Init => Sound
  <2>1. Init => \A b : \A st \in Steams : Marks(table[st], b) = {}
    BY DEF Init, Marks, NoRows
  <2>2. QED
    BY <2>1 DEF Init, Sound, Clocked, OnClock, FetchesLeaveNothing, MarkIsSound, JobSound, UnderWay,
                NoRows, Idle, At
<1>2. Typed /\ Sound /\ [Next]_vars => Sound'
  BY SoundStep
<1>3. QED
  BY <1>1, <1>2, TypedAlways, PTL DEF Spec

(* Fetches of a button that run one after another never skip a row of the   *)
(* server, for any number of patterns, accounts and jobs, whatever fails    *)
(* half-way and whatever is uploaded elsewhere meanwhile.                   *)
THEOREM NothingLeft == Spec => []FetchesLeaveNothing
<1>1. Sound => FetchesLeaveNothing
  BY DEF Sound
<1>2. QED
  BY <1>1, SoundAlways, PTL

---------------------------------------------------------------------------
(* A row is erased by a full answer only, and not by an empty one.          *)

LEMMA FetchMergeErases ==
  ASSUME Typed, NEW j \in Jobs, FetchMerge(j), NEW s \in Steams, NEW p \in Patterns,
         table[s][p] # None, table'[s][p] = None
  PROVE  /\ At(j, "fetch", "merge") /\ ~At(j, "fetch", "merge")'
         /\ job[j].steam = s /\ job[j].button = Button[p]
         /\ job[j].since = None /\ job[j].answer # NoRows
<1>1. job[j] \in FetchJob /\ At(j, "fetch", "merge") /\ NextButton(j)
  BY KindOfJob DEF FetchMerge, Typed
<1>2. PICK st \in Steams, answer \in Rows : job[j].steam = st /\ job[j].answer = answer
  BY <1>1 DEF FetchJob
<1>3. PICK skipped :
        table' = [table EXCEPT ![st] =
                    Merged(@, job[j].button, answer, job[j].since = None, skipped)]
  BY <1>2 DEF FetchMerge
<1> DEFINE rows == Merged(table[st], job[j].button, answer, job[j].since = None, skipped)
<1>4. table[st] \in Rows /\ table'[st] = rows /\ \A k \in Steams \ {st} : table'[k] = table[k]
  BY <1>3 DEF Typed, TypeOK
<1>5. s = st /\ rows[p] = None
  BY <1>4
<1>6. Button[p] = job[j].button /\ answer # NoRows /\ job[j].since = None
  BY <1>4, <1>5 DEF Merged
<1>7. ~At(j, "fetch", "merge")'
  BY <1>1, NextButtonRests DEF UnderWay
<1>8. QED
  BY <1>1, <1>2, <1>5, <1>6, <1>7

LEMMA UploadMergeErases ==
  ASSUME Typed, NEW j \in Jobs, UploadMerge(j), NEW s \in Steams, NEW p \in Patterns,
         table[s][p] # None
  PROVE  table'[s][p] # None
<1>1. job[j] \in UploadJob
  BY KindOfJob DEF UploadMerge, Typed
<1>2. PICK st \in Steams, answer \in Rows : job[j].steam = st /\ job[j].answer = answer
  BY <1>1 DEF UploadJob
<1>3. PICK skipped :
        table' = [table EXCEPT ![st] =
                    Merged(@, Button[job[j].pattern], answer, FALSE, skipped)]
  BY <1>2 DEF UploadMerge, MergeAccount
<1> DEFINE rows == Merged(table[st], Button[job[j].pattern], answer, FALSE, skipped)
<1>4. table[st] \in Rows /\ table'[st] = rows /\ \A k \in Steams \ {st} : table'[k] = table[k]
  BY <1>3 DEF Typed, TypeOK
<1>5. CASE s = st
  <2>1. table[st][p] # None => rows[p] # None
    BY DEF Merged
  <2>2. QED
    BY <1>4, <1>5, <2>1
<1>6. QED
  BY <1>4, <1>5

(* No failed or incremental fetch, no upload and no switch of accounts ever *)
(* erases a row; a full answer does so only for its own account and button, *)
(* and only if it is not empty (sync.rs, merge_varchive_fetched_records).   *)
THEOREM RankingKept == Spec => OnlyFullAnswersErase
<1>1. ASSUME Typed, [Next]_vars, NEW st \in Steams, NEW p \in Patterns,
             table[st][p] # None, table'[st][p] = None
      PROVE  \E j \in Jobs :
               /\ At(j, "fetch", "merge") /\ ~At(j, "fetch", "merge")'
               /\ job[j].steam = st /\ job[j].button = Button[p]
               /\ job[j].since = None /\ job[j].answer # NoRows
  <2>1. CASE \E j \in Jobs : FetchMerge(j)
    BY <1>1, <2>1, FetchMergeErases
  <2>2. CASE \E j \in Jobs : UploadMerge(j)
    BY <1>1, <2>2, UploadMergeErases
  <2>3. CASE UNCHANGED table
    BY <1>1, <2>3
  <2>4. QED
    BY <1>1, <2>1, <2>2, <2>3 DEF Next, vars, UploadElsewhere, SwitchAccount, SpawnFetch, FetchSince,
       FetchAsk, FetchFails, SpawnUpload, UploadSend, UploadAsk, UploadFails
<1>2. Typed /\ [Next]_vars =>
        [\A st \in Steams, p \in Patterns :
           table[st][p] # None /\ table'[st][p] = None =>
             \E j \in Jobs :
               /\ At(j, "fetch", "merge") /\ ~At(j, "fetch", "merge")'
               /\ job[j].steam = st /\ job[j].button = Button[p]
               /\ job[j].since = None /\ job[j].answer # NoRows]_vars
  BY <1>1
<1>3. QED
  BY <1>2, TypedAlways, PTL DEF Spec, OnlyFullAnswersErase
=============================================================================
