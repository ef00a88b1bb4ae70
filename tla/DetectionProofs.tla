-------------------------- MODULE DetectionProofs --------------------------
(***************************************************************************)
(* Proofs about the detection pipeline and its play-state detector: types  *)
(* are kept, the region set follows the committed scene, gameplay silences *)
(* at once, and an event of a result screen belongs to the play whose      *)
(* result is up, for any scenes, songs, charts, rates and window sizes.    *)
(***************************************************************************)
EXTENDS Detection, SequenceTheorems, FiniteSetTheorems, WellFoundedInduction, TLAPS

---------------------------------------------------------------------------
(* Least and greatest elements of sets of numbers. *)

(* The initial segments below the elements of a set are finite sets, among  *)
(* which inclusion is well founded.                                         *)
LEMMA LeastNat ==
  ASSUME NEW T \in SUBSET Nat, T # {}
  PROVE  \E m \in T : \A t \in T : m <= t
<1> DEFINE R == StrictSubsetOrdering(Nat)
           U == {0..t : t \in T}
<1>1. IsWellFoundedOn(R, FiniteSubsetsOf(Nat))
  BY FS_StrictSubsetOrderingWellFounded
<1>2. U \subseteq FiniteSubsetsOf(Nat) /\ U # {}
  <2>1. ASSUME NEW t \in T
        PROVE  0..t \in FiniteSubsetsOf(Nat)
    <3>1. 0..t \in SUBSET Nat /\ 0 \in Int /\ t \in Int
      OBVIOUS
    <3>2. IsFiniteSet(0..t)
      BY <3>1, FS_Interval
    <3> QED BY <3>1, <3>2 DEF FiniteSubsetsOf
  <2> QED BY <2>1
<1>3. PICK I \in U : \A J \in U : <<J, I>> \notin R
  <2> HIDE DEF R, U
  <2> QED BY <1>1, <1>2, WFMin
<1>4. PICK m \in T : I = 0..m
  BY <1>3
<1>5. ASSUME NEW t \in T, t < m
      PROVE  FALSE
  <2>1. 0..t \in SUBSET Nat /\ 0..m \in SUBSET Nat
    OBVIOUS
  <2>2. 0..t \subseteq 0..m /\ m \in 0..m /\ m \notin 0..t
    BY <1>5
  <2>3. <<0..t, 0..m>> \in R
    BY <2>1, <2>2 DEF StrictSubsetOrdering
  <2> QED BY <1>3, <1>4, <2>3
<1> QED BY <1>5

(* Of the readings at some places of a window, one is the greatest: the     *)
(* places read higher than each of them are finite sets again.              *)
LEMMA GreatestReading ==
  ASSUME NEW w \in Seq(Nat), NEW I \in SUBSET (1..Len(w)), I # {}
  PROVE  \E j \in I : \A i \in I : w[i] <= w[j]
<1> DEFINE R == StrictSubsetOrdering(Nat)
           Higher(j) == {i \in I : w[j] < w[i]}
           U == {Higher(j) : j \in I}
<1>0. Len(w) \in Nat /\ \A i \in I : w[i] \in Nat /\ i \in Nat
  OBVIOUS
<1>1. IsWellFoundedOn(R, FiniteSubsetsOf(Nat))
  BY FS_StrictSubsetOrderingWellFounded
<1>2. U \subseteq FiniteSubsetsOf(Nat) /\ U # {}
  <2>1. IsFiniteSet(1..Len(w))
    BY <1>0, FS_Interval
  <2>2. ASSUME NEW j \in I
        PROVE  Higher(j) \in FiniteSubsetsOf(Nat)
    <3>1. Higher(j) \in SUBSET (1..Len(w)) /\ Higher(j) \in SUBSET Nat
      BY <1>0
    <3> HIDE DEF Higher
    <3>2. IsFiniteSet(Higher(j))
      BY <2>1, <3>1, FS_Subset
    <3> QED BY <3>1, <3>2 DEF FiniteSubsetsOf
  <2> QED BY <2>2
<1>3. PICK H \in U : \A J \in U : <<J, H>> \notin R
  <2> HIDE DEF R, U
  <2> QED BY <1>1, <1>2, WFMin
<1>4. PICK j \in I : H = Higher(j)
  BY <1>3
<1>5. ASSUME NEW i \in I, w[j] < w[i]
      PROVE  FALSE
  <2>1. \A k \in I : w[i] < w[k] => w[j] < w[k]
    BY <1>0, <1>5
  <2>2. Higher(i) \subseteq Higher(j) /\ Higher(i) # Higher(j)
    <3>1. i \in Higher(j) /\ i \notin Higher(i)
      BY <1>0, <1>5
    <3> QED BY <2>1, <3>1
  <2>3. Higher(i) \in SUBSET Nat /\ Higher(j) \in SUBSET Nat
    BY <1>0
  <2>4. <<Higher(i), Higher(j)>> \in R
    BY <2>2, <2>3 DEF StrictSubsetOrdering
  <2> QED BY <1>3, <1>4, <2>4
<1> HIDE DEF R, U, Higher
<1>6. \A i \in I : w[i] <= w[j]
  BY <1>0, <1>5
<1> QED BY <1>6

---------------------------------------------------------------------------
(* The median of a window is a reading of the window. *)

Below(w, r) == Cardinality({i \in DOMAIN w : w[i] < r})
UpTo(w, r) == Cardinality({i \in DOMAIN w : w[i] <= r})
IsMiddle(w, r) == Below(w, r) <= Len(w) \div 2 /\ Len(w) \div 2 < UpTo(w, r)

LEMMA WindowReadings ==
  ASSUME NEW w \in Seq(Rates)
  PROVE  /\ w \in Seq(Nat) /\ Len(w) \in Nat /\ DOMAIN w = 1..Len(w)
         /\ \A i \in 1..Len(w) : w[i] \in Rates /\ w[i] \in Nat
<1>1. Len(w) \in Nat /\ DOMAIN w = 1..Len(w) /\ \A i \in 1..Len(w) : w[i] \in Rates
  OBVIOUS
<1>2. \A i \in 1..Len(w) : w[i] \in Nat
  BY <1>1, RateAssumption
<1>3. w \in [1..Len(w) -> Nat]
  <2>1. w = [i \in DOMAIN w |-> w[i]]
    OBVIOUS
  <2> QED BY <1>1, <1>2, <2>1
<1>4. w \in Seq(Nat)
  BY <1>1, <1>3, SeqDef
<1> QED BY <1>1, <1>2, <1>4

LEMMA MiddleExists ==
  ASSUME NEW w \in Seq(Rates), Len(w) > 0
  PROVE  \E r \in Rates : IsMiddle(w, r)
<1> DEFINE n == Len(w)
           mid == n \div 2
           M == {w[i] : i \in {k \in 1..n : mid < UpTo(w, w[k])}}
<1>1. w \in Seq(Nat) /\ n \in Nat /\ DOMAIN w = 1..n /\ \A i \in 1..n : w[i] \in Rates /\ w[i] \in Nat
  BY WindowReadings
<1>2. mid \in Nat /\ mid < n
  BY <1>1
<1>3. IsFiniteSet(1..n) /\ Cardinality(1..n) = n
  BY <1>1, FS_Interval
<1>4. PICK top \in 1..n : \A i \in 1..n : w[i] <= w[top]
  <2>1. 1..n # {} /\ 1..n \in SUBSET (1..Len(w))
    BY <1>1
  <2> QED BY <1>1, <2>1, GreatestReading
<1>5. UpTo(w, w[top]) = n
  <2>1. {i \in DOMAIN w : w[i] <= w[top]} = 1..n
    BY <1>1, <1>4
  <2> QED BY <1>3, <2>1 DEF UpTo
<1>6. M \in SUBSET Nat /\ M # {}
  <2>1. w[top] \in M
    BY <1>2, <1>5
  <2> QED BY <1>1, <2>1
<1>7. PICK r \in M : \A t \in M : r <= t
  <2> HIDE DEF M
  <2> QED BY <1>6, LeastNat
<1>8. r \in Rates /\ r \in Nat /\ mid < UpTo(w, r)
  BY <1>1
<1>9. ASSUME mid < Below(w, r)
      PROVE  FALSE
  <2> DEFINE I == {i \in DOMAIN w : w[i] < r}
  <2>1. I \in SUBSET (1..Len(w)) /\ I # {}
    <3>1. Cardinality({}) = 0
      BY FS_EmptySet
    <3>2. Cardinality(I) # 0
      BY <1>2, <1>9 DEF Below
    <3>3. I # {}
      BY <3>1, <3>2
    <3> QED BY <1>1, <3>3
  <2>2. PICK j \in I : \A i \in I : w[i] <= w[j]
    <3> HIDE DEF I
    <3> QED BY <1>1, <2>1, GreatestReading
  <2>3. I = {i \in DOMAIN w : w[i] <= w[j]}
    BY <1>1, <1>8, <2>2
  <2>4. UpTo(w, w[j]) = Below(w, r)
    BY <2>3 DEF UpTo, Below
  <2>5. w[j] \in M
    BY <1>1, <1>9, <2>4
  <2>6. r <= w[j] /\ w[j] < r
    BY <1>7, <2>5
  <2> QED BY <1>1, <1>8, <2>6
<1>10. Below(w, r) \in Nat
  <2>1. {i \in DOMAIN w : w[i] < r} \in SUBSET (1..n)
    BY <1>1
  <2>2. IsFiniteSet({i \in DOMAIN w : w[i] < r})
    BY <1>3, <2>1, FS_Subset
  <2> QED BY <2>2, FS_CardinalityType DEF Below
<1> QED BY <1>2, <1>8, <1>9, <1>10 DEF IsMiddle

LEMMA MedianRead ==
  ASSUME NEW w \in Seq(Rates), Len(w) > 0
  PROVE  Median(w) \in Rates /\ \E i \in 1..Len(w) : Median(w) = w[i]
<1>1. Median(w) = CHOOSE r \in Rates : IsMiddle(w, r)
  BY DEF Median, IsMiddle, Below, UpTo
<1>2. Median(w) \in Rates /\ IsMiddle(w, Median(w))
  <2> HIDE DEF IsMiddle
  <2> QED BY <1>1, MiddleExists
<1>3. ASSUME \A i \in 1..Len(w) : Median(w) # w[i]
      PROVE  FALSE
  <2> DEFINE m == Median(w)
  <2>1. Len(w) \in Nat /\ m \in Nat /\ DOMAIN w = 1..Len(w) /\ \A i \in 1..Len(w) : w[i] \in Nat
    BY <1>2, WindowReadings, RateAssumption
  <2>2. \A i \in 1..Len(w) : m # w[i]
    BY <1>3
  <2>3. Below(w, m) <= Len(w) \div 2 /\ Len(w) \div 2 < UpTo(w, m)
    BY <1>2 DEF IsMiddle
  <2> HIDE DEF m
  <2>4. {i \in DOMAIN w : w[i] < m} = {i \in DOMAIN w : w[i] <= m}
    BY <2>1, <2>2
  <2>5. Below(w, m) = UpTo(w, m)
    BY <2>4 DEF Below, UpTo
  <2>6. IsFiniteSet(1..Len(w))
    BY <2>1, FS_Interval
  <2>7. {i \in DOMAIN w : w[i] < m} \in SUBSET (1..Len(w))
    BY <2>1
  <2>8. Below(w, m) \in Nat
    BY <2>6, <2>7, FS_Subset, FS_CardinalityType DEF Below
  <2>9. Len(w) \div 2 \in Nat
    BY <2>1
  <2> QED BY ONLY <2>3, <2>5, <2>8, <2>9
<1> QED BY <1>2, <1>3

---------------------------------------------------------------------------
(* Bounded queues. *)

Pushed(new, S, seq, x, size) ==
  /\ new \in Seq(S)
  /\ Len(new) = IF Len(seq) = size THEN size ELSE Len(seq) + 1
  /\ Len(new) \in 1..size
  /\ new[Len(new)] = x
  /\ \A i \in 1..Len(new) : i # Len(new) => new[i] = seq[i + Len(seq) + 1 - Len(new)]

LEMMA PushLastFacts ==
  ASSUME NEW S, NEW seq \in Seq(S), NEW x \in S, NEW size \in Nat \ {0}, Len(seq) <= size
  PROVE  Pushed(PushLast(seq, x, size), S, seq, x, size)
<1>0. Len(seq) \in Nat
  OBVIOUS
<1>1. CASE Len(seq) = size
  <2>1. seq # <<>> /\ Tail(seq) \in Seq(S) /\ Len(Tail(seq)) = size - 1
    BY <1>0, <1>1
  <2>2. \A i \in 1..Len(Tail(seq)) : Tail(seq)[i] = seq[i + 1]
    BY <1>0, <1>1
  <2>3. PushLast(seq, x, size) = Append(Tail(seq), x)
    BY <1>1 DEF PushLast
  <2> QED BY <1>0, <1>1, <2>1, <2>2, <2>3 DEF Pushed
<1>2. CASE Len(seq) # size
  <2>1. PushLast(seq, x, size) = Append(seq, x)
    BY <1>2 DEF PushLast
  <2> QED BY <1>0, <1>2, <2>1 DEF Pushed
<1> QED BY <1>1, <1>2

---------------------------------------------------------------------------
(* The hysteresis buffer. *)

Hysts == {b \in [samples : Seq(BOOLEAN), active : BOOLEAN, leaving : BOOLEAN] :
            Len(b.samples) <= Length /\ (b.active => Len(b.samples) >= MinSamples)}

(* The newest k samples are misses. *)
Fading(samples, k) ==
  \A i \in 1..Len(samples) : Len(samples) - i < k => ~samples[i]

LEMMA EmptyFades ==
  /\ EmptyBuffer \in Hysts /\ ~EmptyBuffer.active
  /\ \A k \in Nat : Fading(EmptyBuffer.samples, k)
<1>1. <<>> \in Seq(BOOLEAN) /\ Len(<<>>) = 0
  BY EmptySeq
<1> QED BY <1>1 DEF EmptyBuffer, Hysts, Fading, Length, MinSamples

LEMMA PushSample ==
  ASSUME NEW samples \in Seq(BOOLEAN), Len(samples) <= Length, NEW hit \in BOOLEAN
  PROVE  /\ Push(samples, hit) \in Seq(BOOLEAN)
         /\ Len(Push(samples, hit)) = IF Len(samples) = 4 THEN 4 ELSE Len(samples) + 1
         /\ Len(Push(samples, hit)) \in 1..4
         /\ Push(samples, hit)[Len(Push(samples, hit))] = hit
         /\ \A i \in 1..Len(Push(samples, hit)) : i # Len(Push(samples, hit)) =>
              Push(samples, hit)[i] = samples[i + Len(samples) + 1 - Len(Push(samples, hit))]
<1>1. PICK S, x, size : S = BOOLEAN /\ x = hit /\ size = 4
  OBVIOUS
<1>2. samples \in Seq(S) /\ x \in S /\ size \in Nat \ {0} /\ Len(samples) <= size
  BY <1>1 DEF Length
<1>3. Pushed(PushLast(samples, x, size), S, samples, x, size)
  BY ONLY <1>2, PushLastFacts
<1>4. Push(samples, hit) = PushLast(samples, x, size)
  BY <1>1 DEF Push, PushLast, Length
<1> QED BY <1>1, <1>3, <1>4 DEF Pushed

(* A miss ages the samples by one. *)
LEMMA PushFades ==
  ASSUME NEW samples \in Seq(BOOLEAN), Len(samples) <= Length,
         NEW k \in Nat, Fading(samples, k)
  PROVE  Fading(Push(samples, FALSE), k + 1)
<1> DEFINE new == Push(samples, FALSE)
           l == Len(samples)
           n == Len(new)
<1>0. l \in Nat /\ l <= 4
  BY DEF Length
<1>1. /\ l \in Nat /\ l <= 4 /\ n \in 1..4 /\ n = IF l = 4 THEN 4 ELSE l + 1
      /\ new[n] = FALSE
      /\ \A i \in 1..n : i # n => new[i] = samples[i + l + 1 - n]
  BY <1>0, PushSample
<1>2. \A i \in 1..l : l - i < k => ~samples[i]
  BY DEF Fading
<1> HIDE DEF new, l, n
<1>3. ASSUME NEW i \in 1..n, n - i < k + 1
      PROVE  ~new[i]
  <2>1. CASE i = n
    BY <1>1, <2>1
  <2>2. CASE i # n
    <3> DEFINE j == i + l + 1 - n
    <3>1. j \in 1..l /\ l - j < k
      BY ONLY <1>1, <1>3, <2>2, k \in Nat
    <3>2. ~samples[j]
      BY <1>2, <3>1
    <3> QED BY <1>1, <2>2, <3>2
  <2> QED BY <2>1, <2>2
<1> QED BY <1>3 DEF Fading, new, n

LEMMA FadingLess ==
  ASSUME NEW samples \in Seq(BOOLEAN), NEW k \in Nat, NEW l \in Nat, l <= k,
         Fading(samples, k)
  PROVE  Fading(samples, l)
<1>1. Len(samples) \in Nat
  OBVIOUS
<1> QED BY <1>1 DEF Fading

LEMMA UpdatedType ==
  ASSUME NEW b \in Hysts, NEW hit \in BOOLEAN
  PROVE  Updated(b, hit) \in Hysts
<1> DEFINE new == Push(b.samples, hit)
           n == Len(new)
           hits == Hits(new, 1, n)
           active == IF b.active THEN StaysActive(n, hits) ELSE TurnsActive(n, hits)
<1>1. b.samples \in Seq(BOOLEAN) /\ Len(b.samples) <= Length /\ b.active \in BOOLEAN
  BY DEF Hysts
<1>2. /\ new \in Seq(BOOLEAN) /\ n \in 1..4
      /\ n = IF Len(b.samples) = 4 THEN 4 ELSE Len(b.samples) + 1
  BY <1>1, PushSample
<1>3. active => n >= MinSamples
  <2>1. CASE b.active
    <3>1. Len(b.samples) \in Nat /\ Len(b.samples) >= 2
      BY <1>1, <2>1 DEF Hysts, MinSamples
    <3> HIDE DEF n, new
    <3> QED BY <1>2, <3>1 DEF MinSamples
  <2>2. CASE ~b.active
    BY <2>2 DEF TurnsActive
  <2> QED BY <2>1, <2>2
<1>4. active \in BOOLEAN /\ (active /\ OnlyOlderHits(new)) \in BOOLEAN
  BY DEF StaysActive, TurnsActive
<1>5. Updated(b, hit) = [samples |-> new, active |-> active,
                         leaving |-> active /\ OnlyOlderHits(new)]
  BY DEF Updated
<1> HIDE DEF active, n, new
<1>6. Updated(b, hit) \in [samples : Seq(BOOLEAN), active : BOOLEAN, leaving : BOOLEAN]
  BY <1>2, <1>4, <1>5
<1>7. Updated(b, hit).samples = new /\ Updated(b, hit).active = active
  BY <1>5
<1>8. Len(new) <= Length
  BY <1>2 DEF n, Length
<1> QED BY <1>3, <1>6, <1>7, <1>8 DEF Hysts, n

(* The samples fade by one with every miss, and after three misses in a row *)
(* the buffer is not active whatever it held before.                        *)
LEMMA UpdatedFades ==
  ASSUME NEW b \in Hysts, NEW k \in Nat, Fading(b.samples, k)
  PROVE  /\ Fading(Updated(b, FALSE).samples, k + 1)
         /\ k >= 2 => ~Updated(b, FALSE).active
<1> DEFINE new == Push(b.samples, FALSE)
           n == Len(new)
           l == Len(b.samples)
           H == {i \in 1..n : new[i]}
<1>1. b.samples \in Seq(BOOLEAN) /\ Len(b.samples) <= Length /\ b.active \in BOOLEAN
  BY DEF Hysts
<1>0. l \in Nat
  BY <1>1
<1>2. /\ new \in Seq(BOOLEAN) /\ n \in 1..4 /\ l \in Nat
      /\ n = IF l = 4 THEN 4 ELSE l + 1
  <2>1. /\ Push(b.samples, FALSE) \in Seq(BOOLEAN)
        /\ Len(Push(b.samples, FALSE)) = IF Len(b.samples) = 4 THEN 4 ELSE Len(b.samples) + 1
        /\ Len(Push(b.samples, FALSE)) \in 1..4
    BY <1>1, PushSample
  <2> QED BY <1>0, <2>1
<1>3. Fading(new, k + 1)
  BY <1>1, PushFades
<1>4. Updated(b, FALSE).samples = new
  BY DEF Updated
<1>5. ASSUME k >= 2
      PROVE  ~Updated(b, FALSE).active
  <2>1. \A i \in 1..n : n - i < k + 1 => ~new[i]
    BY <1>3 DEF Fading
  <2> HIDE DEF new, n, l
  <2>2. \A i \in H : i = 1 /\ n = 4
    BY <1>2, <1>5, <2>1
  <2>3. H \subseteq {1} /\ (n # 4 => H = {})
    BY <2>2
  <2>4. H = {} \/ H = {1}
    <3> HIDE DEF H
    <3> QED BY <2>3
  <2>5. Cardinality({1}) = 1 /\ Cardinality({}) = 0
    BY FS_Singleton, FS_EmptySet
  <2>6. Hits(new, 1, n) = Cardinality(H)
    BY DEF Hits
  <2>7. Hits(new, 1, n) = 0 \/ (Hits(new, 1, n) = 1 /\ n = 4)
    <3> HIDE DEF H
    <3> QED BY <2>3, <2>4, <2>5, <2>6
  <2> DEFINE hits == Hits(new, 1, n)
  <2>8. Updated(b, FALSE).active = IF b.active THEN StaysActive(n, hits) ELSE TurnsActive(n, hits)
    BY DEF Updated, n, new
  <2> HIDE DEF hits
  <2>9. b.active => n >= 2
    <3>1. b.active => l >= 2
      BY DEF Hysts, MinSamples, l
    <3> QED BY <1>2, <3>1
  <2>10. hits = 0 \/ (hits = 1 /\ n = 4)
    BY <2>7 DEF hits
  <2>11. ~(~(n >= 2 /\ 4 * hits <= n) /\ n >= 2) /\ ~(n >= 2 /\ 2 * hits >= n)
    BY ONLY <1>2, <2>10
  <2>12. CASE b.active
    BY <2>8, <2>9, <2>11, <2>12 DEF StaysActive, MinSamples
  <2>13. CASE ~b.active
    BY <2>8, <2>11, <2>13 DEF TurnsActive, MinSamples
  <2> QED BY <2>12, <2>13
<1> QED BY <1>3, <1>4, <1>5

---------------------------------------------------------------------------
(* Pipelines: what preparing a frame does to each field. *)

Pipes == [last : Scenes, pending : Scenes, streak : 0..2,
          rois : RecordScenes \cup {Unknown}, hyst : Hysts,
          song : Songs \cup {NoSong}]

LEMMA SceneKinds ==
  /\ Unknown \in Scenes /\ Unknown \notin RecordScenes
  /\ ~IsResult(Unknown) /\ ~IsIngame(Unknown) /\ ~NeedsTwo(Unknown)
  /\ \A s \in SelectScenes : s \notin ResultScenes /\ ~NeedsTwo(s) /\ s \in RecordScenes
  /\ \A s \in IngameScenes : s \notin RecordScenes
BY SceneAssumption DEF Scenes, RecordScenes, IsResult, IsIngame, NeedsTwo

LEMMA CommittedKind ==
  ASSUME NEW p \in Pipes, NEW s \in Scenes
  PROVE  /\ CommittedScene(p, s) \in Scenes
         /\ CommittedScene(p, s) \in {s, Unknown, p.last}
         /\ s \in SelectScenes => CommittedScene(p, s) = s
         /\ s \notin RecordScenes => CommittedScene(p, s) \in {s, Unknown}
         /\ s \in ResultScenes /\ s # p.pending => CommittedScene(p, s) \in {Unknown, p.last}
<1>1. p.last \in Scenes /\ p.pending \in Scenes /\ Unknown \in Scenes
  BY SceneKinds DEF Pipes
<1>2. s \in SelectScenes => CommittedScene(p, s) = s
  BY SceneKinds DEF CommittedScene
<1>3. s \notin RecordScenes => CommittedScene(p, s) \in {s, Unknown}
  BY DEF CommittedScene, NeedsTwo, IsResult, IsIngame, RecordScenes
<1>4. s \in ResultScenes /\ s # p.pending => CommittedScene(p, s) \in {Unknown, p.last}
  BY DEF CommittedScene, NeedsTwo, IsResult, Streak
<1>5. CommittedScene(p, s) \in {s, Unknown, p.last}
  BY DEF CommittedScene
<1> QED BY <1>1, <1>2, <1>3, <1>4, <1>5, SceneKinds

LEMMA CommitFields ==
  ASSUME NEW p \in Pipes, NEW s \in Scenes
  PROVE  /\ Commit(p, s) \in Pipes
         /\ Commit(p, s).last = CommittedScene(p, s)
         /\ Commit(p, s).pending = (IF NeedsTwo(s) THEN s ELSE Unknown)
         /\ Commit(p, s).hyst = (IF IsIngame(s) THEN EmptyBuffer ELSE p.hyst)
         /\ Commit(p, s).rois = p.rois /\ Commit(p, s).song = p.song
<1> DEFINE c == CommittedScene(p, s)
           pending == IF NeedsTwo(s) THEN s ELSE Unknown
           h == IF IsIngame(s) THEN EmptyBuffer ELSE p.hyst
           k == Streak(p, s)
<1>1. c \in Scenes /\ pending \in Scenes
  BY CommittedKind, SceneKinds
<1>2. h \in Hysts
  BY EmptyFades DEF Pipes
<1>3. k \in 0..2
  BY DEF Streak
<1>4. Commit(p, s) = [p EXCEPT !.last = c, !.pending = pending, !.streak = k, !.hyst = h]
  BY DEF Commit
<1> HIDE DEF c, pending, h, k
<1>5. /\ Commit(p, s) \in Pipes /\ Commit(p, s).last = c /\ Commit(p, s).pending = pending
      /\ Commit(p, s).hyst = h /\ Commit(p, s).rois = p.rois /\ Commit(p, s).song = p.song
  BY <1>1, <1>2, <1>3, <1>4 DEF Pipes
<1> QED BY <1>5 DEF c, pending, h

(* An unsupported frame takes back what only such frames cannot support. *)
LEMMA SupportedFields ==
  ASSUME NEW p \in Pipes, NEW format
  PROVE  /\ Supported(p, format) \in Pipes
         /\ Supported(p, format).last \in {p.last, Unknown}
         /\ Supported(p, format).pending \in {p.pending, Unknown}
         /\ Supported(p, format).hyst = p.hyst
         /\ Supported(p, format).rois = p.rois
         /\ Supported(p, format).song = p.song
<1>1. CASE format = "unsupported"
  <2>1. CommittedScene(p, Unknown) = Unknown
    BY SceneKinds DEF CommittedScene
  <2>2. Supported(p, format) = Commit(p, Unknown)
    BY <1>1 DEF Supported
  <2> QED BY <2>1, <2>2, SceneKinds, CommitFields
<1>2. CASE format # "unsupported"
  BY <1>2 DEF Supported
<1> QED BY <1>1, <1>2

(* An inspection that reads s. *)
LEMMA InspectedFields ==
  ASSUME NEW p \in Pipes, NEW s \in Scenes,
         s \in RecordScenes => game.pattern[1] \in Songs
  PROVE  LET q == WithScene(Inspected(p, s))
             c == CommittedScene(p, s)
         IN  /\ q \in Pipes
             /\ q.last = c
             /\ q.pending = (IF NeedsTwo(s) THEN s ELSE Unknown)
             /\ q.rois = (IF c \in RecordScenes THEN c
                          ELSE IF s \in RecordScenes THEN s ELSE p.rois)
             /\ q.song = (IF s \in RecordScenes THEN game.pattern[1] ELSE p.song)
             /\ q.hyst = Updated(IF IsIngame(s) THEN EmptyBuffer ELSE p.hyst,
                                 c \in RecordScenes)
<1> DEFINE a == IF s \in RecordScenes
                  THEN [p EXCEPT !.rois = s, !.song = game.pattern[1]] ELSE p
           b == Commit(a, s)
           c == CommittedScene(p, s)
           hit == b.last \in RecordScenes
           r == IF hit THEN b.last ELSE b.rois
           h == Updated(b.hyst, hit)
           song == game.pattern[1]
<1>1. /\ a \in Pipes
      /\ a.last = p.last /\ a.pending = p.pending /\ a.hyst = p.hyst
      /\ a.rois = (IF s \in RecordScenes THEN s ELSE p.rois)
      /\ a.song = (IF s \in RecordScenes THEN game.pattern[1] ELSE p.song)
  <2>1. CASE s \in RecordScenes
    <3>1. song \in Songs
      BY <2>1
    <3>2. a = [p EXCEPT !.rois = s, !.song = song]
      BY <2>1
    <3> HIDE DEF a, song
    <3>3. /\ a \in Pipes
          /\ a.last = p.last /\ a.pending = p.pending /\ a.hyst = p.hyst
          /\ a.rois = s /\ a.song = song
      BY <2>1, <3>1, <3>2 DEF Pipes
    <3> QED BY <2>1, <3>3 DEF song
  <2>2. CASE s \notin RecordScenes
    BY <2>2
  <2> QED BY <2>1, <2>2
<1> HIDE DEF a
<1>2. CommittedScene(a, s) = c
  BY <1>1 DEF CommittedScene, Streak
<1>3. /\ b \in Pipes /\ b.last = c /\ b.pending = (IF NeedsTwo(s) THEN s ELSE Unknown)
      /\ b.hyst = (IF IsIngame(s) THEN EmptyBuffer ELSE a.hyst)
      /\ b.rois = a.rois /\ b.song = a.song
  BY <1>1, <1>2, CommitFields
<1>4. Inspected(p, s) = b
  BY DEF Inspected, a
<1>5. WithScene(b) = [b EXCEPT !.rois = r, !.hyst = h]
  BY DEF WithScene
<1> HIDE DEF b, c
<1>6. r \in RecordScenes \cup {Unknown}
  BY <1>3 DEF Pipes
<1>7. h \in Hysts
  <2>1. b.hyst \in Hysts /\ hit \in BOOLEAN
    BY <1>3 DEF Pipes
  <2> HIDE DEF hit
  <2> QED BY <2>1, UpdatedType
<1>8. h = Updated(IF IsIngame(s) THEN EmptyBuffer ELSE p.hyst, c \in RecordScenes)
  BY <1>1, <1>3
<1>9. r = (IF c \in RecordScenes THEN c ELSE IF s \in RecordScenes THEN s ELSE p.rois)
  BY <1>1, <1>3
<1> HIDE DEF r, h, hit
<1>10. /\ WithScene(b) \in Pipes /\ WithScene(b).last = b.last
       /\ WithScene(b).pending = b.pending /\ WithScene(b).rois = r
       /\ WithScene(b).song = b.song /\ WithScene(b).hyst = h
  BY <1>3, <1>5, <1>6, <1>7 DEF Pipes
<1> QED BY <1>1, <1>3, <1>4, <1>8, <1>9, <1>10 DEF c

---------------------------------------------------------------------------
(* The play-state detector: what observing a frame does to each field. *)

Contexts == Context \cup {NoContext}

Dets == {d \in [history : Seq(Contexts), latch : Charts \cup {NoChart},
                key : Songs \X Charts \cup {NoKey}, rate : Rates \cup {NoRate},
                window : Seq(Rates), emitted : Event \cup {NoEvent},
                wasResult : BOOLEAN] :
           Len(d.history) <= HistorySize /\ Len(d.window) <= WindowSize}

Blank(d) == d.rate = NoRate /\ d.window = <<>>

(* Everything the detector knows of rates comes from W. *)
Within(d, W) == /\ \A i \in 1..Len(d.window) : d.window[i] \in W
                /\ d.rate \in W \cup {NoRate}

LEMMA EmptyQueues ==
  /\ <<>> \in Seq(Contexts) /\ <<>> \in Seq(Rates) /\ Len(<<>>) = 0
  /\ Len(<<>>) <= HistorySize /\ Len(<<>>) <= WindowSize
BY EmptySeq, SizeAssumption

LEMMA BlankWithin ==
  ASSUME NEW d, NEW W, Blank(d)
  PROVE  Within(d, W)
BY EmptyQueues DEF Blank, Within

LEMMA WithinMore ==
  ASSUME NEW d, NEW V, NEW W, V \subseteq W, Within(d, V)
  PROVE  Within(d, W)
BY DEF Within

LEMMA FreshFacts ==
  ASSUME NEW b \in BOOLEAN
  PROVE  /\ [FreshDetector EXCEPT !.wasResult = b] \in Dets
         /\ Blank([FreshDetector EXCEPT !.wasResult = b])
         /\ FreshDetector \in Dets /\ Blank(FreshDetector)
BY EmptyQueues DEF FreshDetector, Dets, Blank

LEMMA ResetFacts ==
  ASSUME NEW d \in Dets
  PROVE  ResetDetector(d) \in Dets /\ Blank(ResetDetector(d))
<1>1. d.latch \in Charts \cup {NoChart} /\ d.wasResult \in BOOLEAN
  BY DEF Dets
<1> QED BY <1>1, EmptyQueues DEF ResetDetector, FreshDetector, Dets, Blank

LEMMA EnteredFacts ==
  ASSUME NEW d \in Dets, NEW scene
  PROVE  /\ Entered(d, scene) \in Dets
         /\ IsResult(scene) => Entered(d, scene).window = d.window /\ Entered(d, scene).rate = d.rate
<1> DEFINE a == IF d.wasResult /\ ~IsResult(scene) THEN ClearDetectedCache(d) ELSE d
           b == IsResult(scene)
<1>1. a \in Dets
  BY EmptyQueues DEF ClearDetectedCache, Dets
<1>2. IsResult(scene) => a = d
  OBVIOUS
<1>3. b \in BOOLEAN
  BY DEF IsResult
<1>4. Entered(d, scene) = [a EXCEPT !.wasResult = b]
  BY DEF Entered
<1> HIDE DEF a, b
<1> QED BY <1>1, <1>2, <1>3, <1>4 DEF Dets

LEMMA LatchedFacts ==
  ASSUME NEW d \in Dets, NEW scene, NEW chart \in Charts \cup {NoChart}
  PROVE  /\ Latched(d, scene, chart) \in Dets
         /\ Latched(d, scene, chart).window = d.window
         /\ Latched(d, scene, chart).rate = d.rate
BY DEF Latched, Dets

(* A result reading moves the window by one reading and takes its median. *)
LEMMA ResultRateFacts ==
  ASSUME NEW d \in Dets, NEW r \in Rates \cup {NoRate}
  PROVE  /\ ResultRate(d, r) \in Dets
         /\ \A W : r \in W \cup {NoRate} /\ Within(d, W) => Within(ResultRate(d, r), W)
<1>1. CASE r = NoRate
  BY <1>1 DEF ResultRate
<1>2. CASE r # NoRate
  <2> DEFINE w == PushLast(d.window, r, WindowSize)
             m == Median(w)
  <2>1. d.window \in Seq(Rates) /\ Len(d.window) <= WindowSize /\ r \in Rates
    BY <1>2 DEF Dets
  <2>2. Pushed(w, Rates, d.window, r, WindowSize)
    BY <2>1, PushLastFacts, SizeAssumption
  <2>3. Len(d.window) \in Nat /\ WindowSize \in Nat
    BY <2>1, SizeAssumption
  <2> HIDE DEF w
  <2>4. w \in Seq(Rates) /\ Len(w) > 0 /\ Len(w) <= WindowSize
    BY <2>2, <2>3 DEF Pushed
  <2>5. m \in Rates /\ \E i \in 1..Len(w) : m = w[i]
    BY <2>4, MedianRead
  <2>6. ResultRate(d, r) = [d EXCEPT !.window = w, !.rate = m]
    BY <1>2 DEF ResultRate, w
  <2> HIDE DEF m
  <2>7. /\ ResultRate(d, r) \in Dets /\ ResultRate(d, r).window = w /\ ResultRate(d, r).rate = m
    BY <2>4, <2>5, <2>6 DEF Dets
  <2>8. ASSUME NEW W, r \in W, Within(d, W)
        PROVE  Within(ResultRate(d, r), W)
    <3>1. \A i \in 1..Len(d.window) : d.window[i] \in W
      BY <2>8 DEF Within
    <3>2. ASSUME NEW i \in 1..Len(w)
          PROVE  w[i] \in W
      <4>1. CASE i = Len(w)
        BY <2>2, <2>8, <4>1 DEF Pushed
      <4>2. CASE i # Len(w)
        <5> DEFINE l == Len(d.window)
                   n == Len(w)
                   j == i + l + 1 - n
        <5>1. w[i] = d.window[j]
          BY <2>2, <4>2 DEF Pushed
        <5>2. n = (IF l = WindowSize THEN WindowSize ELSE l + 1) /\ n \in 1..WindowSize
          BY <2>2 DEF Pushed
        <5>3. l \in Nat /\ WindowSize \in Nat /\ l <= WindowSize /\ i \in 1..n /\ i # n
          BY <2>1, <2>3, <4>2
        <5> HIDE DEF l, n
        <5>4. j \in 1..l
          BY ONLY <5>2, <5>3
        <5> QED BY <3>1, <5>1, <5>4 DEF l
      <4> QED BY <4>1, <4>2
    <3> QED BY <2>5, <2>7, <3>2 DEF Within
  <2>9. \A W : r \in W \cup {NoRate} => r \in W
    BY <1>2
  <2> QED BY <2>7, <2>8, <2>9
<1> QED BY <1>1, <1>2

LEMMA SelectRateType ==
  ASSUME NEW d \in Dets, NEW r \in Rates \cup {NoRate}, NEW pattern \in Songs \X Charts
  PROVE  SelectRate(d, pattern, r) \in Dets
<1> DEFINE rate == IF r # NoRate THEN r ELSE IF d.key = pattern THEN d.rate ELSE NoRate
<1>1. rate \in Rates \cup {NoRate}
  BY DEF Dets
<1>2. SelectRate(d, pattern, r) = [d EXCEPT !.window = <<>>, !.key = pattern, !.rate = rate]
  BY DEF SelectRate
<1> HIDE DEF rate
<1> QED BY <1>1, <1>2, EmptyQueues DEF Dets

LEMMA RateReadFacts ==
  ASSUME NEW d \in Dets, NEW scene, NEW song \in Songs \cup {NoSong},
         NEW chart \in Charts \cup {NoChart}, NEW r \in Rates \cup {NoRate}
  PROVE  LET e == RateRead(d, scene, song, chart, r)
         IN  /\ e \in Dets
             /\ IsResult(scene) =>
                  \A W : r \in W \cup {NoRate} /\ Within(d, W) => Within(e, W)
<1>1. CASE ~Known(d, scene, song, chart)
  BY <1>1 DEF RateRead
<1>2. CASE Known(d, scene, song, chart) /\ IsResult(scene)
  BY <1>2, ResultRateFacts DEF RateRead
<1>3. CASE Known(d, scene, song, chart) /\ ~IsResult(scene)
  <2>1. song \in Songs /\ chart \in Charts
    BY <1>3 DEF Known, ChartOf
  <2>2. <<song, chart>> \in Songs \X Charts
    BY <2>1
  <2>3. RateRead(d, scene, song, chart, r) = SelectRate(d, <<song, chart>>, r)
    BY <1>3 DEF RateRead
  <2> QED BY <1>3, <2>2, <2>3, SelectRateType
<1> QED BY <1>1, <1>2, <1>3

LEMMA ContextFacts ==
  ASSUME NEW d \in Dets, NEW scene, NEW song \in Songs \cup {NoSong},
         NEW chart \in Charts \cup {NoChart}
  PROVE  LET c == ContextOf(d, scene, song, chart)
         IN  /\ c \in Contexts
             /\ c # NoContext =>
                  /\ c \in Context /\ song # NoSong /\ c.song = song
                  /\ c.rate = (IF d.rate = NoRate THEN 0 ELSE d.rate)
<1> DEFINE played == ChartOf(d, scene, chart)
           rate == IF d.rate = NoRate THEN 0 ELSE d.rate
<1>1. CASE ~Known(d, scene, song, chart)
  BY <1>1 DEF ContextOf, Contexts
<1>2. CASE Known(d, scene, song, chart)
  <2>1. song \in Songs /\ song # NoSong /\ played \in Charts
    BY <1>2 DEF Known, ChartOf, Dets
  <2>2. rate \in Rates
    BY RateAssumption DEF Dets
  <2>3. ContextOf(d, scene, song, chart) = [song |-> song, chart |-> played, rate |-> rate]
    BY <1>2 DEF ContextOf
  <2> HIDE DEF played, rate
  <2>4. /\ ContextOf(d, scene, song, chart) \in Context
        /\ ContextOf(d, scene, song, chart).song = song
        /\ ContextOf(d, scene, song, chart).rate = rate
    BY <2>1, <2>2, <2>3 DEF Context
  <2> QED BY <2>1, <2>4 DEF Contexts, rate
<1> QED BY <1>1, <1>2

(* What e knows after a frame was observed with d: the newest entry of the  *)
(* history is the frame's context, and on a result screen nothing but this  *)
(* frame's rate joins the window.                                           *)
Observes(e, d, scene, song, r) ==
  /\ e \in Dets
  /\ Len(e.history) \in 1..HistorySize
  /\ e.history[Len(e.history)] \in Contexts
  /\ e.history[Len(e.history)] # NoContext =>
       /\ song # NoSong /\ e.history[Len(e.history)].song = song
       /\ e.history[Len(e.history)].rate = (IF e.rate = NoRate THEN 0 ELSE e.rate)
  /\ IsResult(scene) =>
       \A W : r \in W \cup {NoRate} /\ Within(d, W) => Within(e, W)

LEMMA ObservedFacts ==
  ASSUME NEW d \in Dets, NEW scene, NEW song \in Songs \cup {NoSong},
         NEW chart \in Charts \cup {NoChart}, NEW r \in Rates \cup {NoRate}
  PROVE  Observes(Observed(d, scene, song, chart, r), d, scene, song, r)
<1> DEFINE a == Latched(Entered(d, scene), scene, chart)
           b == RateRead(a, scene, song, chart, r)
           c == ContextOf(b, scene, song, chart)
           h == PushLast(b.history, c, HistorySize)
           e == Observed(d, scene, song, chart, r)
<1>1. /\ a \in Dets
      /\ IsResult(scene) => a.window = d.window /\ a.rate = d.rate
  BY EnteredFacts, LatchedFacts
<1>2. IsResult(scene) => \A W : Within(d, W) => Within(a, W)
  BY <1>1 DEF Within
<1> HIDE DEF a
<1>3. /\ b \in Dets
      /\ IsResult(scene) => \A W : r \in W \cup {NoRate} /\ Within(a, W) => Within(b, W)
  BY <1>1, RateReadFacts
<1> HIDE DEF b
<1>4. /\ c \in Contexts
      /\ c # NoContext => /\ song # NoSong /\ c.song = song
                          /\ c.rate = (IF b.rate = NoRate THEN 0 ELSE b.rate)
  BY <1>3, ContextFacts
<1> HIDE DEF c
<1>5. b.history \in Seq(Contexts) /\ Len(b.history) <= HistorySize
  BY <1>3 DEF Dets
<1>6. Pushed(h, Contexts, b.history, c, HistorySize)
  BY <1>4, <1>5, PushLastFacts, SizeAssumption
<1>7. HistorySize \in Nat
  BY SizeAssumption
<1>8. e = [b EXCEPT !.history = h]
  BY DEF Observed, a, b, c
<1> HIDE DEF h, e
<1>9. h \in Seq(Contexts) /\ Len(h) \in 1..HistorySize /\ h[Len(h)] = c
  BY <1>6 DEF Pushed
<1>10. Len(h) <= HistorySize
  BY <1>7, <1>9
<1>11. e \in Dets /\ e.history = h /\ e.window = b.window /\ e.rate = b.rate
  BY <1>3, <1>8, <1>9, <1>10 DEF Dets
<1>12. IsResult(scene) => \A W : r \in W \cup {NoRate} /\ Within(d, W) => Within(e, W)
  BY <1>2, <1>3, <1>11 DEF Within
<1> QED BY <1>4, <1>9, <1>11, <1>12 DEF e, Observes

(* A verified play is the context the last frames agreed on. *)
LEMMA EventFacts ==
  ASSUME NEW d \in Dets, NEW scene, EventOf(d, scene) # NoEvent
  PROVE  LET e == EventOf(d, scene)
             c == d.history[Len(d.history)]
         IN  /\ e \in Event
             /\ c # NoContext /\ e.song = c.song /\ e.rate = c.rate
             /\ e.isResult = IsResult(scene)
             /\ e.isResult => e.rate > 0
<1> DEFINE c == d.history[1]
           e == Verified(c, scene)
<1>1. Stable(d) /\ ShouldFire(d.emitted, e) /\ EventOf(d, scene) = e
  BY DEF EventOf
<1>2. Len(d.history) = HistorySize /\ HistorySize \in Nat \ {0} /\ d.history \in Seq(Contexts)
  BY <1>1, SizeAssumption DEF Stable, Dets
<1>3. d.history[Len(d.history)] = c /\ c # NoContext
  BY <1>1, <1>2 DEF Stable
<1>4. c \in Context
  <2>1. 1 \in 1..Len(d.history)
    BY <1>2
  <2>2. c \in Contexts
    BY <1>2, <2>1, ElementOfSeq
  <2> QED BY <1>3, <2>2 DEF Contexts
<1>5. IsResult(scene) \in BOOLEAN
  BY DEF IsResult
<1> HIDE DEF c
<1>6. e \in Event /\ e.song = c.song /\ e.rate = c.rate /\ e.isResult = IsResult(scene)
  BY <1>4, <1>5 DEF Verified, Event, Context
<1>7. e.isResult => e.rate > 0
  BY <1>1 DEF ShouldFire
<1> QED BY <1>1, <1>3, <1>6, <1>7

---------------------------------------------------------------------------
(* Processing a prepared frame. *)

Games == {g \in [screen : Screen, pattern : Patterns \cup {NoKey}, inspections : 0..MinPlay] :
            g.screen # "other" => g.pattern \in Patterns}
Outputs == [scene : Scenes, context : Contexts, event : Event \cup {NoEvent}]
Results == [pattern : Patterns \cup {NoKey}, rates : SUBSET Rates]

ReadRates(res) == res.rates \cup {0}

LEMMA PatternSong ==
  ASSUME NEW g \in Games, g.screen # "other"
  PROVE  g.pattern[1] \in Songs /\ g.pattern[2] \in Charts
BY PatternAssumption DEF Games

LEMMA DetectingFacts ==
  ASSUME NEW scene \in Scenes
  PROVE  /\ Detecting(scene) \in Outputs
         /\ Detecting(scene).context = NoContext /\ Detecting(scene).event = NoEvent
BY DEF Detecting, Outputs, Contexts

LEMMA SongSet ==
  ASSUME NEW p \in Pipes, NEW song \in Songs \cup {NoSong}
  PROVE  LET q == [p EXCEPT !.song = song]
         IN  /\ q \in Pipes /\ q.song = song
             /\ q.last = p.last /\ q.pending = p.pending
             /\ q.rois = p.rois /\ q.hyst = p.hyst
BY DEF Pipes

(* What a frame that is prepared as p leaves behind. *)
Processed(p) ==
  /\ pipe' \in Pipes
  /\ pipe'.last = p.last /\ pipe'.pending = p.pending
  /\ pipe'.rois = p.rois /\ pipe'.hyst = p.hyst
  /\ det' \in Dets /\ out' \in Outputs /\ result' \in Results
  /\ result'.pattern = result.pattern /\ result.rates \subseteq result'.rates

(* No screen: everything that was detected is forgotten. *)
Forgotten == /\ pipe'.song = NoSong /\ Blank(det')
             /\ out'.context = NoContext /\ out'.event = NoEvent

(* The song is the one before, none, or that of the game. *)
SongFollows(p) ==
  \/ pipe'.song \in {p.song, NoSong}
  \/ RoisFit(p) /\ pipe'.song = game.pattern[1]

(* On a result screen the rates known are rates read. *)
RatesFollow(p) ==
  IsResult(p.rois) /\ Within(det, ReadRates(result)) => Within(det', ReadRates(result'))

(* An event of a result screen is made of what the detector now knows. *)
EventFollows(p) ==
  out'.event # NoEvent =>
    /\ Selecting(p)
    /\ out'.event.isResult =>
         /\ IsResult(p.rois)
         /\ pipe'.song # NoSong /\ out'.event.song = pipe'.song
         /\ out'.event.rate = (IF det'.rate = NoRate THEN 0 ELSE det'.rate)
         /\ out'.event.rate > 0

LEMMA LeaveFacts ==
  ASSUME NEW p \in Pipes, det \in Dets, result \in Results, LeaveScreen(p)
  PROVE  Processed(p) /\ Forgotten /\ SongFollows(p) /\ RatesFollow(p) /\ EventFollows(p)
<1>1. /\ pipe' = [p EXCEPT !.song = NoSong] /\ det' = ResetDetector(det)
      /\ out' = Detecting(IF IsIngame(p.last) THEN p.last ELSE Unknown)
      /\ result' = result
  BY DEF LeaveScreen
<1>2. /\ pipe' \in Pipes /\ pipe'.song = NoSong
      /\ pipe'.last = p.last /\ pipe'.pending = p.pending
      /\ pipe'.rois = p.rois /\ pipe'.hyst = p.hyst
  BY <1>1, SongSet
<1>3. det' \in Dets /\ Blank(det')
  BY <1>1, ResetFacts
<1>4. out' \in Outputs /\ out'.context = NoContext /\ out'.event = NoEvent
  <2>1. (IF IsIngame(p.last) THEN p.last ELSE Unknown) \in Scenes
    BY SceneKinds DEF Pipes
  <2> QED BY <1>1, <2>1, DetectingFacts
<1>5. Within(det', ReadRates(result'))
  BY <1>3, BlankWithin
<1> QED BY <1>1, <1>2, <1>3, <1>4, <1>5
        DEF Processed, Forgotten, SongFollows, RatesFollow, EventFollows

LEMMA HoldFacts ==
  ASSUME NEW p \in Pipes, det \in Dets, result \in Results, HoldWhileLeaving(p)
  PROVE  Selecting(p) /\ Processed(p) /\ SongFollows(p) /\ RatesFollow(p) /\ EventFollows(p)
<1>1. Selecting(p) /\ pipe' = p /\ out' = Detecting(Unknown) /\ det' = det /\ result' = result
  BY DEF HoldWhileLeaving
<1>2. out' \in Outputs /\ out'.event = NoEvent
  BY <1>1, DetectingFacts, SceneKinds
<1> QED BY <1>1, <1>2 DEF Processed, SongFollows, RatesFollow, EventFollows

LEMMA ReadFacts ==
  ASSUME NEW p \in Pipes, det \in Dets, result \in Results, game \in Games,
         NEW song \in SongReads(p), NEW chart \in ChartReads(p),
         NEW r \in RateReads(p, song, chart), ReadScreen(p, song, chart, r)
  PROVE  Selecting(p) /\ Processed(p) /\ SongFollows(p) /\ RatesFollow(p) /\ EventFollows(p)
<1> DEFINE d == Observed(det, p.rois, song, chart, r)
           e == EventOf(d, p.rois)
           n == Len(d.history)
           context == IF Stable(d) THEN d.history[1] ELSE d.history[n]
<1>1. song \in Songs \cup {NoSong} /\ chart \in Charts \cup {NoChart}
  BY PatternSong DEF SongReads, ChartReads, RoisFit, Pipes
<1>2. r \in Rates \cup {NoRate}
  BY DEF RateReads
<1>3. /\ Selecting(p)
      /\ pipe' = [p EXCEPT !.song = song] /\ det' = Emitted(d, e)
      /\ out' = [scene |-> p.rois, event |-> e, context |-> context]
  BY DEF ReadScreen
<1>4. result' = IF game.screen = "result" /\ IsResult(p.rois) /\ r \notin {NoRate, 0}
                  THEN [result EXCEPT !.rates = @ \cup {r}] ELSE result
  BY DEF ReadScreen
<1>5. /\ d \in Dets /\ n \in 1..HistorySize
      /\ d.history[n] \in Contexts
      /\ d.history[n] # NoContext =>
           /\ song # NoSong /\ d.history[n].song = song
           /\ d.history[n].rate = (IF d.rate = NoRate THEN 0 ELSE d.rate)
      /\ IsResult(p.rois) =>
           \A W : r \in W \cup {NoRate} /\ Within(det, W) => Within(d, W)
  <2>1. Observes(d, det, p.rois, song, r)
    BY <1>1, <1>2, ObservedFacts
  <2> QED BY <2>1 DEF Observes
<1>6. e # NoEvent => /\ e \in Event
                     /\ d.history[n] # NoContext
                     /\ e.song = d.history[n].song /\ e.rate = d.history[n].rate
                     /\ e.isResult = IsResult(p.rois) /\ (e.isResult => e.rate > 0)
  BY <1>5, EventFacts
<1>7. context \in Contexts
  <2>1. 1 \in 1..Len(d.history) /\ d.history \in Seq(Contexts)
    BY <1>5, SizeAssumption DEF Dets
  <2>2. d.history[1] \in Contexts
    BY <2>1, ElementOfSeq
  <2> QED BY <1>5, <2>2
<1> HIDE DEF d, e, n, context
<1>8. det' \in Dets /\ det'.window = d.window /\ det'.rate = d.rate
  BY <1>3, <1>5, <1>6 DEF Emitted, Dets
<1>9. out' \in Outputs /\ out'.event = e
  <2>1. p.rois \in Scenes
    BY DEF Pipes, Scenes
  <2> QED BY <1>3, <1>6, <1>7, <2>1 DEF Outputs
<1>10. /\ pipe' \in Pipes /\ pipe'.song = song
       /\ pipe'.last = p.last /\ pipe'.pending = p.pending
       /\ pipe'.rois = p.rois /\ pipe'.hyst = p.hyst
  BY <1>1, <1>3, SongSet
<1>11. result' \in Results /\ result'.pattern = result.pattern /\ result.rates \subseteq result'.rates
  <2>1. CASE game.screen = "result" /\ IsResult(p.rois) /\ r \notin {NoRate, 0}
    <3>1. result.rates \cup {r} \in SUBSET Rates
      BY <1>2, <2>1 DEF Results
    <3>2. result' = [result EXCEPT !.rates = result.rates \cup {r}]
      BY <1>4, <2>1
    <3> QED BY <3>1, <3>2 DEF Results
  <2>2. CASE ~(game.screen = "result" /\ IsResult(p.rois) /\ r \notin {NoRate, 0})
    BY <1>4, <2>2
  <2> QED BY <2>1, <2>2
<1>12. Processed(p)
  BY <1>8, <1>9, <1>10, <1>11 DEF Processed
<1>13. SongFollows(p)
  BY <1>10 DEF SongFollows, SongReads
<1>14. RatesFollow(p)
  <2> SUFFICES ASSUME IsResult(p.rois), Within(det, ReadRates(result))
               PROVE  Within(det', ReadRates(result'))
    BY DEF RatesFollow
  <2>1. r \in ReadRates(result') \cup {NoRate}
    <3>1. CASE r \in {NoRate, 0}
      BY <3>1 DEF ReadRates
    <3>2. CASE r \notin {NoRate, 0}
      <4>1. RoisFit(p)
        BY <3>2 DEF RateReads
      <4>2. game.screen = "result"
        BY <4>1, SceneKinds DEF RoisFit, IsResult
      <4>3. result' = [result EXCEPT !.rates = result.rates \cup {r}]
        BY <1>4, <3>2, <4>2
      <4>4. result'.rates = result.rates \cup {r}
        BY <4>3 DEF Results
      <4> QED BY <4>4 DEF ReadRates
    <3> QED BY <3>1, <3>2
  <2>2. ReadRates(result) \subseteq ReadRates(result')
    BY <1>11 DEF ReadRates
  <2>3. Within(det, ReadRates(result'))
    BY <2>2, WithinMore
  <2>4. Within(d, ReadRates(result'))
    BY <1>5, <2>1, <2>3
  <2> QED BY <1>8, <2>4 DEF Within
<1>15. EventFollows(p)
  BY <1>3, <1>5, <1>6, <1>8, <1>9, <1>10 DEF EventFollows
<1> QED BY <1>3, <1>12, <1>13, <1>14, <1>15

LEMMA ProcessFacts ==
  ASSUME NEW p \in Pipes, det \in Dets, result \in Results, game \in Games, ProcessShared(p)
  PROVE  /\ Processed(p) /\ SongFollows(p) /\ RatesFollow(p) /\ EventFollows(p)
         /\ ~Selecting(p) => Forgotten
BY LeaveFacts, HoldFacts, ReadFacts DEF ProcessShared

---------------------------------------------------------------------------
(* The steps of the specification. *)

TypedState ==
  /\ game \in Games /\ pipe \in Pipes /\ det \in Dets /\ out \in Outputs
  /\ seen \in Scenes /\ reopened \in BOOLEAN /\ confirmed \in BOOLEAN
  /\ result \in Results

(* A result screen that waits for its second reading is the one read last.  *)
PendingSeen == pipe.pending \in ResultScenes => pipe.pending = seen

(* Since a reading of gameplay nothing has hit the hysteresis buffer.       *)
Silenced ==
  ~reopened => /\ ~pipe.hyst.active /\ Fading(pipe.hyst.samples, 4)
               /\ pipe.last \notin RecordScenes

Sound == TypedState /\ RoisFollowScene /\ SilentAfterIngame /\ PendingSeen /\ Silenced

(* A scene is read on the screen it belongs to only. *)
LEMMA ReadsKind ==
  ASSUME game \in Games, NEW format, NEW s \in Reads(format)
  PROVE  /\ s \in Scenes
         /\ s \in SelectScenes => game.screen = "select"
         /\ s \in ResultScenes => game.screen = "result"
         /\ s \in IngameScenes => game.screen = "play"
<1>1. game.screen \in {"select", "play", "result", "other"}
  BY DEF Games, Screen
<1>2. CASE game.screen = "select"
  <2>1. Reads(format) = SelectScenes \cup {Unknown}
    BY <1>2 DEF Reads
  <2> QED BY <1>2, <2>1, SceneAssumption DEF Scenes, RecordScenes
<1>3. CASE game.screen = "result"
  <2>1. Reads(format) = ResultScenes \cup {Unknown}
    BY <1>3 DEF Reads
  <2> QED BY <1>3, <2>1, SceneAssumption DEF Scenes, RecordScenes
<1>4. CASE game.screen = "play"
  <2>1. Reads(format) \subseteq IngameScenes \cup {Unknown}
    BY <1>4 DEF Reads
  <2> QED BY <1>4, <2>1, SceneAssumption DEF Scenes, RecordScenes
<1>5. CASE game.screen = "other"
  <2>1. Reads(format) = {Unknown}
    BY <1>5 DEF Reads
  <2> QED BY <2>1, SceneAssumption DEF Scenes, RecordScenes
<1> QED BY <1>1, <1>2, <1>3, <1>4, <1>5

(* p is the pipeline prepared for a frame without an inspection. *)
Kept(p) ==
  /\ p \in Pipes
  /\ p.last \in {pipe.last, Unknown} /\ p.pending \in {pipe.pending, Unknown}
  /\ p.hyst = pipe.hyst /\ p.rois = pipe.rois /\ p.song = pipe.song

(* p is the pipeline prepared for a frame inspected as s. *)
Prepared(p, s) ==
  /\ p \in Pipes
  /\ p.last \in {s, Unknown, pipe.last}
  /\ s \in SelectScenes => p.last = s
  /\ s \notin RecordScenes => p.last \in {s, Unknown}
  /\ s \in ResultScenes /\ s # seen => p.last \in {Unknown, pipe.last}
  /\ p.pending = (IF NeedsTwo(s) THEN s ELSE Unknown)
  /\ p.rois = (IF p.last \in RecordScenes THEN p.last
               ELSE IF s \in RecordScenes THEN s ELSE pipe.rois)
  /\ p.song = (IF s \in RecordScenes THEN game.pattern[1] ELSE pipe.song)
  /\ p.hyst = Updated(IF IsIngame(s) THEN EmptyBuffer ELSE pipe.hyst,
                      p.last \in RecordScenes)

Follows(p) ==
  /\ Processed(p) /\ SongFollows(p) /\ RatesFollow(p) /\ EventFollows(p)
  /\ ~Selecting(p) => Forgotten

LEMMA CachedFacts ==
  ASSUME TypedState, NEW format, CachedFrame(format)
  PROVE  /\ \E p : Kept(p) /\ Follows(p)
         /\ UNCHANGED <<game, seen, reopened, confirmed>>
<1> DEFINE p == Supported(pipe, format)
<1>0. game \in Games /\ pipe \in Pipes /\ det \in Dets /\ result \in Results
  BY DEF TypedState
<1>1. Kept(p)
  BY <1>0, SupportedFields DEF Kept
<1>2. ProcessShared(p) /\ UNCHANGED <<game, seen, reopened, confirmed>>
  BY DEF CachedFrame
<1>3. p \in Pipes
  BY <1>1 DEF Kept
<1> HIDE DEF p
<1>4. Follows(p)
  BY <1>0, <1>2, <1>3, ProcessFacts DEF Follows
<1> QED BY <1>1, <1>2, <1>4

LEMMA PreparedFacts ==
  ASSUME TypedState, PendingSeen, NEW format, NEW s \in Reads(format)
  PROVE  Prepared(WithScene(Inspected(Supported(pipe, format), s)), s)
<1> DEFINE q == Supported(pipe, format)
           p == WithScene(Inspected(q, s))
           c == CommittedScene(q, s)
<1>0. game \in Games /\ pipe \in Pipes
  BY DEF TypedState
<1>1. /\ q \in Pipes /\ q.last \in {pipe.last, Unknown} /\ q.pending \in {pipe.pending, Unknown}
      /\ q.hyst = pipe.hyst /\ q.rois = pipe.rois /\ q.song = pipe.song
  BY <1>0, SupportedFields
<1>2. /\ s \in Scenes
      /\ s \in RecordScenes => game.pattern[1] \in Songs
  <2>1. s \in Scenes /\ (s \in RecordScenes => game.screen # "other")
    BY <1>0, ReadsKind DEF RecordScenes
  <2> QED BY <1>0, <2>1, PatternSong
<1> HIDE DEF q
<1>3. /\ p \in Pipes
      /\ p.last = c
      /\ p.pending = (IF NeedsTwo(s) THEN s ELSE Unknown)
      /\ p.rois = (IF c \in RecordScenes THEN c
                   ELSE IF s \in RecordScenes THEN s ELSE q.rois)
      /\ p.song = (IF s \in RecordScenes THEN game.pattern[1] ELSE q.song)
      /\ p.hyst = Updated(IF IsIngame(s) THEN EmptyBuffer ELSE q.hyst, c \in RecordScenes)
  BY <1>1, <1>2, InspectedFields
<1>4. /\ c \in {s, Unknown, q.last}
      /\ s \in SelectScenes => c = s
      /\ s \notin RecordScenes => c \in {s, Unknown}
      /\ s \in ResultScenes /\ s # q.pending => c \in {Unknown, q.last}
  BY <1>1, <1>2, CommittedKind
<1>5. s \in ResultScenes /\ s # seen => s # q.pending
  BY <1>1, SceneKinds DEF PendingSeen, IsResult
<1> HIDE DEF p, c
<1>6. Prepared(p, s)
  BY <1>1, <1>3, <1>4, <1>5 DEF Prepared
<1> QED BY <1>6 DEF p, q

LEMMA InspectedFrameFacts ==
  ASSUME TypedState, PendingSeen, NEW format, NEW s, InspectedFrame(format, s)
  PROVE  /\ \E p : Prepared(p, s) /\ Follows(p)
         /\ s \in Reads(format) /\ seen' = s
         /\ reopened' = (~IsIngame(s) /\ (s \in SelectScenes \/ (IsResult(s) /\ s = seen) \/ reopened))
         /\ confirmed' = (confirmed \/ (IsResult(s) /\ s = seen))
         /\ game' = IF game.screen = "play" /\ game.inspections < MinPlay
                      THEN [game EXCEPT !.inspections = @ + 1] ELSE game
<1> DEFINE p == WithScene(Inspected(Supported(pipe, format), s))
<1>0. game \in Games /\ pipe \in Pipes /\ det \in Dets /\ result \in Results
  BY DEF TypedState
<1>1. s \in Reads(format) /\ ProcessShared(p)
  BY DEF InspectedFrame
<1>2. Prepared(p, s)
  BY <1>1, PreparedFacts
<1>3. p \in Pipes
  BY <1>2 DEF Prepared
<1> HIDE DEF p
<1>4. Follows(p)
  BY <1>0, <1>1, <1>3, ProcessFacts DEF Follows
<1> QED BY <1>1, <1>2, <1>4 DEF InspectedFrame

(* A prepared pipeline whose buffer is cold and whose scene is none.        *)
LEMMA ColdIsForgotten ==
  ASSUME NEW p, Follows(p), ~p.hyst.active, p.last \notin RecordScenes
  PROVE  Forgotten
BY DEF Follows, Selecting, IsResult, RecordScenes

---------------------------------------------------------------------------
(* Sound is inductive, however short plays are. *)

LEMMA InitSound == Init => Sound
<1> SUFFICES ASSUME Init PROVE Sound
  OBVIOUS
<1>1. game \in Games
  BY SizeAssumption DEF Init, Games, Screen
<1>2. pipe \in Pipes
  BY SceneKinds, EmptyFades DEF Init, FreshPipeline, Pipes
<1>3. det \in Dets
  BY FreshFacts DEF Init
<1>4. out \in Outputs /\ out.context = NoContext /\ out.event = NoEvent
  BY DetectingFacts, SceneKinds DEF Init
<1>5. result \in Results
  BY DEF Init, Results
<1>6. TypedState
  BY <1>1, <1>2, <1>3, <1>4, <1>5, SceneKinds DEF Init, TypedState
<1>7. pipe.last = Unknown /\ pipe.pending = Unknown /\ pipe.hyst = EmptyBuffer
  BY DEF Init, FreshPipeline
<1>8. PendingSeen /\ Silenced
  BY <1>7, SceneKinds, EmptyFades DEF PendingSeen, Silenced, RecordScenes
<1>9. RoisFollowScene /\ SilentAfterIngame
  BY <1>4, <1>7, SceneKinds DEF RoisFollowScene, SilentAfterIngame
<1> QED BY <1>6, <1>8, <1>9 DEF Sound

LEMMA CachedSound ==
  ASSUME Sound, NEW format, CachedFrame(format)
  PROVE  Sound'
<1>0. TypedState /\ RoisFollowScene /\ SilentAfterIngame /\ PendingSeen /\ Silenced
  BY DEF Sound
<1>1. PICK p : Kept(p) /\ Follows(p)
  BY <1>0, CachedFacts
<1>2. UNCHANGED <<game, seen, reopened, confirmed>>
  BY <1>0, CachedFacts
<1>3. Processed(p) /\ (~Selecting(p) => Forgotten)
  BY <1>1 DEF Follows
<1>4. TypedState'
  BY <1>0, <1>2, <1>3 DEF TypedState, Processed
<1>5. /\ pipe'.last \in {pipe.last, Unknown} /\ pipe'.pending \in {pipe.pending, Unknown}
      /\ pipe'.hyst = pipe.hyst /\ pipe'.rois = pipe.rois
  BY <1>1, <1>3 DEF Kept, Processed
<1>6. RoisFollowScene' /\ PendingSeen'
  BY <1>0, <1>2, <1>5, SceneKinds DEF RoisFollowScene, PendingSeen, RecordScenes
<1>7. Silenced'
  BY <1>0, <1>2, <1>5, SceneKinds DEF Silenced
<1>8. SilentAfterIngame'
  <2> SUFFICES ASSUME ~reopened'
               PROVE  out'.context = NoContext /\ out'.event = NoEvent
    BY DEF SilentAfterIngame
  <2>1. ~p.hyst.active /\ p.last \notin RecordScenes
    BY <1>3, <1>7 DEF Silenced, Processed
  <2> QED BY <1>1, <2>1, ColdIsForgotten DEF Forgotten
<1> QED BY <1>4, <1>6, <1>7, <1>8 DEF Sound

LEMMA RestFades ==
  ASSUME NEW b \in Hysts, NEW k \in Nat, k >= 2, Fading(b.samples, k)
  PROVE  Fading(Updated(b, FALSE).samples, k) /\ ~Updated(b, FALSE).active
<1>1. Fading(Updated(b, FALSE).samples, k + 1) /\ ~Updated(b, FALSE).active
  BY UpdatedFades
<1>2. FALSE \in BOOLEAN
  OBVIOUS
<1>3. Updated(b, FALSE).samples \in Seq(BOOLEAN)
  BY <1>2, UpdatedType DEF Hysts
<1>4. k <= k + 1 /\ k + 1 \in Nat
  OBVIOUS
<1>5. Fading(Updated(b, FALSE).samples, k)
  BY <1>1, <1>3, <1>4, FadingLess
<1> QED BY <1>1, <1>5

(* The buffer after an inspection that committed no record scene. *)
LEMMA MissedBuffer ==
  ASSUME NEW p, NEW s, Prepared(p, s), p.last \notin RecordScenes
  PROVE  p.hyst = Updated(IF IsIngame(s) THEN EmptyBuffer ELSE pipe.hyst, FALSE)
<1> DEFINE b == IF IsIngame(s) THEN EmptyBuffer ELSE pipe.hyst
<1>1. p.hyst = Updated(b, p.last \in RecordScenes)
  BY DEF Prepared
<1>2. (p.last \in RecordScenes) = FALSE
  OBVIOUS
<1> HIDE DEF b
<1>3. p.hyst = Updated(b, FALSE)
  BY ONLY <1>1, <1>2, Zenon
<1> QED BY <1>3 DEF b

LEMMA MissedFades ==
  ASSUME pipe \in Pipes, NEW p, NEW s, Prepared(p, s), p.last \notin RecordScenes,
         NEW k \in Nat, Fading(pipe.hyst.samples, k)
  PROVE  /\ Fading(p.hyst.samples, k + 1)
         /\ k >= 2 => ~p.hyst.active
<1> DEFINE b == IF IsIngame(s) THEN EmptyBuffer ELSE pipe.hyst
<1>1. b \in Hysts /\ Fading(b.samples, k)
  BY EmptyFades DEF Pipes
<1>2. p.hyst = Updated(b, FALSE)
  BY MissedBuffer
<1> HIDE DEF b
<1> QED BY <1>1, <1>2, UpdatedFades

LEMMA IngameFades ==
  ASSUME NEW p, NEW s \in IngameScenes, Prepared(p, s)
  PROVE  /\ ~p.hyst.active /\ Fading(p.hyst.samples, 4)
         /\ p.last \notin RecordScenes
<1>1. s \notin RecordScenes /\ IsIngame(s)
  BY SceneKinds DEF IsIngame
<1>2. p.last \notin RecordScenes
  BY <1>1, SceneKinds DEF Prepared
<1>3. p.hyst = Updated(EmptyBuffer, FALSE)
  BY <1>1, <1>2, MissedBuffer
<1>4. EmptyBuffer \in Hysts /\ Fading(EmptyBuffer.samples, 4)
  BY EmptyFades
<1>5. 4 \in Nat /\ 4 >= 2
  OBVIOUS
<1> QED BY <1>2, <1>3, <1>4, <1>5, RestFades

LEMMA InspectedSound ==
  ASSUME Sound, NEW format, NEW s, InspectedFrame(format, s)
  PROVE  Sound'
<1>0. TypedState /\ RoisFollowScene /\ SilentAfterIngame /\ PendingSeen /\ Silenced
  BY DEF Sound
<1>1. PICK p : Prepared(p, s) /\ Follows(p)
  BY <1>0, InspectedFrameFacts
<1>2. /\ s \in Reads(format) /\ seen' = s
      /\ reopened' = (~IsIngame(s) /\ (s \in SelectScenes \/ (IsResult(s) /\ s = seen) \/ reopened))
      /\ confirmed' = (confirmed \/ (IsResult(s) /\ s = seen))
      /\ game' = IF game.screen = "play" /\ game.inspections < MinPlay
                   THEN [game EXCEPT !.inspections = @ + 1] ELSE game
  BY <1>0, InspectedFrameFacts
<1>3. Processed(p)
  BY <1>1 DEF Follows
<1>4. game \in Games /\ pipe \in Pipes
  BY <1>0 DEF TypedState
<1>5. s \in Scenes
  BY <1>2, <1>4, ReadsKind
<1>6. game' \in Games
  <2>1. MinPlay \in Nat /\ game.inspections \in 0..MinPlay
    BY <1>4, SizeAssumption DEF Games
  <2>2. CASE game.screen = "play" /\ game.inspections < MinPlay
    <3> DEFINE k == game.inspections + 1
    <3>1. k \in 0..MinPlay
      BY <2>1, <2>2
    <3>2. game' = [game EXCEPT !.inspections = k]
      BY <1>2, <2>2
    <3> HIDE DEF k
    <3> QED BY <1>4, <3>1, <3>2 DEF Games
  <2>3. CASE ~(game.screen = "play" /\ game.inspections < MinPlay)
    BY <1>2, <1>4, <2>3
  <2> QED BY <2>2, <2>3
<1>7. TypedState'
  <2>1. reopened' \in BOOLEAN /\ confirmed' \in BOOLEAN
    BY <1>2 DEF IsIngame, IsResult
  <2> QED BY <1>2, <1>3, <1>5, <1>6, <2>1 DEF TypedState, Processed
<1>8. RoisFollowScene'
  <2>1. p.last \in RecordScenes => p.rois = p.last
    BY <1>1 DEF Prepared
  <2> QED BY <1>3, <2>1 DEF RoisFollowScene, Processed
<1>9. PendingSeen'
  <2>1. p.pending = (IF NeedsTwo(s) THEN s ELSE Unknown)
    BY <1>1 DEF Prepared
  <2> QED BY <1>2, <1>3, <2>1, SceneKinds DEF PendingSeen, Processed, IsResult
<1>10. Silenced'
  <2> SUFFICES ASSUME ~reopened'
               PROVE  /\ ~p.hyst.active /\ Fading(p.hyst.samples, 4)
                      /\ p.last \notin RecordScenes
    BY <1>3 DEF Silenced, Processed
  <2>1. CASE s \in IngameScenes
    BY <1>1, <2>1, IngameFades
  <2>2. CASE s \notin IngameScenes
    <3>1. ~reopened /\ s \notin SelectScenes /\ (s \in ResultScenes => s # seen)
      BY <1>2, <2>2 DEF IsIngame, IsResult
    <3>2. /\ ~pipe.hyst.active /\ Fading(pipe.hyst.samples, 4)
          /\ pipe.last \notin RecordScenes
      BY <1>0, <3>1 DEF Silenced
    <3>3. p.last \notin RecordScenes
      BY <1>1, <3>1, <3>2, SceneKinds DEF Prepared, RecordScenes
    <3>4. Fading(p.hyst.samples, 4) /\ ~p.hyst.active
      <4>1. p.hyst = Updated(pipe.hyst, FALSE)
        BY <1>1, <2>2, <3>3, MissedBuffer DEF IsIngame
      <4>2. pipe.hyst \in Hysts
        BY <1>4 DEF Pipes
      <4>3. 4 \in Nat /\ 4 >= 2
        OBVIOUS
      <4> QED BY <3>2, <4>1, <4>2, <4>3, RestFades
    <3> QED BY <3>3, <3>4
  <2> QED BY <2>1, <2>2
<1>11. SilentAfterIngame'
  <2> SUFFICES ASSUME ~reopened'
               PROVE  out'.context = NoContext /\ out'.event = NoEvent
    BY DEF SilentAfterIngame
  <2>1. ~p.hyst.active /\ p.last \notin RecordScenes
    BY <1>3, <1>10 DEF Silenced, Processed
  <2> QED BY <1>1, <2>1, ColdIsForgotten DEF Forgotten
<1> QED BY <1>7, <1>8, <1>9, <1>10, <1>11 DEF Sound

(* What the moves of the game change. *)
LEMMA GameMoveFacts ==
  ASSUME game \in Games, result \in Results, GameMove
  PROVE  /\ game' \in Games /\ game'.inspections = 0
         /\ UNCHANGED <<pipe, det, seen, reopened>>
         /\ out' \in Outputs /\ out'.context = NoContext /\ out'.event = NoEvent
         /\ result' \in Results
         /\ CASE game'.screen = "result" ->
                   /\ game.screen = "play" /\ game.inspections = MinPlay
                   /\ confirmed' = FALSE
                   /\ result' = [pattern |-> game'.pattern, rates |-> {}]
              [] OTHER -> UNCHANGED <<confirmed, result>>
<1>0. 0 \in 0..MinPlay
  BY SizeAssumption
<1>1. ASSUME NEW screen \in Screen, NEW pattern \in Patterns \cup {NoKey},
             screen # "other" => pattern \in Patterns, Show(screen, pattern)
      PROVE  /\ game' \in Games /\ game'.inspections = 0
             /\ game'.screen = screen
  BY <1>0, <1>1 DEF Show, Games
<1>2. game.screen # "other" => game.pattern \in Patterns
  BY DEF Games
<1>3. /\ game' \in Games /\ game'.inspections = 0
      /\ game'.screen = "result" => game.screen = "play" /\ game.inspections = MinPlay
  <2>1. CASE MoveCursor
    BY <1>1, <2>1 DEF MoveCursor, Screen
  <2>2. CASE StartPlay
    BY <1>1, <1>2, <2>2 DEF StartPlay, Screen
  <2>3. CASE StartRoomPlay
    BY <1>1, <2>3 DEF StartRoomPlay, Screen
  <2>4. CASE FinishPlay
    BY <1>1, <1>2, <2>4 DEF FinishPlay, Screen
  <2>5. CASE Leave
    BY <1>1, <2>5 DEF Leave, Screen
  <2>6. CASE OpenSelect
    BY <1>1, <1>2, <2>6 DEF OpenSelect, Screen
  <2> QED BY <2>1, <2>2, <2>3, <2>4, <2>5, <2>6 DEF GameMove
<1>4. out' \in Outputs /\ out'.context = NoContext /\ out'.event = NoEvent
  BY DetectingFacts, SceneKinds DEF GameMove
<1>5. UNCHANGED <<pipe, det, seen, reopened>>
  BY DEF GameMove
<1>6. CASE game'.screen = "result"
  <2>1. confirmed' = FALSE /\ result' = [pattern |-> game'.pattern, rates |-> {}]
    BY <1>6 DEF GameMove
  <2>2. game'.pattern \in Patterns \cup {NoKey}
    BY <1>3 DEF Games
  <2>3. result' \in Results
    BY <2>1, <2>2 DEF Results
  <2> QED BY <1>3, <1>4, <1>5, <1>6, <2>1, <2>3
<1>7. CASE game'.screen # "result"
  BY <1>3, <1>4, <1>5, <1>7 DEF GameMove
<1> QED BY <1>6, <1>7

LEMMA GameMoveSound ==
  ASSUME Sound, GameMove
  PROVE  Sound'
<1>0. TypedState /\ RoisFollowScene /\ SilentAfterIngame /\ PendingSeen /\ Silenced
  BY DEF Sound
<1>1. /\ game' \in Games /\ UNCHANGED <<pipe, det, seen, reopened>>
      /\ out' \in Outputs /\ out'.context = NoContext /\ out'.event = NoEvent
      /\ result' \in Results
  BY <1>0, GameMoveFacts DEF TypedState
<1>2. confirmed' \in BOOLEAN
  BY <1>0 DEF GameMove, TypedState
<1>3. TypedState'
  BY <1>0, <1>1, <1>2 DEF TypedState
<1> QED BY <1>0, <1>1, <1>3
        DEF Sound, RoisFollowScene, SilentAfterIngame, PendingSeen, Silenced

LEMMA ResetFrameFacts ==
  ASSUME TypedState, Reset
  PROVE  /\ TypedState' /\ UNCHANGED <<game, result>>
         /\ pipe'.last = Unknown /\ pipe'.pending = Unknown /\ pipe'.rois = Unknown
         /\ pipe'.hyst = EmptyBuffer /\ pipe'.song = NoSong
         /\ Blank(det') /\ out'.context = NoContext /\ out'.event = NoEvent
         /\ seen' = Unknown /\ reopened' = FALSE /\ confirmed' = FALSE
<1>1. pipe' \in Pipes
  BY SceneKinds, EmptyFades DEF Reset, FreshPipeline, Pipes
<1>2. det.wasResult \in BOOLEAN
  BY DEF TypedState, Dets
<1>3. det' \in Dets /\ Blank(det')
  BY <1>2, FreshFacts DEF Reset
<1>4. out' \in Outputs /\ out'.context = NoContext /\ out'.event = NoEvent
  BY DetectingFacts, SceneKinds DEF Reset
<1>5. UNCHANGED <<game, result>> /\ seen' = Unknown /\ reopened' = FALSE /\ confirmed' = FALSE
  BY DEF Reset
<1>6. TypedState'
  BY <1>1, <1>3, <1>4, <1>5, SceneKinds DEF TypedState
<1> QED BY <1>3, <1>4, <1>5, <1>6 DEF Reset, FreshPipeline

LEMMA ResetSound ==
  ASSUME Sound, Reset
  PROVE  Sound'
<1>1. TypedState
  BY DEF Sound
<1>2. /\ TypedState'
      /\ pipe'.last = Unknown /\ pipe'.pending = Unknown
      /\ pipe'.hyst = EmptyBuffer
      /\ out'.context = NoContext /\ out'.event = NoEvent
  BY <1>1, ResetFrameFacts
<1>3. PendingSeen' /\ Silenced'
  BY <1>2, SceneKinds, EmptyFades DEF PendingSeen, Silenced, RecordScenes
<1>4. RoisFollowScene' /\ SilentAfterIngame'
  BY <1>2, SceneKinds DEF RoisFollowScene, SilentAfterIngame
<1> QED BY <1>2, <1>3, <1>4 DEF Sound

LEMMA NextSound == Sound /\ [Next]_vars => Sound'
<1> SUFFICES ASSUME Sound, [Next]_vars PROVE Sound'
  OBVIOUS
<1>1. CASE UNCHANGED vars
  BY <1>1 DEF vars, history, Sound, TypedState, RoisFollowScene, SilentAfterIngame,
              PendingSeen, Silenced
<1> QED BY <1>1, CachedSound, InspectedSound, ResetSound, GameMoveSound DEF Next

THEOREM Invariance == Spec => []Sound
<1> QED BY InitSound, NextSound, PTL DEF Spec

LEMMA BoundedQueue ==
  ASSUME NEW S, NEW n \in Nat, NEW seq \in Seq(S), Len(seq) <= n
  PROVE  seq \in UNION {[1..k -> S] : k \in 0..n}
<1>1. Len(seq) \in Nat /\ seq \in [1..Len(seq) -> S]
  BY LenProperties
<1>2. Len(seq) \in 0..n
  BY <1>1
<1> QED BY <1>1, <1>2

LEMMA SoundTypeOK == Sound => TypeOK
<1> SUFFICES ASSUME Sound PROVE TypeOK
  OBVIOUS
<1>0. TypedState
  BY DEF Sound
<1>1. game \in [screen : Screen, pattern : Patterns \cup {NoKey}, inspections : 0..MinPlay]
  BY <1>0 DEF TypedState, Games
<1>2. pipe \in [last : Scenes, pending : Scenes, streak : 0..2,
                rois : RecordScenes \cup {Unknown}, hyst : Buffer,
                song : Songs \cup {NoSong}]
  <2>1. pipe.hyst \in Hysts
    BY <1>0 DEF TypedState, Pipes
  <2>2. Length \in Nat
    BY DEF Length
  <2>3. pipe.hyst.samples \in UNION {[1..n -> BOOLEAN] : n \in 0..Length}
    BY <2>1, <2>2, BoundedQueue DEF Hysts
  <2>4. pipe.hyst \in Buffer
    BY <2>1, <2>3 DEF Hysts, Buffer
  <2> QED BY <1>0, <2>4 DEF TypedState, Pipes
<1>3. det \in [history : UNION {[1..n -> Context \cup {NoContext}] : n \in 0..HistorySize},
               latch : Charts \cup {NoChart}, key : Songs \X Charts \cup {NoKey},
               rate : Rates \cup {NoRate},
               window : UNION {[1..n -> Rates] : n \in 0..WindowSize},
               emitted : Event \cup {NoEvent}, wasResult : BOOLEAN]
  <2>1. det \in Dets
    BY <1>0 DEF TypedState
  <2>2. det.history \in UNION {[1..n -> Contexts] : n \in 0..HistorySize}
    BY <2>1, BoundedQueue, SizeAssumption DEF Dets
  <2>3. det.window \in UNION {[1..n -> Rates] : n \in 0..WindowSize}
    BY <2>1, BoundedQueue, SizeAssumption DEF Dets
  <2> QED BY <2>1, <2>2, <2>3 DEF Dets, Contexts
<1> QED BY <1>0, <1>1, <1>2, <1>3 DEF TypedState, TypeOK, Outputs, Contexts, Results

(* The pipeline, the detector and their outputs keep the types of           *)
(* detection_pipeline.rs and play_state.rs; no queue outgrows its size.     *)
THEOREM TypeCorrect == Spec => []TypeOK
<1> QED BY Invariance, SoundTypeOK, PTL

(* Cached frames crop with the region set of the committed scene.           *)
THEOREM RoisFollow == Spec => []RoisFollowScene
<1>1. Sound => RoisFollowScene
  BY DEF Sound
<1> QED BY <1>1, Invariance, PTL

(* Gameplay closes the selection state at once, whatever was read before.   *)
THEOREM IngameSilences == Spec => []SilentAfterIngame
<1>1. Sound => SilentAfterIngame
  BY DEF Sound
<1> QED BY <1>1, Invariance, PTL

---------------------------------------------------------------------------
(* The results of plays that last for at least three inspections.           *)

Cold(b) == ~b.active /\ Fading(b.samples, 3)

(* Nothing of a selection or of an earlier result is left. *)
Dark == /\ Cold(pipe.hyst) /\ pipe.last \notin RecordScenes
        /\ pipe.song = NoSong /\ Blank(det)

(* A play ages the hysteresis buffer; after three inspections all is dark.  *)
PlayFades ==
  game.screen = "play" =>
    /\ Fading(pipe.hyst.samples, game.inspections)
    /\ game.inspections >= 1 => pipe.last \notin RecordScenes
    /\ game.inspections >= 3 => Dark

(* As long as no result screen was read twice it stays dark. *)
UnconfirmedIsDark ==
  ~confirmed /\ (pipe.rois \in ResultScenes \/ game.screen = "result") => Dark

(* With the regions of a result screen, song and rates are of that screen.  *)
RatesOfResult ==
  pipe.rois \in ResultScenes => /\ pipe.song \in {NoSong, result.pattern[1]}
                                /\ Within(det, ReadRates(result))

ResultOfGame ==
  game.screen = "result" => /\ result.pattern = game.pattern
                            /\ confirmed => pipe.rois \in ResultScenes
                            /\ pipe.last \notin SelectScenes

ResultSound ==
  /\ Sound /\ PlayFades /\ UnconfirmedIsDark /\ RatesOfResult /\ ResultOfGame
  /\ ResultSeenTwice /\ ResultOfThisPlay

LEMMA DarkAfter ==
  ASSUME NEW p, Follows(p), Cold(p.hyst), p.last \notin RecordScenes
  PROVE  Dark'
<1>1. Forgotten
  BY ColdIsForgotten DEF Cold
<1>2. pipe'.hyst = p.hyst /\ pipe'.last = p.last
  BY DEF Follows, Processed
<1> QED BY <1>1, <1>2 DEF Dark, Forgotten

LEMMA EventIsRight ==
  ASSUME NEW p, Follows(p), UnconfirmedIsDark', RatesOfResult'
  PROVE  ResultSeenTwice' /\ ResultOfThisPlay'
<1> SUFFICES ASSUME out'.event # NoEvent, out'.event.isResult
             PROVE  /\ confirmed'
                    /\ out'.event.song = result'.pattern[1]
                    /\ out'.event.rate \in result'.rates
  BY DEF ResultSeenTwice, ResultOfThisPlay
<1>1. /\ Selecting(p) /\ p.rois \in ResultScenes
      /\ pipe'.song # NoSong /\ out'.event.song = pipe'.song
      /\ out'.event.rate = (IF det'.rate = NoRate THEN 0 ELSE det'.rate)
      /\ out'.event.rate > 0
  BY DEF Follows, EventFollows, IsResult
<1>2. pipe'.rois = p.rois /\ pipe'.hyst = p.hyst /\ pipe'.last = p.last
  BY DEF Follows, Processed
<1>3. confirmed'
  <2> SUFFICES ASSUME ~confirmed' PROVE FALSE
    OBVIOUS
  <2>1. Dark'
    BY <1>1, <1>2 DEF UnconfirmedIsDark
  <2>2. ~p.hyst.active /\ p.last \notin RecordScenes
    BY <1>2, <2>1 DEF Dark, Cold
  <2> QED BY <1>1, <2>2 DEF Selecting, IsResult, RecordScenes
<1>4. pipe'.song \in {NoSong, result'.pattern[1]} /\ det'.rate \in ReadRates(result') \cup {NoRate}
  BY <1>1, <1>2 DEF RatesOfResult, Within
<1>5. out'.event.rate \in ReadRates(result')
  BY <1>1, <1>4 DEF ReadRates
<1>6. ~(0 > 0)
  OBVIOUS
<1>7. out'.event.rate \in result'.rates
  BY <1>1, <1>5, <1>6 DEF ReadRates
<1> QED BY <1>1, <1>3, <1>4, <1>7

LEMMA InitResultSound == Init => ResultSound
<1> SUFFICES ASSUME Init PROVE ResultSound
  OBVIOUS
<1>1. Sound
  BY InitSound
<1>2. game.screen = "other" /\ pipe.rois = Unknown /\ out.event = NoEvent
  BY DetectingFacts, SceneKinds DEF Init, FreshPipeline
<1> QED BY <1>1, <1>2, SceneKinds
        DEF ResultSound, PlayFades, UnconfirmedIsDark, RatesOfResult, ResultOfGame,
            ResultSeenTwice, ResultOfThisPlay, RecordScenes

(* The song a result screen's regions go with is still that of the result. *)
LEMMA RatesStay ==
  ASSUME NEW p, Follows(p), ResultOfGame,
         p.rois \in ResultScenes =>
           p.song \in {NoSong, result.pattern[1]} /\ Within(det, ReadRates(result))
  PROVE  RatesOfResult'
<1> SUFFICES ASSUME p.rois \in ResultScenes
             PROVE  /\ pipe'.song \in {NoSong, result'.pattern[1]}
                    /\ Within(det', ReadRates(result'))
  BY DEF RatesOfResult, Follows, Processed
<1>1. result'.pattern = result.pattern
  BY DEF Follows, Processed
<1>2. Within(det', ReadRates(result'))
  BY DEF Follows, RatesFollow, IsResult
<1>3. CASE pipe'.song \in {p.song, NoSong}
  BY <1>1, <1>2, <1>3
<1>4. CASE RoisFit(p) /\ pipe'.song = game.pattern[1]
  <2>1. game.screen = "result"
    BY <1>4, SceneAssumption DEF RoisFit
  <2> QED BY <1>1, <1>2, <1>4, <2>1 DEF ResultOfGame
<1> QED BY <1>3, <1>4 DEF Follows, SongFollows

LEMMA CachedResultSound ==
  ASSUME ResultSound, NEW format, CachedFrame(format)
  PROVE  ResultSound'
<1>0. /\ Sound /\ PlayFades /\ UnconfirmedIsDark /\ RatesOfResult /\ ResultOfGame
      /\ TypedState
  BY DEF ResultSound, Sound
<1>1. PICK p : Kept(p) /\ Follows(p)
  BY <1>0, CachedFacts
<1>2. UNCHANGED <<game, seen, reopened, confirmed>>
  BY <1>0, CachedFacts
<1>3. /\ p.last \in {pipe.last, Unknown}
      /\ p.hyst = pipe.hyst /\ p.rois = pipe.rois /\ p.song = pipe.song
  BY <1>1 DEF Kept
<1>4. /\ pipe'.last = p.last /\ pipe'.hyst = p.hyst /\ pipe'.rois = p.rois
      /\ result'.pattern = result.pattern
  BY <1>1 DEF Follows, Processed
<1>5. Dark => Dark'
  <2> SUFFICES ASSUME Dark PROVE Dark'
    OBVIOUS
  <2>1. Cold(p.hyst) /\ p.last \notin RecordScenes
    BY <1>3, SceneKinds DEF Dark
  <2> QED BY <1>1, <2>1, DarkAfter
<1>6. PlayFades'
  BY <1>0, <1>2, <1>3, <1>4, <1>5, SceneKinds DEF PlayFades
<1>7. UnconfirmedIsDark'
  BY <1>0, <1>2, <1>3, <1>4, <1>5 DEF UnconfirmedIsDark
<1>8. RatesOfResult'
  BY <1>0, <1>1, <1>3, RatesStay DEF RatesOfResult
<1>9. ResultOfGame'
  BY <1>0, <1>2, <1>3, <1>4, SceneKinds DEF ResultOfGame, RecordScenes
<1>10. ResultSeenTwice' /\ ResultOfThisPlay'
  BY <1>1, <1>7, <1>8, EventIsRight
<1>11. Sound'
  BY <1>0, CachedSound
<1> QED BY <1>6, <1>7, <1>8, <1>9, <1>10, <1>11 DEF ResultSound

LEMMA InspectedResultSound ==
  ASSUME ResultSound, NEW format, NEW s, InspectedFrame(format, s)
  PROVE  ResultSound'
<1>0. /\ Sound /\ PlayFades /\ UnconfirmedIsDark /\ RatesOfResult /\ ResultOfGame
      /\ TypedState /\ PendingSeen
  BY DEF ResultSound, Sound
<1>1. PICK p : Prepared(p, s) /\ Follows(p)
  BY <1>0, InspectedFrameFacts
<1>2. /\ s \in Reads(format)
      /\ confirmed' = (confirmed \/ (IsResult(s) /\ s = seen))
      /\ game' = IF game.screen = "play" /\ game.inspections < MinPlay
                   THEN [game EXCEPT !.inspections = @ + 1] ELSE game
  BY <1>0, InspectedFrameFacts
<1>3. game \in Games /\ pipe \in Pipes
  BY <1>0 DEF TypedState
<1>4. /\ s \in SelectScenes => game.screen = "select"
      /\ s \in ResultScenes => game.screen = "result"
  BY <1>2, <1>3, ReadsKind
<1>5. game'.screen = game.screen /\ game'.pattern = game.pattern
  BY <1>2, <1>3 DEF Games
<1>6. /\ p.last \in {s, Unknown, pipe.last}
      /\ s \in SelectScenes => p.last = s
      /\ s \notin RecordScenes => p.last \in {s, Unknown}
      /\ s \in ResultScenes /\ s # seen => p.last \in {Unknown, pipe.last}
      /\ p.rois = (IF p.last \in RecordScenes THEN p.last
                   ELSE IF s \in RecordScenes THEN s ELSE pipe.rois)
      /\ p.song = (IF s \in RecordScenes THEN game.pattern[1] ELSE pipe.song)
  BY <1>1 DEF Prepared
<1>7. /\ pipe'.last = p.last /\ pipe'.hyst = p.hyst /\ pipe'.rois = p.rois
      /\ result'.pattern = result.pattern
  BY <1>1 DEF Follows, Processed
<1>8. s \notin RecordScenes => p.last \notin RecordScenes /\ p.rois = pipe.rois /\ p.song = pipe.song
  BY <1>6, SceneKinds
<1>9. ASSUME Dark, p.last \notin RecordScenes
      PROVE  Dark'
  <2>1. Fading(pipe.hyst.samples, 3) /\ 3 \in Nat /\ 3 >= 2
    BY <1>9 DEF Dark, Cold
  <2> DEFINE b == IF IsIngame(s) THEN EmptyBuffer ELSE pipe.hyst
  <2>2. b \in Hysts /\ Fading(b.samples, 3)
    BY <1>3, <2>1, EmptyFades DEF Pipes
  <2>3. p.hyst = Updated(b, FALSE)
    BY <1>1, <1>9, MissedBuffer
  <2> HIDE DEF b
  <2>4. Cold(p.hyst)
    BY <2>1, <2>2, <2>3, RestFades DEF Cold
  <2> QED BY <1>1, <1>9, <2>4, DarkAfter
<1>10. PlayFades'
  <2> SUFFICES ASSUME game.screen = "play"
               PROVE  /\ Fading(p.hyst.samples, game'.inspections)
                      /\ game'.inspections >= 1 => p.last \notin RecordScenes
                      /\ game'.inspections >= 3 => Dark'
    BY <1>5, <1>7 DEF PlayFades
  <2>1. s \notin RecordScenes
    BY <1>4 DEF RecordScenes
  <2>2. p.last \notin RecordScenes
    BY <1>8, <2>1
  <2> DEFINE k == game.inspections
             l == game'.inspections
  <2>3. k \in Nat /\ MinPlay \in Nat /\ k <= MinPlay /\ Fading(pipe.hyst.samples, k)
    BY <1>0, <1>3, SizeAssumption DEF Games, PlayFades
  <2>4. Fading(p.hyst.samples, k + 1) /\ (k >= 2 => ~p.hyst.active)
    BY <1>1, <1>3, <2>2, <2>3, MissedFades
  <2>5. l = k \/ l = k + 1
    BY <1>2, <1>3 DEF Games
  <2>6. p.hyst.samples \in Seq(BOOLEAN)
    BY <1>1 DEF Prepared, Pipes, Hysts
  <2> HIDE DEF k, l
  <2>7. k + 1 \in Nat /\ l \in Nat /\ l <= k + 1
    BY <2>3, <2>5
  <2>8. Fading(p.hyst.samples, l)
    BY <2>4, <2>6, <2>7, FadingLess
  <2>9. ASSUME l >= 3
        PROVE  Dark'
    <3>1. 3 \in Nat /\ 3 <= l /\ k >= 2
      BY <2>3, <2>5, <2>9
    <3>2. Fading(p.hyst.samples, 3)
      BY <2>6, <2>7, <2>8, <3>1, FadingLess
    <3>3. Cold(p.hyst)
      BY <2>4, <3>1, <3>2 DEF Cold
    <3> QED BY <1>1, <2>2, <3>3, DarkAfter
  <2> QED BY <2>2, <2>8, <2>9 DEF l
<1>11. UnconfirmedIsDark'
  <2> SUFFICES ASSUME ~confirmed', p.rois \in ResultScenes \/ game.screen = "result"
               PROVE  Dark'
    BY <1>5, <1>7 DEF UnconfirmedIsDark
  <2>1. ~confirmed /\ (s \in ResultScenes => s # seen)
    BY <1>2 DEF IsResult
  <2>2. CASE game.screen = "result"
    <3>1. Dark
      BY <1>0, <2>1, <2>2 DEF UnconfirmedIsDark
    <3>2. s \notin SelectScenes
      BY <1>4, <2>2
    <3>3. p.last \notin RecordScenes
      BY <1>6, <1>8, <2>1, <3>1, <3>2, SceneKinds DEF Dark, RecordScenes
    <3> QED BY <1>9, <3>1, <3>3
  <2>3. CASE game.screen # "result"
    <3>1. s \notin ResultScenes /\ p.rois \in ResultScenes
      BY <1>4, <2>3
    <3>2. s \notin SelectScenes
      BY <1>6, <3>1, SceneKinds DEF RecordScenes
    <3>3. s \notin RecordScenes
      BY <3>1, <3>2 DEF RecordScenes
    <3>4. Dark
      BY <1>0, <1>8, <2>1, <3>1, <3>3 DEF UnconfirmedIsDark
    <3> QED BY <1>8, <1>9, <3>3, <3>4
  <2> QED BY <2>2, <2>3
<1>12. RatesOfResult'
  <2>1. ASSUME p.rois \in ResultScenes
        PROVE  p.song \in {NoSong, result.pattern[1]} /\ Within(det, ReadRates(result))
    <3>1. CASE s \in ResultScenes
      <4>1. game.screen = "result" /\ p.song = result.pattern[1]
        BY <1>0, <1>4, <1>6, <3>1 DEF ResultOfGame, RecordScenes
      <4>2. CASE confirmed
        BY <1>0, <4>1, <4>2 DEF ResultOfGame, RatesOfResult
      <4>3. CASE ~confirmed
        <5>1. Blank(det)
          BY <1>0, <4>1, <4>3 DEF UnconfirmedIsDark, Dark
        <5> QED BY <4>1, <5>1, BlankWithin
      <4> QED BY <4>2, <4>3
    <3>2. CASE s \notin ResultScenes
      <4>1. s \notin SelectScenes
        BY <1>6, <2>1, SceneKinds
      <4>2. s \notin RecordScenes
        BY <3>2, <4>1 DEF RecordScenes
      <4> QED BY <1>0, <1>8, <2>1, <4>2 DEF RatesOfResult
    <3> QED BY <3>1, <3>2
  <2> QED BY <1>0, <1>1, <2>1, RatesStay
<1>13. ResultOfGame'
  <2> SUFFICES ASSUME game.screen = "result"
               PROVE  /\ result'.pattern = game.pattern
                      /\ confirmed' => p.rois \in ResultScenes
                      /\ p.last \notin SelectScenes
    BY <1>5, <1>7 DEF ResultOfGame
  <2>1. /\ result.pattern = game.pattern /\ pipe.last \notin SelectScenes
        /\ confirmed => pipe.rois \in ResultScenes
    BY <1>0 DEF ResultOfGame
  <2>2. s \notin SelectScenes
    BY <1>4
  <2>3. p.last \notin SelectScenes
    BY <1>6, <2>1, <2>2, SceneKinds DEF RecordScenes
  <2>4. CASE s \in ResultScenes
    <3>1. p.rois \in ResultScenes
      BY <1>6, <2>3, <2>4 DEF RecordScenes
    <3> QED BY <1>7, <2>1, <2>3, <3>1
  <2>5. CASE s \notin ResultScenes
    <3>1. s \notin RecordScenes /\ (confirmed' => confirmed)
      BY <1>2, <2>2, <2>5 DEF RecordScenes, IsResult
    <3> QED BY <1>7, <1>8, <2>1, <2>3, <3>1
  <2> QED BY <2>4, <2>5
<1>14. ResultSeenTwice' /\ ResultOfThisPlay'
  BY <1>1, <1>11, <1>12, EventIsRight
<1>15. Sound'
  BY <1>0, InspectedSound
<1> QED BY <1>10, <1>11, <1>12, <1>13, <1>14, <1>15 DEF ResultSound

LEMMA ResetResultSound ==
  ASSUME ResultSound, Reset
  PROVE  ResultSound'
<1>0. Sound /\ TypedState /\ ResultOfGame
  BY DEF ResultSound, Sound
<1>1. /\ TypedState' /\ UNCHANGED <<game, result>>
      /\ pipe'.last = Unknown /\ pipe'.rois = Unknown
      /\ pipe'.hyst = EmptyBuffer /\ pipe'.song = NoSong
      /\ Blank(det') /\ out'.event = NoEvent /\ confirmed' = FALSE
  BY <1>0, ResetFrameFacts
<1>2. Cold(EmptyBuffer)
  BY EmptyFades DEF Cold
<1>3. Dark'
  BY <1>1, <1>2, SceneKinds DEF Dark
<1>4. game.inspections \in Nat
  BY <1>0, SizeAssumption DEF TypedState, Games
<1>5. PlayFades'
  BY <1>1, <1>3, <1>4, EmptyFades, SceneKinds DEF PlayFades
<1>6. UnconfirmedIsDark' /\ RatesOfResult' /\ ResultOfGame'
  BY <1>0, <1>1, <1>3, SceneKinds
     DEF UnconfirmedIsDark, RatesOfResult, ResultOfGame, RecordScenes
<1>7. ResultSeenTwice' /\ ResultOfThisPlay'
  BY <1>1 DEF ResultSeenTwice, ResultOfThisPlay
<1>8. Sound'
  BY <1>0, ResetSound
<1> QED BY <1>5, <1>6, <1>7, <1>8 DEF ResultSound

LEMMA GameMoveResultSound ==
  ASSUME MinPlay >= 3, ResultSound, GameMove
  PROVE  ResultSound'
<1>0. /\ Sound /\ PlayFades /\ UnconfirmedIsDark /\ RatesOfResult /\ ResultOfGame
      /\ game \in Games /\ pipe \in Pipes /\ result \in Results
  BY DEF ResultSound, Sound, TypedState
<1>1. /\ game' \in Games /\ game'.inspections = 0
      /\ pipe' = pipe /\ det' = det
      /\ out'.event = NoEvent
  BY <1>0, GameMoveFacts
<1>2. Dark' <=> Dark
  BY <1>1 DEF Dark
<1>3. PlayFades'
  <2>1. Fading(pipe.hyst.samples, 0)
    <3>1. Len(pipe.hyst.samples) \in Nat
      BY <1>0 DEF Pipes, Hysts
    <3> QED BY <3>1 DEF Fading
  <2> QED BY <1>1, <2>1 DEF PlayFades
<1>4. ResultSeenTwice' /\ ResultOfThisPlay'
  BY <1>1 DEF ResultSeenTwice, ResultOfThisPlay
<1>5. Sound'
  BY <1>0, GameMoveSound
<1>6. CASE game'.screen = "result"
  <2>1. /\ game.screen = "play" /\ game.inspections = MinPlay
        /\ confirmed' = FALSE
        /\ result' = [pattern |-> game'.pattern, rates |-> {}]
    BY <1>0, <1>6, GameMoveFacts
  <2>2. Dark
    BY <1>0, <2>1 DEF PlayFades
  <2>3. UnconfirmedIsDark'
    BY <1>2, <2>2 DEF UnconfirmedIsDark
  <2>4. RatesOfResult'
    <3>1. pipe.song = NoSong /\ Within(det, ReadRates(result'))
      BY <2>2, BlankWithin DEF Dark
    <3> QED BY <1>1, <3>1 DEF RatesOfResult
  <2>5. ResultOfGame'
    BY <1>1, <2>1, <2>2 DEF ResultOfGame, Dark, RecordScenes
  <2> QED BY <1>3, <1>4, <1>5, <2>3, <2>4, <2>5 DEF ResultSound
<1>7. CASE game'.screen # "result"
  <2>1. confirmed' = confirmed /\ result' = result
    BY <1>0, <1>7, GameMoveFacts
  <2>2. UnconfirmedIsDark' /\ RatesOfResult' /\ ResultOfGame'
    BY <1>0, <1>1, <1>2, <1>7, <2>1 DEF UnconfirmedIsDark, RatesOfResult, ResultOfGame
  <2> QED BY <1>3, <1>4, <1>5, <2>2 DEF ResultSound
<1> QED BY <1>6, <1>7

LEMMA NextResultSound ==
  ASSUME MinPlay >= 3, ResultSound, [Next]_vars
  PROVE  ResultSound'
<1>1. CASE UNCHANGED vars
  <2>1. Sound'
    BY NextSound DEF ResultSound
  <2> QED BY <1>1, <2>1
          DEF vars, history, ResultSound, PlayFades, UnconfirmedIsDark, Dark, RatesOfResult,
              ResultOfGame, ResultSeenTwice, ResultOfThisPlay
<1> QED BY <1>1, CachedResultSound, InspectedResultSound, ResetResultSound,
           GameMoveResultSound DEF Next

LEMMA ResultInvariance ==
  ASSUME MinPlay >= 3
  PROVE  Spec => []ResultSound
<1>1. ResultSound /\ [Next]_vars => ResultSound'
  BY NextResultSound
<1> QED BY <1>1, InitResultSound, PTL DEF Spec

(* A verified play of a result screen is of the song that was played, with  *)
(* a rate read on that screen, if plays last for three inspections at least.*)
THEOREM ResultIsOfThisPlay ==
  ASSUME MinPlay >= 3
  PROVE  Spec => []ResultOfThisPlay
<1>1. ResultSound => ResultOfThisPlay
  BY DEF ResultSound
<1> QED BY <1>1, ResultInvariance, PTL

(* ... and that screen was read twice running. *)
THEOREM ResultIsSeenTwice ==
  ASSUME MinPlay >= 3
  PROVE  Spec => []ResultSeenTwice
<1>1. ResultSound => ResultSeenTwice
  BY DEF ResultSound
<1> QED BY <1>1, ResultInvariance, PTL
============================================================================
